--------------------- MODULE ConditionVariableExamples ---------------------
(***************************************************************************)
(* The programs of examples/conditionVariable/cpp: two tasks, a value, a   *)
(* mutex and a condition variable each.  A program is a sequence of        *)
(* instructions per task; each carries out actions of ConditionVariable.   *)
(* The example "any" is the application of that module, which does what it *)
(* likes.                                                                  *)
(*                                                                         *)
(* Timeouts that the programs call forever do not happen.                  *)
(***************************************************************************)
EXTENDS ConditionVariable

CONSTANTS Thread1, Thread2

ASSUME ThreadAssumption == Thread1 # Thread2 /\ Task = {Thread1, Thread2}

VARIABLES
  example,  \* the program that runs
  ip        \* the instruction each of its tasks is at

exampleVars == <<vars, example, ip>>

Examples == {"wait", "waitCondition", "waitFor", "waitForCondition"}

-----------------------------------------------------------------------------
(* Instructions.                                                           *)

LockMutex   == [op |-> "lock"]
UnlockMutex == [op |-> "unlock"]
SetValue(v) == [op |-> "set", to |-> v]
NotifyOnce  == <<[op |-> "notify", next |-> 1]>>

\* while (value != v) { cv.notifyOne(task); task->suspend(); }
\* Much may happen between the look at the value and the notification.
NotifyUntil(v) ==
  <<[op |-> "check", until |-> v], [op |-> "notify", next |-> -1]>>

\* How the program expects a call to end, and whether its timeout may strike.
WaitCall(c, p, end, finite) ==
  [op |-> "wait", call |-> c, condition |-> p, end |-> end, finite |-> finite]

ForNotification      == WaitCall("wait", {}, "notified", FALSE)
ForValue(v)          == WaitCall("waitPredicate", {v}, "notified", FALSE)
ForeverNotification  == WaitCall("waitFor", {}, "notified", FALSE)
ForeverValue(v)      == WaitCall("waitForPredicate", {v}, "notified", FALSE)
ATimeForValue(v)     == WaitCall("waitForPredicate", {v}, "timeout", TRUE)
ATimeNotification    == WaitCall("waitFor", {}, "timeout", TRUE)

Guarded(instruction) == <<LockMutex, instruction, UnlockMutex>>

\* conditionVariableWait.
NotifierOnce == NotifyOnce
Notifier     == NotifyUntil(1)
Waiter       == Guarded(ForNotification) \o <<SetValue(1)>>

\* conditionVariableWaitCondition.
Setter1 == Guarded(SetValue(1)) \o NotifyUntil(1) \o Guarded(ForValue(2))
Setter2 == Guarded(ForValue(1)) \o Guarded(SetValue(2)) \o NotifyOnce

\* conditionVariableWaitFor.
TimedWaiter ==
  Guarded(ForeverNotification) \o <<SetValue(1)>> \o Guarded(ATimeNotification)

\* conditionVariableWaitForCondition.
TimedSetter1 ==
  Guarded(SetValue(1)) \o NotifyUntil(2) \o Guarded(ForeverValue(2))
    \o Guarded(ATimeForValue(3)) \o Guarded(SetValue(3))
TimedSetter2 ==
  Guarded(ForeverValue(1)) \o Guarded(SetValue(2)) \o NotifyUntil(3)

Program(t) ==
  CASE example = "wait"             -> IF t = Thread1 THEN Waiter ELSE Notifier
    [] example = "waitCondition"    -> IF t = Thread1 THEN Setter1 ELSE Setter2
    [] example = "waitFor"          -> IF t = Thread1 THEN TimedWaiter ELSE Notifier
    [] example = "waitForCondition" -> IF t = Thread1 THEN TimedSetter1
                                                      ELSE TimedSetter2
    [] example = "any"              -> <<>>

\* What the programs print, and assert where they assert anything.
ExpectedValue == [e \in Examples |-> CASE e \in {"wait", "waitFor"} -> 1
                                       [] e = "waitCondition"       -> 2
                                       [] e = "waitForCondition"    -> 3]

-----------------------------------------------------------------------------

ExamplesInit ==
  /\ Init
  /\ example \in Examples \cup {"any"}
  /\ example # "any" => value = 0
  /\ ip = [t \in Task |-> 1]

Ended(t)   == ip[t] > Len(Program(t))
Current(t) == Program(t)[ip[t]]
At(t, op)  == ~Ended(t) /\ Current(t).op = op

Jump(t, by) == ip' = [ip EXCEPT ![t] = @ + by] /\ UNCHANGED example
Advance(t)  == Jump(t, 1)
Stay        == UNCHANGED <<example, ip>>

DoLock(t)   == At(t, "lock") /\ Lock(t) /\ Advance(t)
DoUnlock(t) == At(t, "unlock") /\ Unlock(t) /\ Advance(t)

\* With or without the mutex: the first and the third program set the value
\* outside of it.
DoSet(t) ==
  /\ At(t, "set") /\ pc[t] \in {"outside", "holding"}
  /\ value' = Current(t).to
  /\ Advance(t)
  /\ UNCHANGED <<lockVars, listVars, pc, callVars, flagVars>>

\* A waiting call is over when it returns, at once or later.
DoWait(t) ==
  /\ At(t, "wait")
  /\ LET c == Current(t) IN
     \/ Wait(t, c.call, c.condition) /\ Stay
     \/ /\ pc[t] = "holding" /\ value \in c.condition
        /\ Advance(t) /\ UNCHANGED vars

\* The loop's look at the value, and its notification.
DoCheck(t) ==
  /\ At(t, "check") /\ pc[t] = "outside"
  /\ Jump(t, IF value = Current(t).until THEN 2 ELSE 1)
  /\ UNCHANGED vars

DoNotifyOne(t) ==
  /\ At(t, "notify") /\ Notify(t, "notifyOne")
  /\ Jump(t, Current(t).next)

Returns(t) == InCall(t) /\ call'[t] = "none"

\* What goes on inside the calls.
DoStep(t) ==
  /\ Step(t)
  /\ IF example # "any" /\ Returns(t) THEN Advance(t) ELSE Stay

MayTimeOut(t) == At(t, "wait") /\ Current(t).finite

DoTimeout(t) == MayTimeOut(t) /\ Timeout(t) /\ Stay

Do(t) ==
  \/ DoLock(t) \/ DoUnlock(t) \/ DoSet(t) \/ DoWait(t) \/ DoCheck(t)
  \/ DoNotifyOne(t)

Anything ==
  /\ example = "any" /\ Stay
  /\ \E t \in Task : Timeout(t) \/ Application(t)

ExamplesNext ==
  \/ Anything
  \/ \E t \in Task : DoStep(t) \/ DoTimeout(t) \/ Do(t)

\* As in ConditionVariable.  The tasks of a program go on to its end.  A deadline
\* that has passed is found passed: it is taken before the waiting begins.
ExamplesFairness ==
  \A t \in Task :
    /\ WF_exampleVars(DoStep(t))
    /\ SF_exampleVars(example = "any" /\ Unlock(t) /\ Stay)
    /\ WF_exampleVars(Do(t))
    /\ SF_exampleVars(DoTimeout(t))

ExamplesSpec == ExamplesInit /\ [][ExamplesNext]_exampleVars /\ ExamplesFairness

-----------------------------------------------------------------------------
(* Properties.                                                             *)

\* Every program ends, with the value it announces: no notification it depends
\* on comes too early or is spent on nobody.  The second program is left out: if
\* its second thread waits before the first one sets the value, the first one
\* skips its notifications, as the value is 1 already, and both wait for ever.
ExamplesEnd ==
  \A e \in Examples \ {"waitCondition"} :
    example = e ~> (\A t \in Task : Ended(t)) /\ value = ExpectedValue[e]

\* The program does not exit with an error after the wait that a step ends: a
\* wait for ever returns by a notification, with its predicate true, and a wait
\* for what does not happen returns by its timeout.
EndsAsExpected(t) ==
  LET c == Current(t) IN
  /\ c.end = "notified" => ~isTimeout[t] /\ notificationFlag[t]
  /\ c.end = "timeout" => isTimeout[t]
  /\ c.call \in WithPredicate => Predicate(t) <=> c.end = "notified"

\* So every wait of the programs ends, whatever notifications it gets.  Excepted
\* is the second one of conditionVariableWaitFor: a notification that was decided
\* on before the value was set may still come, and the program then exits with
\* an error.
WaitsEndAsExpected ==
  [][\A t \in Task : example # "any" /\ Returns(t) =>
       \/ example = "waitFor" /\ Current(t).end = "timeout"
       \/ EndsAsExpected(t)]_exampleVars

=============================================================================
