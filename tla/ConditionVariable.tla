------------------------- MODULE ConditionVariable -------------------------
(***************************************************************************)
(* taskr::ConditionVariable (conditionVariable.hpp), with the mutex that   *)
(* its callers bring along and the value that this one protects.  Both     *)
(* mutexes, the caller's and the one inside the condition variable, are    *)
(* FifoLocks, which is what Mutex implements.                              *)
(*                                                                         *)
(* A waiting task leaves the address of a flag on its own stack in the     *)
(* list of waiting tasks, which is shown by its name.  When the call that  *)
(* the flag belongs to returns, an address that is still kept dangles: it  *)
(* turns into NoTask.  The list is used under _mutex only, but the pending *)
(* operations read the flags without it, so that each write of a           *)
(* notification to a flag is a step of its own.                            *)
(***************************************************************************)
EXTENDS Integers, Sequences

CONSTANTS
  Task, NoTask,
  Values,     \* of the data that the caller's mutex protects
  Conditions, \* the predicates tasks wait for: sets of values they hold for
  Waits,      \* the waiting calls tasks make, of WaitCalls
  MaxListed   \* bound: nobody starts to wait while this many flags are listed

WaitCalls   == {"wait", "waitPredicate", "waitForPredicate", "waitFor"}
NotifyCalls == {"notifyOne", "notifyAll"}

ASSUME TaskAssumption  == NoTask \notin Task
ASSUME BoundAssumption == Waits \subseteq WaitCalls /\ MaxListed \in Nat
ASSUME ValueAssumption == Conditions \subseteq SUBSET Values

VARIABLES
  owner, queue,            \* the caller's mutex, conditionMutex
  innerOwner, innerQueue,  \* _mutex
  waitingTasks,            \* _waitingTasks
  taken,                   \* the address notifyOne has popped and not written to
  value,                   \* the data that the caller's mutex protects
  pc,                      \* where each task is
  call,                    \* the call it is in
  condition,               \* the conditionPredicate of that call
  notificationFlag,        \* its flag
  isTimeout                \* its wait ended by timeout

lockVars == <<owner, queue, innerOwner, innerQueue>>
listVars == <<waitingTasks, taken>>
callVars == <<call, condition>>
flagVars == <<notificationFlag, isTimeout>>
vars     == <<lockVars, listVars, value, pc, callVars, flagVars>>

Condition == INSTANCE FifoLock
Inner     == INSTANCE FifoLock WITH owner <- innerOwner, queue <- innerQueue

Points == {"outside", "locking", "holding", "enlisting", "releasing",
           "waiting", "waking", "relocking",
           "notifying", "setting", "popping", "leaving"}

Init ==
  /\ Condition!Init /\ Inner!Init
  /\ waitingTasks = <<>> /\ taken = NoTask
  /\ value \in Values
  /\ pc = [t \in Task |-> "outside"]
  /\ call = [t \in Task |-> "none"]
  /\ condition = [t \in Task |-> {}]
  /\ notificationFlag = [t \in Task |-> FALSE]
  /\ isTimeout = [t \in Task |-> FALSE]

Goto(t, from, to) == pc[t] = from /\ pc' = [pc EXCEPT ![t] = to]

InCall(t) == call[t] \in WaitCalls

\* The waiting calls that take a predicate, and whether it holds.
WithPredicate == {"waitPredicate", "waitForPredicate"}
Predicate(t)  == value \in condition[t]

-----------------------------------------------------------------------------
(* The application: takes the mutex, changes what it protects, and calls.  *)

Lock(t) ==
  /\ Goto(t, "outside", "locking")
  /\ Condition!Request(t)
  /\ UNCHANGED <<innerOwner, innerQueue, listVars, value, callVars,
                 flagVars>>

Locked(t) ==
  /\ owner = t
  /\ Goto(t, "locking", "holding")
  /\ UNCHANGED <<lockVars, listVars, value, callVars, flagVars>>

ChangeValue(t) ==
  /\ pc[t] = "holding"
  /\ value' \in Values \ {value}
  /\ UNCHANGED <<lockVars, listVars, pc, callVars, flagVars>>

Unlock(t) ==
  /\ Goto(t, "holding", "outside")
  /\ Condition!Release(t)
  /\ UNCHANGED <<innerOwner, innerQueue, listVars, value, callVars,
                 flagVars>>

-----------------------------------------------------------------------------
(* wait and waitFor, with and without a predicate.                         *)

\* The calls with a predicate return at once if it holds, which leaves the
\* state as it is; the others go on to take _mutex.
Wait(t, c, p) ==
  /\ IF c \in WithPredicate THEN p \in Conditions /\ value \notin p
                             ELSE p = {}
  /\ Len(waitingTasks) < MaxListed
  /\ Goto(t, "holding", "enlisting")
  /\ Inner!Request(t)
  /\ call' = [call EXCEPT ![t] = c]
  /\ condition' = [condition EXCEPT ![t] = p]
  /\ isTimeout' = [isTimeout EXCEPT ![t] = FALSE]
  /\ UNCHANGED <<owner, queue, listVars, value, notificationFlag>>

\* A new flag, cleared, at the end of the list; then _mutex is released.
EnlistUncleared(t) ==
  /\ Goto(t, "enlisting", "releasing")
  /\ Inner!Release(t)
  /\ waitingTasks' = Append(waitingTasks, t)
  /\ UNCHANGED <<owner, queue, taken, value, callVars, flagVars>>

Enlist(t) ==
  /\ Goto(t, "enlisting", "releasing")
  /\ Inner!Release(t)
  /\ notificationFlag' = [notificationFlag EXCEPT ![t] = FALSE]
  /\ waitingTasks' = Append(waitingTasks, t)
  /\ UNCHANGED <<owner, queue, taken, value, callVars, isTimeout>>

\* The caller's mutex is released and the task suspends itself.
ReleaseFirst(t) ==
  /\ Goto(t, "releasing", "waiting")
  /\ Condition!Release(t)
  /\ notificationFlag' = [notificationFlag EXCEPT ![t] = FALSE]
  /\ UNCHANGED <<innerOwner, innerQueue, listVars, value, callVars,
                 isTimeout>>

SleepHolding(t) ==
  /\ Goto(t, "releasing", "waiting")
  /\ UNCHANGED <<lockVars, listVars, value, callVars, flagVars>>

Release(t) ==
  /\ Goto(t, "releasing", "waiting")
  /\ Condition!Release(t)
  /\ UNCHANGED <<innerOwner, innerQueue, listVars, value, callVars,
                 flagVars>>

\* The pending operation finds the flag set.
WakeSpuriously(t) ==
  /\ Goto(t, "waiting", "waking")
  /\ UNCHANGED <<lockVars, listVars, value, callVars, flagVars>>

Notified(t) ==
  /\ notificationFlag[t]
  /\ Goto(t, "waiting", "waking")
  /\ UNCHANGED <<lockVars, listVars, value, callVars, flagVars>>

\* The pending operation of waitFor finds the time over.  With a predicate it
\* looks at the time first; without one it looks at the flag first, but a
\* notification may set it between the two looks.
Timeout(t) ==
  /\ call[t] \in {"waitForPredicate", "waitFor"}
  /\ Goto(t, "waiting", "waking")
  /\ isTimeout' = [isTimeout EXCEPT ![t] = TRUE]
  /\ notificationFlag' =
       [notificationFlag EXCEPT ![t] = @ \/ call[t] = "waitFor"]
  /\ UNCHANGED <<lockVars, listVars, value, callVars>>

\* The task runs again and takes the caller's mutex back, waiting if need be.
RelockUnasked(t) ==
  /\ Goto(t, "waking", "relocking")
  /\ UNCHANGED <<lockVars, listVars, value, callVars, flagVars>>

Relock(t) ==
  /\ Goto(t, "waking", "relocking")
  /\ Condition!Request(t)
  /\ UNCHANGED <<innerOwner, innerQueue, listVars, value, callVars,
                 flagVars>>

\* A call with a predicate registers once more if it still does not hold.
ReturnsAfterOne(t) == TRUE
WaitIsOver(t) ==
  \/ call[t] \in {"wait", "waitFor"}
  \/ Predicate(t)
  \/ call[t] = "waitForPredicate" /\ isTimeout[t]

WaitAgain(t) ==
  /\ owner = t /\ ~WaitIsOver(t)
  /\ Goto(t, "relocking", "enlisting")
  /\ Inner!Request(t)
  /\ UNCHANGED <<owner, queue, listVars, value, callVars, flagVars>>

\* The end of the call is the end of its flag.
Forget(t) == [i \in DOMAIN waitingTasks |->
                IF waitingTasks[i] = t THEN NoTask ELSE waitingTasks[i]]

Return(t) ==
  /\ owner = t /\ WaitIsOver(t)
  /\ Goto(t, "relocking", "holding")
  /\ call' = [call EXCEPT ![t] = "none"]
  /\ condition' = [condition EXCEPT ![t] = {}]
  /\ waitingTasks' = Forget(t)
  /\ taken' = IF taken = t THEN NoTask ELSE taken
  /\ UNCHANGED <<lockVars, value, flagVars>>

-----------------------------------------------------------------------------
(* notifyOne and notifyAll, with the caller's mutex held or not.           *)

Notify(t, c) ==
  /\ \E from \in {"outside", "holding"} : Goto(t, from, "notifying")
  /\ Inner!Request(t)
  /\ call' = [call EXCEPT ![t] = c]
  /\ UNCHANGED <<owner, queue, listVars, value, condition, flagVars>>

Listed == {waitingTasks[i] : i \in DOMAIN waitingTasks}

\* A task at work on the list, with a flag in it.
AtFirst(t, c) == innerOwner = t /\ call[t] = c /\ waitingTasks # <<>>

\* The write through an address.  One to a flag that is gone changes nothing
\* the program may look at.
Set(flag) ==
  notificationFlag' = [t \in Task |-> notificationFlag[t] \/ t = flag]

\* notifyOne pops the first address, and then writes through it.
PeekFirst(t) ==
  /\ AtFirst(t, "notifyOne")
  /\ Goto(t, "notifying", "setting")
  /\ taken' = Head(waitingTasks)
  /\ UNCHANGED <<lockVars, waitingTasks, value, callVars, flagVars>>

TakeFirst(t) ==
  /\ AtFirst(t, "notifyOne")
  /\ Goto(t, "notifying", "setting")
  /\ taken' = Head(waitingTasks)
  /\ waitingTasks' = Tail(waitingTasks)
  /\ UNCHANGED <<lockVars, value, callVars, flagVars>>

SetTaken(t) ==
  /\ Goto(t, "setting", "leaving")
  /\ Set(taken)
  /\ taken' = NoTask
  /\ UNCHANGED <<lockVars, waitingTasks, value, callVars, isTimeout>>

\* notifyAll writes through the first address, and then pops it, until the
\* list is empty.
SetFirst(t) ==
  /\ AtFirst(t, "notifyAll")
  /\ Goto(t, "notifying", "popping")
  /\ Set(Head(waitingTasks))
  /\ UNCHANGED <<lockVars, listVars, value, callVars, isTimeout>>

PopFirst(t) ==
  /\ Goto(t, "popping", "notifying")
  /\ waitingTasks' = Tail(waitingTasks)
  /\ UNCHANGED <<lockVars, taken, value, callVars, flagVars>>

\* The end of both, at once if they find the list empty.
EndNotify(t) ==
  /\ \/ pc[t] = "leaving"
     \/ pc[t] = "notifying" /\ waitingTasks = <<>>
  /\ Inner!Release(t)
  /\ pc' = [pc EXCEPT ![t] = IF owner = t THEN "holding" ELSE "outside"]
  /\ call' = [call EXCEPT ![t] = "none"]
  /\ UNCHANGED <<owner, queue, listVars, value, condition, flagVars>>

-----------------------------------------------------------------------------

Step(t) ==
  \/ Locked(t) \/ Enlist(t) \/ Release(t) \/ Notified(t) \/ Relock(t)
  \/ WaitAgain(t) \/ Return(t) \/ TakeFirst(t) \/ SetTaken(t) \/ SetFirst(t)
  \/ PopFirst(t) \/ EndNotify(t)

Application(t) ==
  \/ Lock(t) \/ ChangeValue(t) \/ Unlock(t)
  \/ \E c \in Waits : \E p \in Conditions \cup {{}} : Wait(t, c, p)
  \/ \E c \in NotifyCalls : Notify(t, c)

Next == \E t \in Task : Step(t) \/ Timeout(t) \/ Application(t)

Spec == Init /\ [][Next]_vars

\* Tasks that can run do run, and whoever holds the caller's mutex gives it up
\* in the end, by unlocking it or by waiting.
Fairness ==
  \A t \in Task : /\ WF_vars(Step(t))
                  /\ SF_vars(Unlock(t))

FairSpec == Spec /\ Fairness

-----------------------------------------------------------------------------
(* Properties.                                                             *)

TypeOK ==
  /\ owner \in Task \cup {NoTask} /\ innerOwner \in Task \cup {NoTask}
  /\ queue \in Seq(Task) /\ innerQueue \in Seq(Task)
  /\ waitingTasks \in Seq(Task \cup {NoTask})
  /\ taken \in Task \cup {NoTask}
  /\ value \in Values
  /\ condition \in [Task -> SUBSET Values]
  /\ pc \in [Task -> Points]
  /\ call \in [Task -> WaitCalls \cup NotifyCalls \cup {"none"}]
  /\ notificationFlag \in [Task -> BOOLEAN]
  /\ isTimeout \in [Task -> BOOLEAN]

\* The flag a step of a notification writes to.
Sets(u, flag) ==
  \/ SetTaken(u) /\ flag = taken
  \/ SetFirst(u) /\ flag = Head(waitingTasks)

\* Asleep, or about to be, and not notified yet.
Sleeps(t) == pc[t] \in {"releasing", "waiting"} /\ ~notificationFlag[t]

\* No notification writes to a flag whose call has returned: none arrives
\* after a timeout in a stack frame that no longer exists.
NoDeadFlagWritten == [][\A u \in Task : ~Sets(u, NoTask)]_vars

\* A task that sleeps and has not been notified is in the list exactly once, or
\* it is the one that a notifyOne has just popped and is about to notify:
\* neither is lost to the notifications.
SleepersAreListed ==
  \A t \in Task : Sleeps(t) =>
    \/ taken = t /\ \E u \in Task : pc[u] = "setting"
    \/ \E i \in DOMAIN waitingTasks :
         \A j \in DOMAIN waitingTasks : waitingTasks[j] = t <=> j = i

\* A call that a notification has ended leaves no address behind that anybody
\* will write to: the pending operations do not wait for the notifier, so the
\* address may still be in the list, but only as the one that a notifyAll has
\* written to and pops next.  Only a timeout leaves others.
OnlyTimeoutsDangle ==
  [][\A t \in Task : InCall(t) /\ call'[t] = "none" /\ ~isTimeout[t] =>
       /\ taken # t
       /\ \A i \in DOMAIN waitingTasks : waitingTasks[i] = t =>
            i = 1 /\ \E u \in Task : pc[u] = "popping"]_vars

\* No notification is lost in the gap between the release of the caller's
\* mutex and the suspension, and none is spent on a task that has been notified
\* before, while others go in and out of their calls: each flag written to
\* belongs to a task that sleeps, or to a call that has timed out.
EveryNotificationArrives ==
  [][\A u \in Task, t \in Task : Sets(u, t) /\ ~isTimeout[t] =>
       Sleeps(t) /\ notificationFlag'[t]]_vars

\* Every waiting call gives the mutex back to its caller before it returns,
\* one with a predicate returns only while the predicate holds or after its
\* timeout, and one without returns only after a notification.
ReturnsAsPromised ==
  [][\A t \in Task : InCall(t) /\ call'[t] = "none" =>
       /\ owner = t
       /\ call[t] = "waitPredicate" => Predicate(t)
       /\ call[t] = "waitForPredicate" => Predicate(t) \/ isTimeout[t]
       /\ call[t] = "wait" => notificationFlag[t]]_vars

\* A task is not notified in vain: it takes its mutex back, and from then on
\* leaves the call or registers again.
NotifiedTaskGoesOn ==
  \A t \in Task : pc[t] = "waiting" /\ notificationFlag[t] ~> owner = t

\* Holding one mutex while asking for the other never blocks everybody: when
\* nobody can go on, all are asleep waiting for a notification.
NoLockDeadlock ==
  (\A t \in Task : pc[t] \in {"locking", "relocking", "enlisting", "notifying",
                              "waiting"}) =>
    \/ \A t \in Task : pc[t] = "waiting"
    \/ \E t \in Task : \/ pc[t] \in {"locking", "relocking"} /\ owner = t
                       \/ pc[t] \in {"enlisting", "notifying"} /\ innerOwner = t

=============================================================================
