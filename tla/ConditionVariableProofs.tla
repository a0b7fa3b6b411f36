---------------------- MODULE ConditionVariableProofs ----------------------
(***************************************************************************)
(* Proofs about ConditionVariable, for any set of tasks, any predicates    *)
(* and any bound on the list.  One inductive invariant, Inv, says who asks *)
(* for which of the two mutexes and whose flag is in the list; the safety  *)
(* properties and the properties of steps all follow from it.              *)
(***************************************************************************)
EXTENDS ConditionVariable, TLAPS

(* A FifoLock with owner o and queue q.                                    *)

\* The tasks that have the lock or wait for it.
Claimants(o, q) == ({o} \cup {q[i] : i \in DOMAIN q}) \ {NoTask}

\* Nobody claims the lock twice, and nobody waits for a lock that is free.
InOrder(o, q) ==
  /\ \A i \in DOMAIN q : q[i] # o
  /\ \A i, j \in DOMAIN q : q[i] = q[j] => i = j
  /\ q # <<>> => o # NoTask

(* The parts of the inductive invariant.                                   *)

\* The caller's mutex: those who are about to have it or to have it back
\* claim it, whoever works under it owns it, and nobody sleeps with it.
CallersMutex ==
  /\ InOrder(owner, queue)
  /\ \A t \in Task :
       /\ pc[t] \in {"holding", "enlisting", "releasing"} => owner = t
       /\ pc[t] \in {"locking", "relocking"} => t \in Claimants(owner, queue)
       /\ pc[t] \in {"outside", "waiting", "waking"} =>
            t \notin Claimants(owner, queue)
       /\ t \in Claimants(owner, queue) /\ t # owner =>
            pc[t] \in {"locking", "relocking"}

\* Where tasks notify, of which they have _mutex at all but the first point.
NotifyPoints == {"notifying", "setting", "popping", "leaving"}

AtList       == NotifyPoints \cup {"enlisting"}

\* _mutex is claimed by those at work on the list, and by nobody else.
InnerMutex ==
  /\ InOrder(innerOwner, innerQueue)
  /\ \A t \in Task :
       /\ t \in Claimants(innerOwner, innerQueue) <=>
            pc[t] \in AtList
       /\ pc[t] \in NotifyPoints \ {"notifying"} => innerOwner = t

\* From its registration to the return of its call.
Registered == {"releasing", "waiting", "waking", "relocking"}

\* What a task calls agrees with where it is, and how its wait ended with both.
CallsAgree ==
  \A t \in Task :
    /\ InCall(t) <=> pc[t] \in Registered \cup {"enlisting"}
    /\ pc[t] \in NotifyPoints => call[t] \in NotifyCalls
    /\ pc[t] \in {"enlisting", "releasing", "waiting"} => ~isTimeout[t]
    /\ InCall(t) /\ isTimeout[t] => call[t] \in {"waitForPredicate", "waitFor"}
    /\ pc[t] \in {"waking", "relocking"} => notificationFlag[t] \/ isTimeout[t]

\* Somebody is between the two halves of notifyOne, or of a turn of notifyAll.
Setting == \E u \in Task : pc[u] = "setting"
Popping == \E u \in Task : pc[u] = "popping"

\* A flag is in the list at most once, only from registration to return, and
\* from registration to the notification or the timeout for certain, unless it
\* is about to be set.  One that is set and still there belongs to a call that
\* has timed out, or it is the next that notifyAll pops; its task may then be
\* about to register again.
FlagsListed ==
  /\ \A i, j \in DOMAIN waitingTasks :
       waitingTasks[i] = waitingTasks[j] /\ waitingTasks[i] # NoTask => i = j
  /\ \A t \in Task :
       /\ t \in Listed => pc[t] \in Registered \cup {"enlisting"}
       /\ Sleeps(t) => t \in Listed \/ taken = t
       /\ t \in Listed /\ (notificationFlag[t] \/ pc[t] = "enlisting") =>
            isTimeout[t] \/ (t = Head(waitingTasks) /\ Popping)

\* The address in a notifier's hand: what notifyOne has popped is no longer in
\* the list, and what notifyAll pops is set.
InHand ==
  /\ taken # NoTask => Setting
  /\ \A t \in Task : taken = t =>
       /\ t \notin Listed /\ pc[t] \in Registered
       /\ notificationFlag[t] => isTimeout[t]
  /\ Popping =>
       /\ waitingTasks # <<>>
       /\ Head(waitingTasks) \in Task => notificationFlag[Head(waitingTasks)]

Inv ==
  /\ TypeOK /\ CallersMutex /\ InnerMutex
  /\ CallsAgree /\ FlagsListed /\ InHand

-----------------------------------------------------------------------------
(* What a request and a release do to a FifoLock.                          *)

\* A request adds its task to those who claim the lock.
LEMMA RequestClaims ==
  ASSUME NEW t \in Task, NEW o \in Task \cup {NoTask}, NEW q \in Seq(Task),
         NEW o2, NEW q2,
         InOrder(o, q), t \notin Claimants(o, q),
         \/ o = NoTask /\ o2 = t /\ q2 = q
         \/ o # NoTask /\ o2 = o /\ q2 = Append(q, t)
  PROVE  /\ o2 \in Task /\ q2 \in Seq(Task)
         /\ InOrder(o2, q2)
         /\ Claimants(o2, q2) = Claimants(o, q) \cup {t}
         /\ o = o2 \/ o2 = t
<1>1. CASE o = NoTask /\ o2 = t /\ q2 = q
  BY <1>1, TaskAssumption DEF InOrder, Claimants
<1>2. CASE o # NoTask /\ o2 = o /\ q2 = Append(q, t)
  <2>1. /\ q2 \in Seq(Task) /\ DOMAIN q2 = DOMAIN q \cup {Len(q) + 1}
        /\ \A i \in DOMAIN q : q2[i] = q[i]
        /\ q2[Len(q) + 1] = t /\ Len(q) + 1 \notin DOMAIN q
    BY <1>2
  <2>2. t # o /\ \A i \in DOMAIN q : q[i] # t
    BY TaskAssumption DEF Claimants
  <2>3. Claimants(o2, q2) = Claimants(o, q) \cup {t}
    BY <1>2, <2>1, TaskAssumption DEF Claimants
  <2>4. InOrder(o2, q2)
    BY <1>2, <2>1, <2>2 DEF InOrder
  <2> QED
    BY <1>2, <2>1, <2>3, <2>4
<1> QED
  BY <1>1, <1>2

\* A release takes the owner out of those who claim the lock, and only them.
LEMMA ReleaseClaims ==
  ASSUME NEW t \in Task, NEW q \in Seq(Task), NEW o2, NEW q2,
         InOrder(t, q),
         \/ q = <<>> /\ o2 = NoTask /\ q2 = q
         \/ q # <<>> /\ o2 = Head(q) /\ q2 = Tail(q)
  PROVE  /\ o2 \in Task \cup {NoTask} /\ q2 \in Seq(Task)
         /\ InOrder(o2, q2)
         /\ Claimants(o2, q2) = Claimants(t, q) \ {t}
<1>1. CASE q = <<>> /\ o2 = NoTask /\ q2 = q
  BY <1>1, TaskAssumption DEF InOrder, Claimants
<1>2. CASE q # <<>> /\ o2 = Head(q) /\ q2 = Tail(q)
  <2>1. /\ q2 \in Seq(Task) /\ o2 = q[1] /\ o2 \in Task
        /\ DOMAIN q = 1 .. Len(q) /\ DOMAIN q2 = 1 .. (Len(q) - 1)
        /\ Len(q) \in Nat /\ Len(q) > 0
        /\ \A i \in 1 .. (Len(q) - 1) : q2[i] = q[i + 1]
    BY <1>2
  <2>2. \A i \in DOMAIN q : i = 1 \/ (i - 1 \in DOMAIN q2 /\ q2[i - 1] = q[i])
    BY <2>1
  <2>3. {o2} \cup {q2[i] : i \in DOMAIN q2} = {q[i] : i \in DOMAIN q}
    <3>1. ASSUME NEW i \in DOMAIN q
          PROVE  q[i] \in {o2} \cup {q2[j] : j \in DOMAIN q2}
      BY <2>1, <2>2
    <3>2. ASSUME NEW j \in DOMAIN q2
          PROVE  q2[j] \in {q[i] : i \in DOMAIN q}
      BY <2>1
    <3>3. o2 \in {q[i] : i \in DOMAIN q}
      BY <2>1
    <3> QED
      BY <3>1, <3>2, <3>3
  <2>4. t \notin {q[i] : i \in DOMAIN q} /\ t # NoTask
    BY TaskAssumption DEF InOrder
  <2>5. Claimants(o2, q2) = Claimants(t, q) \ {t}
    BY <2>3, <2>4 DEF Claimants
  <2>6. InOrder(o2, q2)
    <3>1. ASSUME NEW i \in DOMAIN q2
          PROVE  i + 1 \in DOMAIN q /\ q2[i] = q[i + 1] /\ i + 1 # 1
      BY <2>1
    <3>2. ASSUME NEW i \in DOMAIN q2, NEW j \in DOMAIN q2, i + 1 = j + 1
          PROVE  i = j
      BY <3>2, <2>1
    <3>3. 1 \in DOMAIN q
      BY <2>1
    <3>4. \A i \in DOMAIN q2 : q2[i] # o2
      BY <3>1, <3>3, <2>1 DEF InOrder
    <3>5. \A i, j \in DOMAIN q2 : q2[i] = q2[j] => i = j
      BY <3>1, <3>2 DEF InOrder
    <3> QED
      BY <3>4, <3>5, <2>1, TaskAssumption DEF InOrder
  <2> QED
    BY <2>1, <2>5, <2>6
<1> QED
  BY <1>1, <1>2

\* The same of the two mutexes.
LEMMA CallersRequest ==
  ASSUME TypeOK, InOrder(owner, queue), NEW t \in Task,
         t \notin Claimants(owner, queue), Condition!Request(t)
  PROVE  /\ owner' \in Task /\ queue' \in Seq(Task)
         /\ InOrder(owner, queue)'
         /\ Claimants(owner, queue)' = Claimants(owner, queue) \cup {t}
         /\ owner' = owner \/ owner' = t
<1>1. /\ owner \in Task \cup {NoTask} /\ queue \in Seq(Task)
      /\ \/ owner = NoTask /\ owner' = t /\ queue' = queue
         \/ owner # NoTask /\ owner' = owner /\ queue' = Append(queue, t)
  BY DEF TypeOK, Condition!Request, Condition!Obtain, Condition!Wait
<1>2. /\ InOrder(owner', queue') <=> InOrder(owner, queue)'
      /\ Claimants(owner', queue') = Claimants(owner, queue)'
  BY DEF InOrder, Claimants
<1> QED
  BY <1>1, <1>2, RequestClaims

LEMMA CallersRelease ==
  ASSUME TypeOK, InOrder(owner, queue), NEW t \in Task, Condition!Release(t)
  PROVE  /\ owner = t
         /\ owner' \in Task \cup {NoTask} /\ queue' \in Seq(Task)
         /\ InOrder(owner, queue)'
         /\ Claimants(owner, queue)' = Claimants(owner, queue) \ {t}
<1>1. /\ owner = t /\ queue \in Seq(Task)
      /\ \/ queue = <<>> /\ owner' = NoTask /\ queue' = queue
         \/ queue # <<>> /\ owner' = Head(queue) /\ queue' = Tail(queue)
  BY DEF TypeOK, Condition!Release
<1>2. /\ InOrder(owner', queue') <=> InOrder(owner, queue)'
      /\ Claimants(owner', queue') = Claimants(owner, queue)'
  BY DEF InOrder, Claimants
<1> QED
  BY <1>1, <1>2, ReleaseClaims

LEMMA InnerRequest ==
  ASSUME TypeOK, InOrder(innerOwner, innerQueue), NEW t \in Task,
         t \notin Claimants(innerOwner, innerQueue), Inner!Request(t)
  PROVE  /\ innerOwner' \in Task /\ innerQueue' \in Seq(Task)
         /\ InOrder(innerOwner, innerQueue)'
         /\ Claimants(innerOwner, innerQueue)' =
              Claimants(innerOwner, innerQueue) \cup {t}
<1>1. /\ innerOwner \in Task \cup {NoTask} /\ innerQueue \in Seq(Task)
      /\ \/ /\ innerOwner = NoTask /\ innerOwner' = t
            /\ innerQueue' = innerQueue
         \/ /\ innerOwner # NoTask /\ innerOwner' = innerOwner
            /\ innerQueue' = Append(innerQueue, t)
  BY DEF TypeOK, Inner!Request, Inner!Obtain, Inner!Wait
<1>2. /\ InOrder(innerOwner', innerQueue') <=> InOrder(innerOwner, innerQueue)'
      /\ Claimants(innerOwner', innerQueue') = Claimants(innerOwner, innerQueue)'
  BY DEF InOrder, Claimants
<1> QED
  BY <1>1, <1>2, RequestClaims

LEMMA InnerRelease ==
  ASSUME TypeOK, InOrder(innerOwner, innerQueue), NEW t \in Task,
         Inner!Release(t)
  PROVE  /\ innerOwner = t
         /\ innerOwner' \in Task \cup {NoTask} /\ innerQueue' \in Seq(Task)
         /\ InOrder(innerOwner, innerQueue)'
         /\ Claimants(innerOwner, innerQueue)' =
              Claimants(innerOwner, innerQueue) \ {t}
<1>1. /\ innerOwner = t /\ innerQueue \in Seq(Task)
      /\ \/ /\ innerQueue = <<>> /\ innerOwner' = NoTask
            /\ innerQueue' = innerQueue
         \/ /\ innerQueue # <<>> /\ innerOwner' = Head(innerQueue)
            /\ innerQueue' = Tail(innerQueue)
  BY DEF TypeOK, Inner!Release
<1>2. /\ InOrder(innerOwner', innerQueue') <=> InOrder(innerOwner, innerQueue)'
      /\ Claimants(innerOwner', innerQueue') = Claimants(innerOwner, innerQueue)'
  BY DEF InOrder, Claimants
<1> QED
  BY <1>1, <1>2, ReleaseClaims

-----------------------------------------------------------------------------
(* The steps, one by one.                                                  *)

\* What a task of a step does.
Acts(t) ==
  \/ Locked(t) \/ Enlist(t) \/ Release(t) \/ Notified(t) \/ Relock(t)
  \/ WaitAgain(t) \/ Return(t) \/ TakeFirst(t) \/ SetTaken(t) \/ SetFirst(t)
  \/ PopFirst(t) \/ EndNotify(t) \/ Timeout(t)
  \/ Lock(t) \/ ChangeValue(t) \/ Unlock(t)
  \/ \E c \in WaitCalls, p \in SUBSET Values : Wait(t, c, p)
  \/ \E c \in NotifyCalls : Notify(t, c)

LEMMA SomebodyActs == Next => \E t \in Task : Acts(t)
<1>1. ASSUME NEW t \in Task, Step(t) \/ Timeout(t)
      PROVE  Acts(t)
  BY <1>1 DEF Step, Acts
<1>2. ASSUME NEW t \in Task, Application(t)
      PROVE  Acts(t)
  <2>1. Waits \subseteq WaitCalls /\ Conditions \cup {{}} \subseteq SUBSET Values
    BY BoundAssumption, ValueAssumption
  <2> QED
    BY <1>2, <2>1 DEF Application, Acts
<1> QED
  BY <1>1, <1>2 DEF Next

\* Types, for each kind of variable.
LEMMA PointsType ==
  ASSUME TypeOK, NEW t \in Task, Acts(t)
  PROVE  /\ pc' \in [Task -> Points]
         /\ value' \in Values
         /\ \E to \in Points : pc' = [pc EXCEPT ![t] = to]
<1>1. pc \in [Task -> Points] /\ value \in Values
  BY DEF TypeOK
<1>2. \E to \in Points : pc' = [pc EXCEPT ![t] = to]
  <2>1. CASE ChangeValue(t)
    BY <1>1, <2>1 DEF ChangeValue
  <2>2. CASE TakeFirst(t) \/ SetTaken(t) \/ SetFirst(t) \/ PopFirst(t)
             \/ EndNotify(t)
    BY <1>1, <2>2
    DEF TakeFirst, SetTaken, SetFirst, PopFirst, EndNotify, Goto, Points
  <2>3. CASE Locked(t) \/ Enlist(t) \/ Release(t) \/ Notified(t) \/ Relock(t)
    BY <1>1, <2>3 DEF Locked, Enlist, Release, Notified, Relock, Goto, Points
  <2>4. CASE WaitAgain(t) \/ Return(t) \/ Timeout(t) \/ Lock(t) \/ Unlock(t)
    BY <1>1, <2>4 DEF WaitAgain, Return, Timeout, Lock, Unlock, Goto, Points
  <2>5. CASE \E c \in WaitCalls, p \in SUBSET Values : Wait(t, c, p)
    BY <1>1, <2>5 DEF Wait, Goto, Points
  <2>6. CASE \E c \in NotifyCalls : Notify(t, c)
    BY <1>1, <2>6 DEF Notify, Goto, Points
  <2> QED
    BY <2>1, <2>2, <2>3, <2>4, <2>5, <2>6 DEF Acts
<1>3. value' \in Values
  <2>1. value' = value \/ value' \in Values \ {value}
    BY DEF Acts, Locked, Enlist, Release, Notified, Relock, WaitAgain, Return,
           TakeFirst, SetTaken, SetFirst, PopFirst, EndNotify, Timeout, Lock,
           ChangeValue, Unlock, Wait, Notify
  <2> QED
    BY <1>1, <2>1
<1> QED
  BY <1>1, <1>2, <1>3

LEMMA CallsType ==
  ASSUME TypeOK, NEW t \in Task, Acts(t)
  PROVE  /\ condition' \in [Task -> SUBSET Values]
         /\ call' \in [Task -> WaitCalls \cup NotifyCalls \cup {"none"}]
<1>1. /\ condition \in [Task -> SUBSET Values]
      /\ call \in [Task -> WaitCalls \cup NotifyCalls \cup {"none"}]
  BY DEF TypeOK
<1>2. CASE UNCHANGED callVars
  BY <1>1, <1>2 DEF callVars
<1>3. CASE Return(t)
  BY <1>1, <1>3 DEF Return
<1>4. CASE EndNotify(t)
  BY <1>1, <1>4 DEF EndNotify
<1>5. CASE \E c \in WaitCalls, p \in SUBSET Values : Wait(t, c, p)
  BY <1>1, <1>5 DEF Wait
<1>6. CASE \E c \in NotifyCalls : Notify(t, c)
  BY <1>1, <1>6 DEF Notify
<1> QED
  BY <1>2, <1>3, <1>4, <1>5, <1>6
  DEF Acts, Locked, Enlist, Release, Notified, Relock, WaitAgain, Timeout,
      Lock, ChangeValue, Unlock, TakeFirst, SetTaken, SetFirst, PopFirst

LEMMA FlagsType ==
  ASSUME Inv, NEW t \in Task, Acts(t)
  PROVE  /\ waitingTasks' \in Seq(Task \cup {NoTask})
         /\ taken' \in Task \cup {NoTask}
         /\ notificationFlag' \in [Task -> BOOLEAN]
         /\ isTimeout' \in [Task -> BOOLEAN]
<1>1. /\ waitingTasks \in Seq(Task \cup {NoTask})
      /\ taken \in Task \cup {NoTask}
      /\ notificationFlag \in [Task -> BOOLEAN]
      /\ isTimeout \in [Task -> BOOLEAN]
  BY DEF Inv, TypeOK
<1>2. CASE UNCHANGED <<listVars, flagVars>>
  BY <1>1, <1>2 DEF listVars, flagVars
<1>3. CASE Enlist(t)
  BY <1>1, <1>3 DEF Enlist
<1>4. CASE Return(t)
  <2>1. /\ waitingTasks' = Forget(t) /\ UNCHANGED flagVars
        /\ taken' \in {taken, NoTask}
    BY <1>4 DEF Return
  <2>2. /\ Len(waitingTasks) \in Nat /\ DOMAIN waitingTasks = 1 .. Len(waitingTasks)
        /\ \A i \in DOMAIN waitingTasks : waitingTasks[i] \in Task \cup {NoTask}
    BY <1>1
  <2>3. Forget(t) \in [1 .. Len(waitingTasks) -> Task \cup {NoTask}]
    BY <2>2 DEF Forget
  <2>4. Forget(t) \in Seq(Task \cup {NoTask})
    BY <2>2, <2>3
  <2> QED
    BY <1>1, <2>1, <2>4 DEF flagVars
<1>5. CASE Timeout(t)
  <2>1. /\ UNCHANGED <<waitingTasks, taken>>
        /\ isTimeout' = [isTimeout EXCEPT ![t] = TRUE]
        /\ notificationFlag' =
             [notificationFlag EXCEPT ![t] = @ \/ call[t] = "waitFor"]
    BY <1>5 DEF Timeout, listVars
  <2>2. (notificationFlag[t] \/ call[t] = "waitFor") \in BOOLEAN
    BY <1>1
  <2>3. notificationFlag' \in [Task -> BOOLEAN]
    BY <1>1, <2>1, <2>2, Zenon
  <2> QED
    BY <1>1, <2>1, <2>3
<1>6. CASE TakeFirst(t) \/ PopFirst(t)
  <2>1. waitingTasks # <<>>
    BY <1>6 DEF TakeFirst, PopFirst, AtFirst, Goto, Inv, InHand, Popping
  <2>2. /\ waitingTasks' = Tail(waitingTasks) /\ UNCHANGED flagVars
        /\ taken' \in {taken, Head(waitingTasks)}
    BY <1>6 DEF TakeFirst, PopFirst
  <2>3. Head(waitingTasks) \in Task \cup {NoTask}
    BY <1>1, <2>1
  <2> QED
    BY <1>1, <2>1, <2>2, <2>3 DEF flagVars
<1>8. CASE SetTaken(t) \/ SetFirst(t)
  <2>1. /\ UNCHANGED <<waitingTasks, isTimeout>> /\ taken' \in {taken, NoTask}
        /\ Set(taken) \/ Set(Head(waitingTasks))
    BY <1>8 DEF SetTaken, SetFirst, listVars
  <2> QED
    BY <1>1, <2>1 DEF Set
<1>7. CASE \E c \in WaitCalls, p \in SUBSET Values : Wait(t, c, p)
  BY <1>1, <1>7 DEF Wait, listVars
<1> QED
  BY <1>2, <1>3, <1>4, <1>5, <1>6, <1>7, <1>8
  DEF Acts, Locked, Release, Notified, Relock, WaitAgain, Lock, ChangeValue,
      Unlock, Notify, EndNotify

-----------------------------------------------------------------------------
(* The mutexes.  A step leaves each of them alone, asks for it or gives it *)
(* back, and its task moves on accordingly.                                *)

LEMMA OwnerClaims ==
  ASSUME NEW t \in Task, owner = t
  PROVE  t \in Claimants(owner, queue)
  BY TaskAssumption DEF Claimants

LEMMA CallersKept ==
  ASSUME Inv, NEW t \in Task, NEW to \in Points,
         UNCHANGED <<owner, queue>>, pc' = [pc EXCEPT ![t] = to],
         \/ owner = t /\ to \notin {"outside", "waiting", "waking"}
         \/ /\ t \notin Claimants(owner, queue)
            /\ to \in NotifyPoints \cup {"outside", "waiting", "waking"}
  PROVE  CallersMutex'
<1>1. pc \in [Task -> Points]
  BY DEF Inv, TypeOK
<1>2. Claimants(owner, queue)' = Claimants(owner, queue)
  BY DEF Claimants
<1>3. InOrder(owner, queue)'
  BY DEF Inv, CallersMutex, InOrder
<1>4. owner = t => t \in Claimants(owner, queue)
  BY OwnerClaims
<1> QED
  BY <1>1, <1>2, <1>3, <1>4 DEF Inv, CallersMutex, NotifyPoints

LEMMA CallersAsked ==
  ASSUME Inv, NEW t \in Task, NEW to \in {"locking", "relocking"},
         pc[t] \in {"outside", "waking"}, pc' = [pc EXCEPT ![t] = to],
         Condition!Request(t)
  PROVE  CallersMutex' /\ owner' \in Task \cup {NoTask} /\ queue' \in Seq(Task)
<1>1. pc \in [Task -> Points] /\ CallersMutex /\ InOrder(owner, queue)
  BY DEF Inv, TypeOK, CallersMutex
<1>2. t \notin Claimants(owner, queue)
  BY <1>1 DEF CallersMutex
<1>3. /\ owner' \in Task /\ queue' \in Seq(Task)
      /\ InOrder(owner, queue)'
      /\ Claimants(owner, queue)' = Claimants(owner, queue) \cup {t}
      /\ owner' = owner \/ owner' = t
  BY <1>1, <1>2, CallersRequest DEF Inv
<1>4. ASSUME NEW u \in Task, owner = u
      PROVE  owner' = u
  BY <1>4, TaskAssumption
  DEF Condition!Request, Condition!Obtain, Condition!Wait
<1> QED
  BY <1>1, <1>2, <1>3, <1>4 DEF CallersMutex

LEMMA CallersGiven ==
  ASSUME Inv, NEW t \in Task, NEW to \in {"outside", "waiting"},
         pc' = [pc EXCEPT ![t] = to], Condition!Release(t)
  PROVE  CallersMutex' /\ owner' \in Task \cup {NoTask} /\ queue' \in Seq(Task)
<1>1. pc \in [Task -> Points] /\ CallersMutex /\ InOrder(owner, queue)
  BY DEF Inv, TypeOK, CallersMutex
<1>2. /\ owner = t
      /\ owner' \in Task \cup {NoTask} /\ queue' \in Seq(Task)
      /\ InOrder(owner, queue)'
      /\ Claimants(owner, queue)' = Claimants(owner, queue) \ {t}
  BY <1>1, CallersRelease DEF Inv
<1> QED
  BY <1>1, <1>2 DEF CallersMutex

LEMMA CallersMutexStep ==
  ASSUME Inv, NEW t \in Task, Acts(t)
  PROVE  CallersMutex' /\ owner' \in Task \cup {NoTask} /\ queue' \in Seq(Task)
<1>1. /\ pc \in [Task -> Points] /\ CallersMutex
      /\ owner \in Task \cup {NoTask} /\ queue \in Seq(Task)
  BY DEF Inv, TypeOK
<1>2. CASE Lock(t) \/ Relock(t)
  BY <1>2, CallersAsked DEF Lock, Relock, Goto
<1>3. CASE Unlock(t) \/ Release(t)
  BY <1>3, CallersGiven DEF Unlock, Release, Goto
<1>4. CASE ChangeValue(t)
  <2>1. /\ owner = t /\ UNCHANGED <<owner, queue>>
        /\ pc' = [pc EXCEPT ![t] = "holding"]
    BY <1>1, <1>4 DEF ChangeValue, lockVars, CallersMutex
  <2> QED
    BY <1>1, <2>1, CallersKept DEF Points
<1>5. CASE Locked(t) \/ Enlist(t) \/ WaitAgain(t) \/ Return(t)
  <2>1. /\ owner = t /\ UNCHANGED <<owner, queue>>
        /\ \E to \in {"holding", "enlisting", "releasing"} :
             pc' = [pc EXCEPT ![t] = to]
    BY <1>1, <1>5
    DEF Locked, Enlist, WaitAgain, Return, Goto, lockVars, CallersMutex
  <2> QED
    BY <1>1, <2>1, CallersKept DEF Points
<1>6. CASE \E c \in WaitCalls, p \in SUBSET Values : Wait(t, c, p)
  <2>1. /\ owner = t /\ UNCHANGED <<owner, queue>>
        /\ pc' = [pc EXCEPT ![t] = "enlisting"]
    BY <1>1, <1>6 DEF Wait, Goto, CallersMutex
  <2> QED
    BY <1>1, <2>1, CallersKept DEF Points
<1>7. CASE Notified(t) \/ Timeout(t)
  <2>1. /\ t \notin Claimants(owner, queue) /\ UNCHANGED <<owner, queue>>
        /\ pc' = [pc EXCEPT ![t] = "waking"]
    BY <1>1, <1>7 DEF Notified, Timeout, Goto, lockVars, CallersMutex
  <2> QED
    BY <1>1, <2>1, CallersKept DEF Points
<1>8. CASE \E c \in NotifyCalls : Notify(t, c)
  <2>1. /\ owner = t \/ t \notin Claimants(owner, queue)
        /\ UNCHANGED <<owner, queue>>
        /\ pc' = [pc EXCEPT ![t] = "notifying"]
    BY <1>1, <1>8 DEF Notify, Goto, CallersMutex
  <2> QED
    BY <1>1, <2>1, CallersKept DEF Points, NotifyPoints
<1>9. CASE EndNotify(t)
  <2>1. UNCHANGED <<owner, queue>> /\ pc[t] \in {"notifying", "leaving"}
    BY <1>9 DEF EndNotify
  <2>2. CASE owner = t
    <3>1. pc' = [pc EXCEPT ![t] = "holding"]
      BY <1>9, <2>2 DEF EndNotify
    <3> QED
      BY <1>1, <2>1, <2>2, <3>1, CallersKept DEF Points
  <2>3. CASE owner # t
    <3>1. pc' = [pc EXCEPT ![t] = "outside"]
      BY <1>9, <2>3 DEF EndNotify
    <3>2. t \notin Claimants(owner, queue)
      BY <1>1, <2>1, <2>3 DEF CallersMutex
    <3> QED
      BY <1>1, <2>1, <3>1, <3>2, CallersKept DEF Points
  <2> QED
    BY <2>2, <2>3
<1>10. CASE TakeFirst(t) \/ SetTaken(t) \/ SetFirst(t) \/ PopFirst(t)
  <2>1. /\ UNCHANGED <<owner, queue>> /\ pc[t] \in NotifyPoints
        /\ \E to \in NotifyPoints : pc' = [pc EXCEPT ![t] = to]
    BY <1>10
    DEF TakeFirst, SetTaken, SetFirst, PopFirst, Goto, lockVars, NotifyPoints
  <2>2. owner = t \/ t \notin Claimants(owner, queue)
    BY <1>1, <2>1 DEF CallersMutex, NotifyPoints
  <2> QED
    BY <1>1, <2>1, <2>2, CallersKept DEF Points, NotifyPoints
<1> QED
  BY <1>2, <1>3, <1>4, <1>5, <1>6, <1>7, <1>8, <1>9, <1>10 DEF Acts

LEMMA InnerKept ==
  ASSUME Inv, NEW t \in Task, NEW to \in Points,
         UNCHANGED <<innerOwner, innerQueue>>, pc' = [pc EXCEPT ![t] = to],
         \/ pc[t] \notin AtList /\ to \notin AtList
         \/ pc[t] \in AtList /\ to \in AtList /\ innerOwner = t
  PROVE  /\ InnerMutex'
         /\ innerOwner' \in Task \cup {NoTask} /\ innerQueue' \in Seq(Task)
<1>1. /\ pc \in [Task -> Points] /\ InnerMutex
      /\ innerOwner \in Task \cup {NoTask} /\ innerQueue \in Seq(Task)
  BY DEF Inv, TypeOK
<1>2. Claimants(innerOwner, innerQueue)' = Claimants(innerOwner, innerQueue)
  BY DEF Claimants
<1>3. InOrder(innerOwner, innerQueue)'
  BY <1>1 DEF InnerMutex, InOrder
<1> QED
  BY <1>1, <1>2, <1>3 DEF InnerMutex, AtList

LEMMA InnerAsked ==
  ASSUME Inv, NEW t \in Task, NEW to \in {"enlisting", "notifying"},
         pc[t] \notin AtList, pc' = [pc EXCEPT ![t] = to], Inner!Request(t)
  PROVE  /\ InnerMutex'
         /\ innerOwner' \in Task \cup {NoTask} /\ innerQueue' \in Seq(Task)
<1>1. pc \in [Task -> Points] /\ InnerMutex /\ InOrder(innerOwner, innerQueue)
  BY DEF Inv, TypeOK, InnerMutex
<1>2. t \notin Claimants(innerOwner, innerQueue)
  BY <1>1 DEF InnerMutex
<1>3. /\ innerOwner' \in Task /\ innerQueue' \in Seq(Task)
      /\ InOrder(innerOwner, innerQueue)'
      /\ Claimants(innerOwner, innerQueue)' =
           Claimants(innerOwner, innerQueue) \cup {t}
  BY <1>1, <1>2, InnerRequest DEF Inv
<1>4. ASSUME NEW u \in Task, innerOwner = u
      PROVE  innerOwner' = u
  BY <1>4, TaskAssumption DEF Inner!Request, Inner!Obtain, Inner!Wait
<1> QED
  BY <1>1, <1>3, <1>4 DEF InnerMutex, AtList, NotifyPoints

LEMMA InnerGiven ==
  ASSUME Inv, NEW t \in Task, NEW to \in Points \ AtList,
         pc' = [pc EXCEPT ![t] = to], Inner!Release(t)
  PROVE  /\ InnerMutex'
         /\ innerOwner' \in Task \cup {NoTask} /\ innerQueue' \in Seq(Task)
<1>1. pc \in [Task -> Points] /\ InnerMutex /\ InOrder(innerOwner, innerQueue)
  BY DEF Inv, TypeOK, InnerMutex
<1>2. /\ innerOwner = t
      /\ innerOwner' \in Task \cup {NoTask} /\ innerQueue' \in Seq(Task)
      /\ InOrder(innerOwner, innerQueue)'
      /\ Claimants(innerOwner, innerQueue)' =
           Claimants(innerOwner, innerQueue) \ {t}
  BY <1>1, InnerRelease DEF Inv
<1> QED
  BY <1>1, <1>2 DEF InnerMutex, AtList

LEMMA InnerMutexStep ==
  ASSUME Inv, NEW t \in Task, Acts(t)
  PROVE  /\ InnerMutex'
         /\ innerOwner' \in Task \cup {NoTask} /\ innerQueue' \in Seq(Task)
<1>1. pc \in [Task -> Points] /\ InnerMutex
  BY DEF Inv, TypeOK
<1>2. CASE (\E c \in WaitCalls, p \in SUBSET Values : Wait(t, c, p)) \/ WaitAgain(t)
  <2>1. /\ Inner!Request(t) /\ pc[t] \in {"holding", "relocking"}
        /\ pc' = [pc EXCEPT ![t] = "enlisting"]
    BY <1>2 DEF Wait, WaitAgain, Goto
  <2> QED
    BY <2>1, InnerAsked DEF AtList, NotifyPoints
<1>3. CASE \E c \in NotifyCalls : Notify(t, c)
  <2>1. /\ Inner!Request(t) /\ pc[t] \in {"outside", "holding"}
        /\ pc' = [pc EXCEPT ![t] = "notifying"]
    BY <1>3 DEF Notify, Goto
  <2> QED
    BY <2>1, InnerAsked DEF AtList, NotifyPoints
<1>4. CASE Enlist(t) \/ EndNotify(t)
  <2>1. /\ Inner!Release(t)
        /\ \E to \in {"releasing", "holding", "outside"} :
             pc' = [pc EXCEPT ![t] = to]
    BY <1>4 DEF Enlist, EndNotify, Goto
  <2> QED
    BY <2>1, InnerGiven DEF Points, AtList, NotifyPoints
<1>5. CASE ChangeValue(t)
  <2>1. /\ UNCHANGED <<innerOwner, innerQueue>> /\ pc[t] = "holding"
        /\ pc' = [pc EXCEPT ![t] = "holding"]
    BY <1>1, <1>5 DEF ChangeValue, lockVars
  <2> QED
    BY <2>1, InnerKept DEF Points, AtList, NotifyPoints
<1>6. CASE \/ Locked(t) \/ Release(t) \/ Notified(t) \/ Relock(t)
           \/ Return(t) \/ Timeout(t) \/ Lock(t) \/ Unlock(t)
  <2>1. /\ UNCHANGED <<innerOwner, innerQueue>>
        /\ pc[t] \notin AtList
        /\ \E to \in Points \ AtList : pc' = [pc EXCEPT ![t] = to]
    BY <1>6
    DEF Locked, Release, Notified, Relock, Return, Timeout, Lock, Unlock,
        Goto, lockVars, Points, AtList, NotifyPoints
  <2> QED
    BY <2>1, InnerKept
<1>7. CASE TakeFirst(t) \/ SetTaken(t) \/ SetFirst(t) \/ PopFirst(t)
  <2>1. /\ UNCHANGED <<innerOwner, innerQueue>>
        /\ pc[t] \in NotifyPoints
        /\ pc[t] = "notifying" => innerOwner = t
        /\ \E to \in NotifyPoints : pc' = [pc EXCEPT ![t] = to]
    BY <1>7
    DEF TakeFirst, SetTaken, SetFirst, PopFirst, AtFirst, Goto, lockVars,
        NotifyPoints
  <2>2. innerOwner = t
    BY <1>1, <2>1 DEF InnerMutex
  <2> QED
    BY <2>1, <2>2, InnerKept DEF Points, AtList, NotifyPoints
<1> QED
  BY <1>2, <1>3, <1>4, <1>5, <1>6, <1>7 DEF Acts

\* Who takes, writes or pops has _mutex, and nobody else does at that time.
LEMMA OneAtTheList ==
  ASSUME Inv, NEW t \in Task, Acts(t)
  PROVE  /\ TakeFirst(t) \/ SetFirst(t) \/ Enlist(t) =>
              ~Setting /\ ~Popping /\ taken = NoTask
         /\ SetTaken(t) => ~Popping
         /\ PopFirst(t) => ~Setting /\ ~Popping' /\ taken = NoTask
<1>1. /\ pc \in [Task -> Points]
      /\ \A u \in Task : pc[u] \in {"setting", "popping"} => innerOwner = u
  BY DEF Inv, TypeOK, InnerMutex, NotifyPoints
<1>2. taken # NoTask => Setting
  BY DEF Inv, InHand
<1>3. CASE TakeFirst(t) \/ SetFirst(t) \/ Enlist(t)
  <2>1. innerOwner = t /\ pc[t] \notin {"setting", "popping"}
    BY <1>3 DEF TakeFirst, SetFirst, Enlist, AtFirst, Goto, Inner!Release
  <2>2. ~SetTaken(t) /\ ~PopFirst(t)
    BY <2>1 DEF SetTaken, PopFirst, Goto
  <2> QED
    BY <1>1, <1>2, <2>1, <2>2 DEF Setting, Popping
<1>4. CASE SetTaken(t)
  <2>1. pc[t] = "setting" /\ innerOwner = t
    BY <1>1, <1>4 DEF SetTaken, Goto
  <2>2. /\ ~TakeFirst(t) /\ ~SetFirst(t) /\ ~Enlist(t) /\ ~PopFirst(t)
    BY <2>1 DEF TakeFirst, SetFirst, Enlist, PopFirst, Goto
  <2> QED
    BY <1>1, <2>1, <2>2 DEF Popping
<1>5. CASE PopFirst(t)
  <2>1. /\ pc[t] = "popping" /\ innerOwner = t
        /\ pc' = [pc EXCEPT ![t] = "notifying"]
    BY <1>1, <1>5 DEF PopFirst, Goto
  <2>2. /\ ~TakeFirst(t) /\ ~SetFirst(t) /\ ~Enlist(t) /\ ~SetTaken(t)
    BY <2>1 DEF TakeFirst, SetFirst, Enlist, SetTaken, Goto
  <2> QED
    BY <1>1, <1>2, <2>1, <2>2 DEF Setting, Popping
<1> QED
  BY <1>3, <1>4, <1>5

-----------------------------------------------------------------------------
(* The calls and the list.                                                 *)

\* A step changes the point, the call and the timeout of its own task only,
\* and clears no flag but its own.
LEMMA OthersKeepTheirCalls ==
  ASSUME TypeOK, NEW t \in Task, Acts(t), NEW u \in Task, u # t
  PROVE  /\ pc'[u] = pc[u] /\ call'[u] = call[u]
         /\ isTimeout'[u] = isTimeout[u]
         /\ notificationFlag[u] => notificationFlag'[u]
<1>1. /\ pc \in [Task -> Points]
      /\ call \in [Task -> WaitCalls \cup NotifyCalls \cup {"none"}]
      /\ notificationFlag \in [Task -> BOOLEAN]
      /\ isTimeout \in [Task -> BOOLEAN]
  BY DEF TypeOK
<1>2. CASE \/ Locked(t) \/ Release(t) \/ Notified(t) \/ Relock(t)
           \/ WaitAgain(t) \/ Lock(t) \/ ChangeValue(t) \/ Unlock(t)
  BY <1>1, <1>2
  DEF Locked, Release, Notified, Relock, WaitAgain, Lock, ChangeValue, Unlock,
      Goto, flagVars, callVars
<1>3. CASE Return(t)
  BY <1>1, <1>3 DEF Return, Goto, flagVars
<1>4. CASE Enlist(t)
  BY <1>1, <1>4 DEF Enlist, Goto, callVars
<1>5. CASE Timeout(t)
  BY <1>1, <1>5 DEF Timeout, Goto, callVars
<1>6. CASE \E c \in WaitCalls, p \in SUBSET Values : Wait(t, c, p)
  BY <1>1, <1>6 DEF Wait, Goto
<1>7. CASE \E c \in NotifyCalls : Notify(t, c)
  BY <1>1, <1>7 DEF Notify, Goto, flagVars
<1>8. CASE TakeFirst(t) \/ PopFirst(t) \/ EndNotify(t)
  BY <1>1, <1>8 DEF TakeFirst, PopFirst, EndNotify, Goto, flagVars, callVars
<1>9. CASE SetTaken(t) \/ SetFirst(t)
  BY <1>1, <1>9 DEF SetTaken, SetFirst, Set, Goto, callVars
<1> QED
  BY <1>2, <1>3, <1>4, <1>5, <1>6, <1>7, <1>8, <1>9 DEF Acts

LEMMA CallsAgreeStep ==
  ASSUME Inv, NEW t \in Task, Acts(t)
  PROVE  CallsAgree'
<1>1. /\ TypeOK
      /\ pc \in [Task -> Points]
      /\ call \in [Task -> WaitCalls \cup NotifyCalls \cup {"none"}]
      /\ notificationFlag \in [Task -> BOOLEAN]
      /\ isTimeout \in [Task -> BOOLEAN]
  BY DEF Inv, TypeOK
<1>2. /\ call[t] \in WaitCalls <=> pc[t] \in Registered \cup {"enlisting"}
      /\ pc[t] \in NotifyPoints => call[t] \in NotifyCalls
      /\ pc[t] \in {"enlisting", "releasing", "waiting"} => ~isTimeout[t]
      /\ call[t] \in WaitCalls /\ isTimeout[t] =>
           call[t] \in {"waitForPredicate", "waitFor"}
      /\ pc[t] \in {"waking", "relocking"} =>
           notificationFlag[t] \/ isTimeout[t]
  BY DEF Inv, CallsAgree, InCall
<1> DEFINE Agrees(p, c, late, flag) ==
      /\ c \in WaitCalls <=> p \in Registered \cup {"enlisting"}
      /\ p \in NotifyPoints => c \in NotifyCalls
      /\ p \in {"enlisting", "releasing", "waiting"} => ~late
      /\ c \in WaitCalls /\ late => c \in {"waitForPredicate", "waitFor"}
      /\ p \in {"waking", "relocking"} => flag \/ late
<1>3. ASSUME NEW u \in Task, u # t
      PROVE  Agrees(pc'[u], call'[u], isTimeout'[u], notificationFlag'[u])
  <2>1. Agrees(pc[u], call[u], isTimeout[u], notificationFlag[u])
    BY DEF Inv, CallsAgree, InCall
  <2>2. /\ pc'[u] = pc[u] /\ call'[u] = call[u]
        /\ isTimeout'[u] = isTimeout[u]
        /\ notificationFlag[u] => notificationFlag'[u]
    BY <1>1, <1>3, OthersKeepTheirCalls
  <2> QED
    BY <2>1, <2>2
<1>4. Agrees(pc'[t], call'[t], isTimeout'[t], notificationFlag'[t])
  <2>1. CASE Locked(t) \/ ChangeValue(t)
    BY <1>1, <1>2, <2>1
    DEF Locked, ChangeValue, Goto, flagVars, callVars, Registered, NotifyPoints
  <2>2. CASE Lock(t) \/ Unlock(t)
    BY <1>1, <1>2, <2>2 
    DEF Lock, Unlock, Goto, flagVars, callVars, Registered, NotifyPoints
  <2>3. CASE Release(t) \/ Notified(t) \/ Relock(t)
    BY <1>1, <1>2, <2>3
    DEF Release, Notified, Relock, Goto, flagVars, callVars, Registered,
        NotifyPoints
  <2>4. CASE WaitAgain(t)
    <3>1. /\ pc[t] = "relocking" /\ pc'[t] = "enlisting"
          /\ call'[t] = call[t] /\ isTimeout'[t] = isTimeout[t]
      BY <1>1, <2>4 DEF WaitAgain, Goto, flagVars, callVars
    <3>2. call[t] \in WaitCalls
      BY <1>2, <3>1 DEF Registered
    <3>3. ~isTimeout[t]
      BY <1>2, <2>4, <3>2 DEF WaitAgain, WaitIsOver
    <3> QED
      BY <3>1, <3>2, <3>3 DEF NotifyPoints
  <2>5. CASE Return(t)
    BY <1>1, <2>5 DEF Return, Goto, Registered, WaitCalls, NotifyPoints
  <2>6. CASE Enlist(t)
    BY <1>1, <1>2, <2>6 DEF Enlist, Goto, callVars, Registered, NotifyPoints
  <2>7. CASE Timeout(t)
    BY <1>1, <1>2, <2>7 DEF Timeout, Goto, callVars, Registered, NotifyPoints
  <2>8. CASE \E c \in WaitCalls, p \in SUBSET Values : Wait(t, c, p)
    BY <1>1, <2>8 DEF Wait, Goto, Registered, WaitCalls, NotifyPoints
  <2>9. CASE \E c \in NotifyCalls : Notify(t, c)
    BY <1>1, <2>9 DEF Notify, Goto, Registered, WaitCalls, NotifyCalls, NotifyPoints
  <2>10. CASE EndNotify(t)
    BY <1>1, <2>10 DEF EndNotify, Registered, WaitCalls, NotifyPoints
  <2>11. CASE TakeFirst(t) \/ SetTaken(t) \/ SetFirst(t) \/ PopFirst(t)
    <3>1. /\ pc[t] \in NotifyPoints /\ pc'[t] \in NotifyPoints
          /\ call'[t] = call[t] /\ isTimeout'[t] = isTimeout[t]
      BY <1>1, <2>11
      DEF TakeFirst, SetTaken, SetFirst, PopFirst, Goto, flagVars, callVars,
          NotifyPoints
    <3> QED
      BY <1>2, <3>1 DEF NotifyPoints, Registered
  <2> QED
    BY <2>1, <2>2, <2>3, <2>4, <2>5, <2>6, <2>7, <2>8, <2>9, <2>10,
       <2>11 DEF Acts
<1> QED
  BY <1>3, <1>4 DEF CallsAgree, InCall

\* What is done to the list: a flag at the end, the first one out, and one of
\* them gone with its call.
OnList(w) == {w[i] : i \in DOMAIN w}
Once(w)   == \A i, j \in DOMAIN w : w[i] = w[j] /\ w[i] # NoTask => i = j

LEMMA AppendOnce ==
  ASSUME NEW w \in Seq(Task \cup {NoTask}), NEW t \in Task,
         Once(w), t \notin OnList(w)
  PROVE  Once(Append(w, t)) /\ OnList(Append(w, t)) = OnList(w) \cup {t}
<1> DEFINE w2 == Append(w, t)
<1>1. /\ DOMAIN w2 = DOMAIN w \cup {Len(w) + 1} /\ w2[Len(w) + 1] = t
      /\ \A i \in DOMAIN w : w2[i] = w[i]
      /\ Len(w) + 1 \notin DOMAIN w
  OBVIOUS
<1>2. \A i \in DOMAIN w : w[i] # t
  BY DEF OnList
<1> HIDE DEF w2
<1>3. Once(w2) /\ OnList(w2) = OnList(w) \cup {t}
  BY <1>1, <1>2 DEF Once, OnList
<1> QED
  BY <1>3 DEF w2

LEMMA TailOnce ==
  ASSUME NEW w \in Seq(Task \cup {NoTask}), w # <<>>, Once(w)
  PROVE  /\ Once(Tail(w))
         /\ OnList(w) = OnList(Tail(w)) \cup {Head(w)}
         /\ Head(w) # NoTask => Head(w) \notin OnList(Tail(w))
<1> DEFINE w2 == Tail(w)
<1>1. /\ Head(w) = w[1] /\ Len(w) \in Nat /\ Len(w) > 0
      /\ DOMAIN w = 1 .. Len(w) /\ DOMAIN w2 = 1 .. (Len(w) - 1)
      /\ \A i \in 1 .. (Len(w) - 1) : w2[i] = w[i + 1]
  OBVIOUS
<1> HIDE DEF w2
<1>2. ASSUME NEW i \in DOMAIN w2
      PROVE  i + 1 \in DOMAIN w /\ w2[i] = w[i + 1] /\ i + 1 # 1
  BY <1>1
<1>3. ASSUME NEW i \in DOMAIN w, i # 1
      PROVE  i - 1 \in DOMAIN w2 /\ w2[i - 1] = w[i]
  BY <1>1, <1>3
<1>4. 1 \in DOMAIN w
  BY <1>1
<1>5. Once(w2)
  <2>1. ASSUME NEW i \in DOMAIN w2, NEW j \in DOMAIN w2,
               w2[i] = w2[j], w2[i] # NoTask
        PROVE  i + 1 = j + 1
    BY <1>2, <2>1 DEF Once
  <2>2. ASSUME NEW i \in DOMAIN w2, NEW j \in DOMAIN w2, i + 1 = j + 1
        PROVE  i = j
    BY <1>1, <2>2
  <2> QED
    BY <2>1, <2>2 DEF Once
<1>6. OnList(w) \subseteq OnList(w2) \cup {Head(w)}
  <2>1. ASSUME NEW i \in DOMAIN w
        PROVE  w[i] \in OnList(w2) \cup {Head(w)}
    BY <1>1, <1>3 DEF OnList
  <2> QED
    BY <2>1 DEF OnList
<1>7. OnList(w2) \cup {Head(w)} \subseteq OnList(w)
  BY <1>1, <1>2, <1>4 DEF OnList
<1>8. Head(w) # NoTask => Head(w) \notin OnList(w2)
  <2>1. ASSUME NEW i \in DOMAIN w2, w2[i] = Head(w), Head(w) # NoTask
        PROVE  FALSE
    BY <1>1, <1>2, <1>4, <2>1 DEF Once
  <2> QED
    BY <2>1 DEF OnList
<1> QED
  BY <1>5, <1>6, <1>7, <1>8 DEF w2

LEMMA ForgetOnce ==
  ASSUME TypeOK, NEW t \in Task, Once(waitingTasks)
  PROVE  /\ Once(Forget(t))
         /\ OnList(Forget(t)) \ {NoTask} = OnList(waitingTasks) \ {t, NoTask}
<1> DEFINE w2 == Forget(t)
<1>1. /\ DOMAIN w2 = DOMAIN waitingTasks
      /\ \A i \in DOMAIN waitingTasks :
           w2[i] = IF waitingTasks[i] = t THEN NoTask ELSE waitingTasks[i]
  BY DEF Forget
<1> HIDE DEF w2
<1>2. Once(w2)
  BY <1>1 DEF Once
<1>3. OnList(w2) \ {NoTask} = OnList(waitingTasks) \ {t, NoTask}
  BY <1>1, TaskAssumption DEF OnList
<1> QED
  BY <1>2, <1>3 DEF w2

LEMMA ForgetFirst ==
  ASSUME TypeOK, NEW t \in Task, waitingTasks # <<>>
  PROVE  /\ Forget(t) # <<>>
         /\ Head(Forget(t)) =
              IF Head(waitingTasks) = t THEN NoTask ELSE Head(waitingTasks)
<1> DEFINE w2 == Forget(t)
<1>1. /\ waitingTasks \in Seq(Task \cup {NoTask})
      /\ DOMAIN waitingTasks = 1 .. Len(waitingTasks)
      /\ Len(waitingTasks) \in Nat /\ Len(waitingTasks) > 0
      /\ Head(waitingTasks) = waitingTasks[1]
      /\ \A i \in DOMAIN waitingTasks : waitingTasks[i] \in Task \cup {NoTask}
  BY DEF TypeOK
<1>2. /\ w2 \in [1 .. Len(waitingTasks) -> Task \cup {NoTask}]
      /\ w2[1] = IF waitingTasks[1] = t THEN NoTask ELSE waitingTasks[1]
  BY <1>1 DEF Forget
<1> HIDE DEF w2
<1>3. w2 \in Seq(Task \cup {NoTask}) /\ Len(w2) = Len(waitingTasks)
  BY <1>1, <1>2
<1>4. w2 # <<>> /\ Head(w2) = w2[1]
  BY <1>1, <1>3
<1> QED
  BY <1>1, <1>2, <1>4 DEF w2

LEMMA ListStep ==
  ASSUME Inv, NEW t \in Task, Acts(t)
  PROVE  FlagsListed' /\ InHand'
<1>1. /\ TypeOK
      /\ pc \in [Task -> Points]
      /\ waitingTasks \in Seq(Task \cup {NoTask})
      /\ taken \in Task \cup {NoTask}
      /\ notificationFlag \in [Task -> BOOLEAN]
      /\ isTimeout \in [Task -> BOOLEAN]
  BY DEF Inv, TypeOK
<1> DEFINE
      Fits(u, w, k, pop, p, flag, late) ==
        /\ u \in OnList(w) => p \in Registered \cup {"enlisting"}
        /\ p \in {"releasing", "waiting"} /\ ~flag => u \in OnList(w) \/ k = u
        /\ u \in OnList(w) /\ (flag \/ p = "enlisting") =>
             late \/ (u = Head(w) /\ pop)
        /\ k = u => /\ u \notin OnList(w) /\ p \in Registered
                    /\ flag => late
      Hand(w, k, set, pop, flags) ==
        /\ k # NoTask => set
        /\ pop => w # <<>> /\ (Head(w) \in Task => flags[Head(w)])
<1>2. /\ Once(waitingTasks)
      /\ \A u \in Task : Fits(u, waitingTasks, taken, Popping, pc[u],
                              notificationFlag[u], isTimeout[u])
      /\ Hand(waitingTasks, taken, Setting, Popping, notificationFlag)
  BY DEF Inv, FlagsListed, InHand, Once, OnList, Listed, Sleeps
<1>3. SUFFICES
        /\ Once(waitingTasks')
        /\ \A u \in Task : Fits(u, waitingTasks', taken', Popping', pc'[u],
                                notificationFlag'[u], isTimeout'[u])
        /\ Hand(waitingTasks', taken', Setting', Popping', notificationFlag')
  BY DEF FlagsListed, InHand, Once, OnList, Listed, Sleeps
<1>4. ASSUME NEW u \in Task, u # t
      PROVE  pc'[u] = pc[u] /\ isTimeout'[u] = isTimeout[u]
  BY <1>1, <1>4, OthersKeepTheirCalls
<1>5. /\ pc[t] \in {"waking", "relocking"} => notificationFlag[t] \/ isTimeout[t]
      /\ \A u \in Task : pc[u] \in {"enlisting", "releasing", "waiting"} =>
           ~isTimeout[u]
      /\ pc[t] \in Registered \cup {"enlisting"} => call[t] \in WaitCalls
  BY DEF Inv, CallsAgree, InCall
<1>6. /\ pc[t] # "popping" /\ pc'[t] # "popping" => (Popping' <=> Popping)
      /\ pc[t] # "setting" /\ pc'[t] # "setting" => (Setting' <=> Setting)
  BY <1>1, <1>4 DEF Popping, Setting
<1>7. /\ TakeFirst(t) \/ SetFirst(t) \/ Enlist(t) =>
            ~Setting /\ ~Popping /\ taken = NoTask
      /\ SetTaken(t) => ~Popping
      /\ PopFirst(t) => ~Setting /\ ~Popping' /\ taken = NoTask
  BY OneAtTheList
\* Steps of tasks that have no flag in the list, before and after, or that
\* are about to register again.
<1>8. CASE \/ Locked(t) \/ ChangeValue(t) \/ Lock(t) \/ Unlock(t) \/ WaitAgain(t)
           \/ EndNotify(t) \/ \E c \in NotifyCalls : Notify(t, c)
           \/ \E c \in WaitCalls, p \in SUBSET Values : Wait(t, c, p)
  <2>1. /\ UNCHANGED <<waitingTasks, taken, notificationFlag>>
        /\ pc'[t] \notin {"releasing", "waiting", "popping", "setting"}
        /\ pc[t] \notin {"releasing", "waiting", "popping", "setting"}
    BY <1>1, <1>8
    DEF Locked, ChangeValue, Lock, Unlock, WaitAgain, EndNotify, Notify, Wait,
        Goto, flagVars, listVars
  <2>2. (Popping' <=> Popping) /\ (Setting' <=> Setting)
    BY <1>6, <2>1
  <2>3. Fits(t, waitingTasks', taken', Popping', pc'[t], notificationFlag'[t],
             isTimeout'[t])
    <3>1. CASE WaitAgain(t)
      <4>1. /\ pc[t] = "relocking" /\ pc'[t] = "enlisting" /\ ~WaitIsOver(t)
            /\ isTimeout' = isTimeout
        BY <1>1, <3>1 DEF WaitAgain, Goto, flagVars
      <4>2. ~isTimeout[t]
        <5>1. call[t] \in WaitCalls
          BY <1>5, <4>1 DEF Registered
        <5>2. isTimeout[t] => call[t] \in {"waitForPredicate", "waitFor"}
          BY <5>1 DEF Inv, CallsAgree, InCall
        <5> QED
          BY <4>1, <5>2 DEF WaitIsOver
      <4>3. notificationFlag[t]
        BY <1>5, <4>1, <4>2
      <4>4. Fits(t, waitingTasks, taken, Popping, pc[t], notificationFlag[t],
                 isTimeout[t])
        BY <1>2
      <4> QED
        BY <2>1, <2>2, <4>1, <4>2, <4>3, <4>4
    <3>2. CASE pc[t] \in {"outside", "locking", "holding", "notifying", "leaving"}
      <4>1. t \notin OnList(waitingTasks) /\ taken # t
        BY <1>2, <3>2 DEF Registered
      <4> QED
        BY <2>1, <4>1
    <3> QED
      BY <1>8, <3>1, <3>2
      DEF Locked, ChangeValue, Lock, Unlock, EndNotify, Notify, Wait, Goto
  <2> QED
    BY <1>2, <1>4, <2>1, <2>2, <2>3
\* Steps of tasks whose flag stays as it is.
<1>9. CASE Release(t) \/ Notified(t) \/ Relock(t)
  <2>1. /\ UNCHANGED <<waitingTasks, taken, notificationFlag, isTimeout>>
        /\ pc[t] \in Registered /\ pc'[t] \in Registered
        /\ pc'[t] \in {"releasing", "waiting"} =>
             pc[t] \in {"releasing", "waiting"}
    BY <1>1, <1>9
    DEF Release, Notified, Relock, Goto, flagVars, listVars, Registered
  <2>2. (Popping' <=> Popping) /\ (Setting' <=> Setting)
    BY <1>6, <2>1 DEF Registered
  <2> QED
    BY <1>2, <1>4, <2>1, <2>2 DEF Registered
<1>10. CASE Enlist(t)
  <2>1. /\ waitingTasks' = Append(waitingTasks, t) /\ taken' = taken
        /\ pc[t] = "enlisting" /\ pc'[t] = "releasing"
        /\ notificationFlag' = [notificationFlag EXCEPT ![t] = FALSE]
    BY <1>1, <1>10 DEF Enlist, Goto
  <2>2. /\ ~Popping /\ ~Popping' /\ taken = NoTask
    BY <1>6, <1>7, <1>10, <2>1
  <2>3. t \notin OnList(waitingTasks)
    BY <1>2, <1>5, <2>1, <2>2
  <2>4. Once(waitingTasks') /\ OnList(waitingTasks') = OnList(waitingTasks) \cup {t}
    BY <1>1, <1>2, <2>1, <2>3, AppendOnce
  <2>5. ASSUME NEW u \in Task
        PROVE  Fits(u, waitingTasks', taken', Popping', pc'[u],
                    notificationFlag'[u], isTimeout'[u])
    <3>1. Fits(u, waitingTasks, taken, Popping, pc[u], notificationFlag[u],
               isTimeout[u])
      BY <1>2
    <3>2. taken' # u
      BY <2>1, <2>2, TaskAssumption
    <3>3. CASE u = t
      BY <1>1, <2>1, <2>4, <3>2, <3>3 DEF Registered
    <3>4. CASE u # t
      <4>1. /\ pc'[u] = pc[u] /\ isTimeout'[u] = isTimeout[u]
            /\ notificationFlag'[u] = notificationFlag[u]
            /\ u \in OnList(waitingTasks') <=> u \in OnList(waitingTasks)
        BY <1>1, <1>4, <2>1, <2>4, <3>4
      <4> QED
        BY <2>2, <3>1, <3>2, <4>1, TaskAssumption
    <3> QED
      BY <3>3, <3>4
  <2> QED
    BY <2>1, <2>2, <2>4, <2>5
<1>11. CASE Timeout(t)
  <2>1. /\ UNCHANGED <<waitingTasks, taken>>
        /\ pc[t] = "waiting" /\ pc'[t] = "waking" /\ isTimeout'[t]
        /\ \A u \in Task : u # t => notificationFlag'[u] = notificationFlag[u]
        /\ notificationFlag[t] => notificationFlag'[t]
    BY <1>1, <1>11 DEF Timeout, Goto, listVars
  <2>2. (Popping' <=> Popping) /\ (Setting' <=> Setting)
    BY <1>6, <2>1
  <2> QED
    BY <1>2, <1>4, <2>1, <2>2 DEF Registered
<1>12. CASE Return(t)
  <2>1. /\ waitingTasks' = Forget(t) /\ UNCHANGED <<notificationFlag, isTimeout>>
        /\ taken' = IF taken = t THEN NoTask ELSE taken
        /\ pc[t] = "relocking" /\ pc'[t] = "holding"
    BY <1>1, <1>12 DEF Return, Goto, flagVars
  <2>2. /\ Once(waitingTasks')
        /\ OnList(waitingTasks') \ {NoTask} = OnList(waitingTasks) \ {t, NoTask}
    BY <1>1, <1>2, <2>1, ForgetOnce
  <2>3. (Popping' <=> Popping) /\ (Setting' <=> Setting)
    BY <1>6, <2>1
  <2>4. Popping => /\ waitingTasks' # <<>>
                   /\ Head(waitingTasks') = IF Head(waitingTasks) = t
                                              THEN NoTask ELSE Head(waitingTasks)
    BY <1>1, <1>2, <2>1, ForgetFirst
  <2>5. ASSUME NEW u \in Task
        PROVE  Fits(u, waitingTasks', taken', Popping', pc'[u],
                    notificationFlag'[u], isTimeout'[u])
    <3>1. Fits(u, waitingTasks, taken, Popping, pc[u], notificationFlag[u],
               isTimeout[u])
      BY <1>2
    <3>2. CASE u = t
      BY <2>1, <2>2, <3>2, TaskAssumption
    <3>3. CASE u # t
      <4>1. /\ pc'[u] = pc[u] /\ isTimeout'[u] = isTimeout[u]
            /\ notificationFlag'[u] = notificationFlag[u]
            /\ u \in OnList(waitingTasks') <=> u \in OnList(waitingTasks)
            /\ taken' = u <=> taken = u
        BY <1>4, <2>1, <2>2, <3>3, TaskAssumption
      <4>2. Popping /\ u = Head(waitingTasks) => u = Head(waitingTasks')
        BY <2>4, <3>3
      <4> QED
        BY <2>3, <3>1, <4>1, <4>2
    <3> QED
      BY <3>2, <3>3
  <2>6. Hand(waitingTasks', taken', Setting', Popping', notificationFlag')
    BY <1>2, <2>1, <2>3, <2>4, TaskAssumption
  <2> QED
    BY <2>2, <2>5, <2>6
<1>13. CASE TakeFirst(t)
  <2>1. /\ pc[t] = "notifying" /\ pc'[t] = "setting" /\ waitingTasks # <<>>
        /\ taken' = Head(waitingTasks) /\ waitingTasks' = Tail(waitingTasks)
        /\ UNCHANGED <<notificationFlag, isTimeout>>
    BY <1>1, <1>13 DEF TakeFirst, AtFirst, Goto, flagVars
  <2>2. ~Popping /\ ~Popping' /\ taken = NoTask /\ Setting'
    BY <1>6, <1>7, <1>13, <2>1 DEF Setting
  <2>3. /\ Once(waitingTasks')
        /\ OnList(waitingTasks) = OnList(waitingTasks') \cup {Head(waitingTasks)}
        /\ Head(waitingTasks) # NoTask =>
             Head(waitingTasks) \notin OnList(waitingTasks')
    BY <1>1, <1>2, <2>1, TailOnce
  <2>4. ASSUME NEW u \in Task
        PROVE  Fits(u, waitingTasks', taken', Popping', pc'[u],
                    notificationFlag'[u], isTimeout'[u])
    <3>1. Fits(u, waitingTasks, taken, Popping, pc[u], notificationFlag[u],
               isTimeout[u])
      BY <1>2
    <3>2. u # NoTask /\ taken # u
      BY <2>2, TaskAssumption
    <3>3. CASE u = t
      <4>1. u \notin OnList(waitingTasks)
        BY <2>1, <3>1, <3>3 DEF Registered
      <4> QED
        BY <2>1, <2>3, <3>3, <4>1
    <3>4. CASE u # t
      <4>1. /\ pc'[u] = pc[u] /\ isTimeout'[u] = isTimeout[u]
            /\ notificationFlag'[u] = notificationFlag[u]
        BY <1>4, <2>1, <3>4
      <4>2. u \in OnList(waitingTasks) => pc[u] # "enlisting"
        BY <1>5, <2>2, <3>1
      <4> QED
        BY <2>1, <2>2, <2>3, <3>1, <3>2, <4>1, <4>2
    <3> QED
      BY <3>3, <3>4
  <2> QED
    BY <2>2, <2>3, <2>4
<1>14. CASE SetTaken(t)
  <2>1. /\ pc[t] = "setting" /\ pc'[t] = "leaving" /\ taken' = NoTask
        /\ UNCHANGED <<waitingTasks, isTimeout>>
        /\ \A u \in Task : notificationFlag'[u] <=>
             notificationFlag[u] \/ u = taken
    BY <1>1, <1>14 DEF SetTaken, Set, Goto
  <2>2. ~Popping /\ ~Popping'
    BY <1>6, <1>7, <1>14, <2>1
  <2>3. ASSUME NEW u \in Task
        PROVE  Fits(u, waitingTasks', taken', Popping', pc'[u],
                    notificationFlag'[u], isTimeout'[u])
    <3>1. Fits(u, waitingTasks, taken, Popping, pc[u], notificationFlag[u],
               isTimeout[u])
      BY <1>2
    <3>2. u # NoTask
      BY TaskAssumption
    <3>3. CASE u = t
      BY <2>1, <3>1, <3>2, <3>3 DEF Registered
    <3>4. CASE u # t
      BY <1>4, <2>1, <2>2, <3>1, <3>2, <3>4
    <3> QED
      BY <3>3, <3>4
  <2> QED
    BY <1>2, <2>1, <2>2, <2>3
<1>15. CASE SetFirst(t)
  <2>1. /\ pc[t] = "notifying" /\ pc'[t] = "popping" /\ waitingTasks # <<>>
        /\ UNCHANGED <<waitingTasks, taken, isTimeout>>
        /\ \A u \in Task : notificationFlag'[u] <=>
             notificationFlag[u] \/ u = Head(waitingTasks)
    BY <1>1, <1>15 DEF SetFirst, AtFirst, Set, Goto, listVars
  <2>2. ~Popping /\ Popping' /\ taken = NoTask
    BY <1>7, <1>15, <2>1 DEF Popping
  <2>3. ASSUME NEW u \in Task
        PROVE  Fits(u, waitingTasks', taken', Popping', pc'[u],
                    notificationFlag'[u], isTimeout'[u])
    <3>1. Fits(u, waitingTasks, taken, Popping, pc[u], notificationFlag[u],
               isTimeout[u])
      BY <1>2
    <3>2. taken # u
      BY <2>2, TaskAssumption
    <3>3. CASE u = t
      BY <2>1, <3>1, <3>2, <3>3 DEF Registered
    <3>4. CASE u # t
      BY <1>4, <2>1, <2>2, <3>1, <3>2, <3>4
    <3> QED
      BY <3>3, <3>4
  <2> QED
    BY <1>2, <2>1, <2>2, <2>3
<1>16. CASE PopFirst(t)
  <2>1. /\ pc[t] = "popping" /\ pc'[t] = "notifying"
        /\ waitingTasks' = Tail(waitingTasks)
        /\ UNCHANGED <<taken, notificationFlag, isTimeout>>
    BY <1>1, <1>16 DEF PopFirst, Goto, flagVars
  <2>2. Popping /\ ~Popping' /\ taken = NoTask
    BY <1>7, <1>16, <2>1 DEF Popping
  <2>3. /\ waitingTasks # <<>>
        /\ Head(waitingTasks) \in Task => notificationFlag[Head(waitingTasks)]
    BY <1>2, <2>2
  <2>4. /\ Once(waitingTasks')
        /\ OnList(waitingTasks) = OnList(waitingTasks') \cup {Head(waitingTasks)}
        /\ Head(waitingTasks) # NoTask =>
             Head(waitingTasks) \notin OnList(waitingTasks')
    BY <1>1, <1>2, <2>1, <2>3, TailOnce
  <2>5. ASSUME NEW u \in Task
        PROVE  Fits(u, waitingTasks', taken', Popping', pc'[u],
                    notificationFlag'[u], isTimeout'[u])
    <3>1. Fits(u, waitingTasks, taken, Popping, pc[u], notificationFlag[u],
               isTimeout[u])
      BY <1>2
    <3>2. u # NoTask /\ taken # u
      BY <2>2, TaskAssumption
    <3>3. CASE u = t
      BY <2>1, <2>4, <3>1, <3>2, <3>3 DEF Registered
    <3>4. CASE u # t
      BY <1>4, <2>1, <2>2, <2>3, <2>4, <3>1, <3>2, <3>4
    <3> QED
      BY <3>3, <3>4
  <2> QED
    BY <2>1, <2>2, <2>4, <2>5
<1> QED
  BY <1>8, <1>9, <1>10, <1>11, <1>12, <1>13, <1>14, <1>15, <1>16 DEF Acts

-----------------------------------------------------------------------------
(* The invariant.                                                          *)

LEMMA InitInv == Init => Inv
<1> SUFFICES ASSUME Init PROVE Inv
  OBVIOUS
<1>1. /\ owner = NoTask /\ queue = <<>>
      /\ innerOwner = NoTask /\ innerQueue = <<>>
      /\ waitingTasks = <<>> /\ taken = NoTask
      /\ \A t \in Task : pc[t] = "outside" /\ call[t] = "none"
  BY DEF Init, Condition!Init, Inner!Init
<1>2. TypeOK
  BY DEF Init, Condition!Init, Inner!Init, TypeOK, Points
<1>3. /\ InOrder(owner, queue) /\ Claimants(owner, queue) = {}
      /\ InOrder(innerOwner, innerQueue) /\ Claimants(innerOwner, innerQueue) = {}
  BY <1>1 DEF InOrder, Claimants
<1>4. CallersMutex /\ InnerMutex
  BY <1>1, <1>3 DEF CallersMutex, InnerMutex, AtList, NotifyPoints
<1>5. CallsAgree
  BY <1>1 DEF CallsAgree, InCall, Registered, WaitCalls, NotifyPoints
<1>6. FlagsListed /\ InHand
  BY <1>1, TaskAssumption
  DEF FlagsListed, InHand, Listed, Registered, Sleeps, Popping
<1> QED
  BY <1>2, <1>4, <1>5, <1>6 DEF Inv

LEMMA NextInv == Inv /\ [Next]_vars => Inv'
<1> SUFFICES ASSUME Inv, [Next]_vars PROVE Inv'
  OBVIOUS
<1>1. CASE Next
  <2>1. PICK t \in Task : Acts(t)
    BY <1>1, SomebodyActs
  <2>2. TypeOK
    BY DEF Inv
  <2>3. CallersMutex' /\ owner' \in Task \cup {NoTask} /\ queue' \in Seq(Task)
    BY <2>1, CallersMutexStep
  <2>4. /\ InnerMutex'
        /\ innerOwner' \in Task \cup {NoTask} /\ innerQueue' \in Seq(Task)
    BY <2>1, InnerMutexStep
  <2>5. CallsAgree'
    BY <2>1, CallsAgreeStep
  <2>6. FlagsListed' /\ InHand'
    BY <2>1, ListStep
  <2>7. TypeOK'
    BY <2>1, <2>2, <2>3, <2>4, PointsType, CallsType, FlagsType DEF TypeOK
  <2> QED
    BY <2>3, <2>4, <2>5, <2>6, <2>7 DEF Inv
<1>2. CASE UNCHANGED vars
  <2>1. UNCHANGED <<owner, queue, innerOwner, innerQueue, waitingTasks, taken,
                    value, pc, call, condition, notificationFlag, isTimeout>>
    BY <1>2 DEF vars, lockVars, listVars, callVars, flagVars
  <2>2. TypeOK'
    BY <2>1 DEF Inv, TypeOK
  <2>3. CallersMutex' /\ InnerMutex'
    BY <2>1 DEF Inv, CallersMutex, InnerMutex, InOrder, Claimants
  <2>4. CallsAgree'
    BY <2>1 DEF Inv, CallsAgree, InCall
  <2>5. FlagsListed' /\ InHand'
    BY <2>1 DEF Inv, FlagsListed, InHand, Listed, Sleeps, Setting, Popping
  <2> QED
    BY <2>2, <2>3, <2>4, <2>5 DEF Inv
<1> QED
  BY <1>1, <1>2

\* In every state the mutexes, the calls and the list agree.
THEOREM Agreement == Spec => []Inv
  BY InitInv, NextInv, PTL DEF Spec

-----------------------------------------------------------------------------
(* The properties of states.                                               *)

\* A sleeping task that nobody has notified is in the list, exactly once, so
\* that notifyAll cannot miss it, or a notifyOne is about to set its flag
\* (conditionVariable.hpp).
THEOREM SleepersAreListedHolds == Spec => []SleepersAreListed
<1>1. Inv => SleepersAreListed
  <2> SUFFICES ASSUME Inv, NEW t \in Task, Sleeps(t)
               PROVE  \/ taken = t /\ \E u \in Task : pc[u] = "setting"
                      \/ \E i \in DOMAIN waitingTasks :
                           \A j \in DOMAIN waitingTasks :
                             waitingTasks[j] = t <=> j = i
    BY DEF SleepersAreListed
  <2>1. CASE t \in Listed
    <3>1. PICK i \in DOMAIN waitingTasks : waitingTasks[i] = t
      BY <2>1 DEF Listed
    <3>2. ASSUME NEW j \in DOMAIN waitingTasks
          PROVE  waitingTasks[j] = t <=> j = i
      BY <3>1, TaskAssumption DEF Inv, FlagsListed
    <3> QED
      BY <3>2
  <2>2. CASE taken = t
    BY <2>2, TaskAssumption DEF Inv, InHand, Setting
  <2> QED
    BY <2>1, <2>2 DEF Inv, FlagsListed
<1> QED
  BY <1>1, Agreement, PTL

\* The two mutexes never block everybody: if everybody waits for a mutex or a
\* notification, and not all for a notification, then whoever owns the mutex
\* somebody waits for can take its next step.
THEOREM NoLockDeadlockHolds == Spec => []NoLockDeadlock
<1>1. Inv => NoLockDeadlock
  <2> SUFFICES ASSUME Inv,
                      \A t \in Task : pc[t] \in {"locking", "relocking",
                                         "enlisting", "notifying", "waiting"},
                      NEW u \in Task, pc[u] # "waiting"
               PROVE  \E t \in Task :
                        \/ pc[t] \in {"locking", "relocking"} /\ owner = t
                        \/ /\ pc[t] \in {"enlisting", "notifying"}
                           /\ innerOwner = t
    BY DEF NoLockDeadlock
  <2>1. CASE \A t \in Task : pc[t] \notin {"enlisting", "notifying"}
    <3>1. u \in Claimants(owner, queue)
      BY <2>1 DEF Inv, CallersMutex
    <3>2. owner # NoTask
      BY <3>1 DEF Inv, CallersMutex, InOrder, Claimants
    <3>3. owner \in Task /\ owner \in Claimants(owner, queue)
      BY <3>2 DEF Inv, TypeOK, Claimants
    <3>4. pc[owner] # "waiting"
      BY <3>3 DEF Inv, CallersMutex
    <3> QED
      BY <2>1, <3>3, <3>4
  <2>2. CASE \E v \in Task : pc[v] \in {"enlisting", "notifying"}
    <3>1. PICK v \in Task : pc[v] \in {"enlisting", "notifying"}
      BY <2>2
    <3>2. v \in Claimants(innerOwner, innerQueue)
      BY <3>1 DEF Inv, InnerMutex, AtList, NotifyPoints
    <3>3. innerOwner # NoTask
      BY <3>2 DEF Inv, InnerMutex, InOrder, Claimants
    <3>4. innerOwner \in Task /\ innerOwner \in Claimants(innerOwner, innerQueue)
      BY <3>3 DEF Inv, TypeOK, Claimants
    <3>5. pc[innerOwner] \in {"enlisting", "notifying"}
      BY <3>4 DEF Inv, InnerMutex, AtList, NotifyPoints
    <3> QED
      BY <3>4, <3>5
  <2> QED
    BY <2>1, <2>2
<1> QED
  BY <1>1, Agreement, PTL

-----------------------------------------------------------------------------
(* The properties of steps.                                                *)

\* A waiting call ends only by Return.
LEMMA OnlyReturnEnds ==
  ASSUME Inv, NEW t \in Task, InCall(t), Next, call'[t] = "none"
  PROVE  Return(t)
<1>1. PICK u \in Task : Acts(u)
  BY SomebodyActs
<1>2. /\ call \in [Task -> WaitCalls \cup NotifyCalls \cup {"none"}]
      /\ pc \in [Task -> Points]
  BY DEF Inv, TypeOK
<1>3. call[t] \in WaitCalls /\ call[t] # "none"
  BY DEF InCall, WaitCalls
<1>4. u = t
  BY <1>1, <1>3, OthersKeepTheirCalls DEF Inv
<1>5. pc[t] \notin {"notifying", "leaving"}
  BY DEF Inv, CallsAgree, Registered
<1>6. ~EndNotify(t)
  BY <1>5 DEF EndNotify
<1>7. call' # call
  BY <1>3
<1>8. \A c \in WaitCalls, p \in SUBSET Values : ~Wait(t, c, p)
  BY <1>2 DEF Wait, WaitCalls
<1>9. \A c \in NotifyCalls : ~Notify(t, c)
  BY <1>2 DEF Notify, NotifyCalls
<1> QED
  BY <1>1, <1>4, <1>6, <1>7, <1>8, <1>9
  DEF Acts, Locked, Enlist, Release, Notified, Relock, WaitAgain, Timeout,
      TakeFirst, SetTaken, SetFirst, PopFirst, Lock, ChangeValue, Unlock,
      callVars

\* A call that a notification has ended leaves no address that anybody writes
\* to: notifyOne has written already, and in the list its address can only be
\* the one that a notifyAll is popping.  So only timeouts make addresses dangle
\* that a notification may use (conditionVariable.hpp).
THEOREM OnlyTimeoutsDangleHolds == Spec => OnlyTimeoutsDangle
<1>1. Inv /\ [Next]_vars =>
        [\A t \in Task : InCall(t) /\ call'[t] = "none" /\ ~isTimeout[t] =>
           /\ taken # t
           /\ \A i \in DOMAIN waitingTasks : waitingTasks[i] = t =>
                i = 1 /\ \E u \in Task : pc[u] = "popping"]_vars
  <2> SUFFICES ASSUME Inv, Next, NEW t \in Task,
                      InCall(t), call'[t] = "none", ~isTimeout[t]
               PROVE  /\ taken # t
                      /\ \A i \in DOMAIN waitingTasks : waitingTasks[i] = t =>
                           i = 1 /\ \E u \in Task : pc[u] = "popping"
    OBVIOUS
  <2>1. pc[t] = "relocking"
    BY OnlyReturnEnds DEF Return, Goto
  <2>2. notificationFlag[t]
    BY <2>1 DEF Inv, CallsAgree
  <2>3. taken # t
    BY <2>2 DEF Inv, InHand
  <2>4. ASSUME NEW i \in DOMAIN waitingTasks, waitingTasks[i] = t
        PROVE  i = 1 /\ \E u \in Task : pc[u] = "popping"
    <3>1. t = Head(waitingTasks) /\ Popping
      BY <2>2, <2>4 DEF Inv, FlagsListed, Listed
    <3>2. waitingTasks \in Seq(Task \cup {NoTask})
      BY DEF Inv, TypeOK
    <3>3. 1 \in DOMAIN waitingTasks /\ Head(waitingTasks) = waitingTasks[1]
      BY <2>4, <3>2
    <3>4. i = 1
      BY <2>4, <3>1, <3>3, TaskAssumption DEF Inv, FlagsListed
    <3> QED
      BY <3>1, <3>4 DEF Popping
  <2> QED
    BY <2>3, <2>4
<1> QED
  BY <1>1, Agreement, PTL DEF Spec, OnlyTimeoutsDangle

\* Every waiting call returns with its caller's mutex and for the reason that
\* it promises (conditionVariable.hpp, the loops around the suspension).
THEOREM ReturnsAsPromisedHolds == Spec => ReturnsAsPromised
<1>1. Inv /\ [Next]_vars =>
        [\A t \in Task : InCall(t) /\ call'[t] = "none" =>
           /\ owner = t
           /\ call[t] = "waitPredicate" => Predicate(t)
           /\ call[t] = "waitForPredicate" => Predicate(t) \/ isTimeout[t]
           /\ call[t] = "wait" => notificationFlag[t]]_vars
  <2> SUFFICES ASSUME Inv, Next, NEW t \in Task, InCall(t), call'[t] = "none"
               PROVE  /\ owner = t
                      /\ call[t] = "waitPredicate" => Predicate(t)
                      /\ call[t] = "waitForPredicate" => Predicate(t) \/ isTimeout[t]
                      /\ call[t] = "wait" => notificationFlag[t]
    OBVIOUS
  <2>1. pc[t] = "relocking" /\ owner = t /\ WaitIsOver(t)
    BY OnlyReturnEnds DEF Return, Goto
  <2>2. call[t] = "wait" => notificationFlag[t]
    BY <2>1 DEF Inv, CallsAgree, InCall
  <2> QED
    BY <2>1, <2>2 DEF WaitIsOver
<1> QED
  BY <1>1, Agreement, PTL DEF Spec, ReturnsAsPromised

\* Each flag that a notification writes to, also that of a call that has
\* released the mutex but does not sleep yet, belongs to a call that has not
\* been notified before, or to one that has timed out.
THEOREM EveryNotificationArrivesHolds == Spec => EveryNotificationArrives
<1>1. ASSUME Inv, Next, NEW u \in Task, NEW t \in Task, Sets(u, t), ~isTimeout[t]
      PROVE  Sleeps(t) /\ notificationFlag'[t]
  <2>1. /\ pc[t] \in {"waking", "relocking"} => notificationFlag[t]
        /\ waitingTasks \in Seq(Task \cup {NoTask})
    BY <1>1 DEF Inv, CallsAgree, TypeOK
  <2>2. CASE SetTaken(u) /\ t = taken
    <3>1. pc[t] \in Registered /\ ~notificationFlag[t]
      BY <1>1, <2>2 DEF Inv, InHand
    <3>2. notificationFlag'[t]
      BY <2>2 DEF SetTaken, Set
    <3> QED
      BY <2>1, <3>1, <3>2 DEF Sleeps, Registered
  <2>3. CASE SetFirst(u) /\ t = Head(waitingTasks)
    <3>1. waitingTasks # <<>> /\ Acts(u)
      BY <2>3 DEF SetFirst, AtFirst, Acts
    <3>2. t \in Listed
      <4>1. 1 \in DOMAIN waitingTasks /\ Head(waitingTasks) = waitingTasks[1]
        BY <2>1, <3>1
      <4> QED
        BY <2>3, <4>1 DEF Listed
    <3>3. ~Popping
      BY <1>1, <2>3, <3>1, OneAtTheList
    <3>4. pc[t] \in Registered /\ ~notificationFlag[t]
      BY <1>1, <3>2, <3>3 DEF Inv, FlagsListed
    <3>5. notificationFlag'[t]
      BY <2>3 DEF SetFirst, Set
    <3> QED
      BY <2>1, <3>4, <3>5 DEF Sleeps, Registered
  <2> QED
    BY <1>1, <2>2, <2>3 DEF Sets
<1>2. Inv /\ [Next]_vars =>
        [\A u \in Task, t \in Task : Sets(u, t) /\ ~isTimeout[t] =>
           Sleeps(t) /\ notificationFlag'[t]]_vars
  BY <1>1
<1> QED
  BY <1>2, Agreement, PTL DEF Spec, EveryNotificationArrives

=============================================================================
