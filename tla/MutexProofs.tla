---------------------------- MODULE MutexProofs ----------------------------
(***************************************************************************)
(* Proofs about Mutex, for any set of tasks.  The safety properties follow *)
(* from one inductive invariant, Inv; that the mutex implements FifoLock   *)
(* follows from the same invariant, one step of a task at a time.          *)
(***************************************************************************)
EXTENDS Mutex, TLAPS

\* The parts of the inductive invariant.  _internalMutex is held exactly by
\* the task at a guarded point.
GuardHeld == \A t \in Task : pc[t] \in Guarded <=> internalMutex = t

\* _ownerTask against what its task believes: a task that has the lock is the
\* owner, and one that is the owner either has it or is about to find out.
OwnerHasLock ==
  \A t \in Task :
    /\ pc[t] \in {"inside", "unlocking"} => owner = t
    /\ owner = t => pc[t] \in {"queued", "waiting", "inside", "unlocking"}
    /\ pc[t] = "handing" => owner = NoTask

\* _queue holds tasks that wait, each one once, and never the owner.
QueueWaits ==
  /\ \A i \in DOMAIN queue :
       pc[queue[i]] \in {"queued", "waiting"} /\ queue[i] # owner
  /\ \A i, j \in DOMAIN queue : queue[i] = queue[j] => i = j

Inv == /\ TypeOK
       /\ GuardHeld
       /\ OwnerHasLock
       /\ QueueWaits
       /\ WaitersAreServed
       /\ NeverFreeForOthers

-----------------------------------------------------------------------------

LEMMA InitInv == Init => Inv
  BY NoTaskAssumption
  DEF Init, Inv, TypeOK, GuardHeld, OwnerHasLock, QueueWaits,
      WaitersAreServed, NeverFreeForOthers, Points, Guarded

\* The steps that leave owner and queue alone: only the point of one task and
\* _internalMutex change.
LEMMA EnterInv ==
  ASSUME Inv, NEW t \in Task, Lock(t) \/ TryLock(t) \/ Unlock(t)
  PROVE  Inv'
<1>1. PICK from \in {"outside", "inside"}, to \in {"locking", "trying", "unlocking"} :
        /\ Enter(t, from, to)
        /\ to = "unlocking" => owner = t
        /\ from = "inside" => to = "unlocking"
  BY DEF Lock, TryLock, Unlock, OwnsLock
<1>2. TypeOK'
  BY <1>1 DEF Inv, TypeOK, Enter, Points, Guarded
<1>3. GuardHeld'
  BY <1>1, NoTaskAssumption DEF Inv, TypeOK, GuardHeld, Enter, Guarded
<1>4. OwnerHasLock'
  BY <1>1, NoTaskAssumption DEF Inv, TypeOK, OwnerHasLock, Enter
<1>5. QueueWaits'
  <2>1. \A i \in DOMAIN queue : queue[i] \in Task /\ queue[i] # t
    BY <1>1 DEF Inv, TypeOK, QueueWaits, Enter
  <2> QED
    BY <1>1, <2>1 DEF Inv, TypeOK, QueueWaits, Enter
<1>6. WaitersAreServed'
  BY <1>1 DEF Inv, TypeOK, WaitersAreServed, Enter
<1>7. NeverFreeForOthers'
  BY <1>1 DEF Inv, TypeOK, NeverFreeForOthers, Enter
<1> QED
  BY <1>2, <1>3, <1>4, <1>5, <1>6, <1>7 DEF Inv

LEMMA TakeInv ==
  ASSUME Inv, NEW t \in Task, Take(t)
  PROVE  Inv'
<1>1. /\ pc[t] \in {"locking", "trying"} /\ owner = NoTask
      /\ pc' = [pc EXCEPT ![t] = "inside"]
      /\ internalMutex' = NoTask /\ owner' = t /\ queue' = queue
  BY DEF Take, Exit
<1>2. \A u \in Task : u # t => pc[u] \notin Guarded
  BY <1>1 DEF Inv, GuardHeld, Guarded
<1>3. TypeOK'
  BY <1>1 DEF Inv, TypeOK, Points
<1>4. GuardHeld'
  BY <1>1, <1>2, NoTaskAssumption DEF Inv, TypeOK, GuardHeld, Guarded
<1>5. OwnerHasLock'
  BY <1>1, <1>2, NoTaskAssumption DEF Inv, TypeOK, OwnerHasLock, Guarded
<1>6. QueueWaits'
  <2>1. \A i \in DOMAIN queue : queue[i] \in Task /\ queue[i] # t
    BY <1>1 DEF Inv, TypeOK, QueueWaits
  <2> QED
    BY <1>1, <2>1 DEF Inv, TypeOK, QueueWaits
<1>7. WaitersAreServed'
  BY <1>1, NoTaskAssumption DEF Inv, TypeOK, WaitersAreServed
<1>8. NeverFreeForOthers'
  BY <1>1, NoTaskAssumption DEF NeverFreeForOthers
<1> QED
  BY <1>3, <1>4, <1>5, <1>6, <1>7, <1>8 DEF Inv

LEMMA TryLockFailsInv ==
  ASSUME Inv, NEW t \in Task, TryLockFails(t)
  PROVE  Inv'
<1>1. /\ pc[t] = "trying" /\ owner # NoTask
      /\ pc' = [pc EXCEPT ![t] = "outside"]
      /\ internalMutex' = NoTask /\ owner' = owner /\ queue' = queue
  BY DEF TryLockFails, Exit
<1>2. \A u \in Task : u # t => pc[u] \notin Guarded
  BY <1>1 DEF Inv, GuardHeld, Guarded
<1>3. TypeOK'
  BY <1>1 DEF Inv, TypeOK, Points
<1>4. GuardHeld'
  BY <1>1, <1>2, NoTaskAssumption DEF Inv, TypeOK, GuardHeld, Guarded
<1>5. OwnerHasLock'
  BY <1>1 DEF Inv, TypeOK, OwnerHasLock
<1>6. QueueWaits'
  <2>1. \A i \in DOMAIN queue : queue[i] \in Task /\ queue[i] # t
    BY <1>1 DEF Inv, TypeOK, QueueWaits
  <2> QED
    BY <1>1, <2>1 DEF Inv, TypeOK, QueueWaits
<1>7. WaitersAreServed'
  BY <1>1 DEF Inv, TypeOK, WaitersAreServed
<1>8. NeverFreeForOthers'
  BY <1>1 DEF Inv, TypeOK, NeverFreeForOthers
<1> QED
  BY <1>3, <1>4, <1>5, <1>6, <1>7, <1>8 DEF Inv

\* The task that starts to wait is not in the queue yet: it becomes the last.
LEMMA EnqueueInv ==
  ASSUME Inv, NEW t \in Task, Enqueue(t)
  PROVE  Inv'
<1>1. /\ pc[t] = "locking" /\ owner # NoTask
      /\ pc' = [pc EXCEPT ![t] = "queued"]
      /\ internalMutex' = NoTask /\ owner' = owner /\ queue' = Append(queue, t)
  BY DEF Enqueue, Exit
<1>2. \A u \in Task : u # t => pc[u] \notin Guarded
  BY <1>1 DEF Inv, GuardHeld, Guarded
<1>3. /\ queue \in Seq(Task) /\ Len(queue') = Len(queue) + 1
      /\ queue'[Len(queue) + 1] = t
      /\ \A i \in 1..Len(queue) : queue'[i] = queue[i] /\ queue[i] \in Task
  BY <1>1 DEF Inv, TypeOK
<1>4. TypeOK'
  BY <1>1 DEF Inv, TypeOK, Points
<1>5. GuardHeld'
  BY <1>1, <1>2, NoTaskAssumption DEF Inv, TypeOK, GuardHeld, Guarded
<1>6. OwnerHasLock'
  BY <1>1 DEF Inv, TypeOK, OwnerHasLock
<1>7. QueueWaits'
  <2>1. DOMAIN queue = 1..Len(queue) /\ DOMAIN queue' = 1..(Len(queue) + 1)
    BY <1>1, <1>3
  <2>2. owner # t /\ \A i \in 1..Len(queue) : queue[i] # t
    BY <1>1, <2>1 DEF Inv, QueueWaits, OwnerHasLock
  <2> QED
    BY <1>1, <1>3, <2>1, <2>2 DEF Inv, TypeOK, QueueWaits
<1>8. WaitersAreServed'
  BY <1>1, <1>3 DEF Inv, TypeOK, WaitersAreServed
<1>9. NeverFreeForOthers'
  BY <1>1 DEF NeverFreeForOthers
<1> QED
  BY <1>4, <1>5, <1>6, <1>7, <1>8, <1>9 DEF Inv

LEMMA SuspendResumeInv ==
  ASSUME Inv, NEW t \in Task, Suspend(t) \/ Resume(t)
  PROVE  Inv'
<1>1. /\ UNCHANGED <<internalMutex, owner, queue>>
      /\ \/ pc[t] = "queued" /\ pc' = [pc EXCEPT ![t] = "waiting"]
         \/ /\ pc[t] = "waiting" /\ owner = t
            /\ pc' = [pc EXCEPT ![t] = "inside"]
  BY DEF Suspend, Resume
<1>2. TypeOK'
  BY <1>1 DEF Inv, TypeOK, Points
<1>3. GuardHeld'
  BY <1>1 DEF Inv, TypeOK, GuardHeld, Guarded
<1>4. OwnerHasLock'
  BY <1>1 DEF Inv, TypeOK, OwnerHasLock
<1>5. QueueWaits'
  BY <1>1 DEF Inv, TypeOK, QueueWaits
<1>6. WaitersAreServed'
  BY <1>1 DEF Inv, TypeOK, WaitersAreServed
<1>7. NeverFreeForOthers'
  BY <1>1 DEF Inv, TypeOK, NeverFreeForOthers
<1> QED
  BY <1>2, <1>3, <1>4, <1>5, <1>6, <1>7 DEF Inv

\* For a moment the lock has no owner although tasks wait.
LEMMA ClearInv ==
  ASSUME Inv, NEW t \in Task, Clear(t)
  PROVE  Inv'
<1>1. /\ pc[t] = "unlocking" /\ pc' = [pc EXCEPT ![t] = "handing"]
      /\ owner' = NoTask /\ UNCHANGED <<internalMutex, queue>>
  BY DEF Clear
<1>2. owner = t
  BY <1>1 DEF Inv, OwnerHasLock
<1>3. TypeOK'
  BY <1>1 DEF Inv, TypeOK, Points, Guarded
<1>4. GuardHeld'
  BY <1>1 DEF Inv, TypeOK, GuardHeld, Guarded
<1>5. OwnerHasLock'
  BY <1>1, <1>2, NoTaskAssumption DEF Inv, TypeOK, OwnerHasLock
<1>6. QueueWaits'
  <2>1. \A i \in DOMAIN queue : queue[i] \in Task /\ queue[i] # t
    BY <1>1 DEF Inv, TypeOK, QueueWaits
  <2> QED
    BY <1>1, <2>1, NoTaskAssumption DEF Inv, TypeOK, QueueWaits
<1>7. WaitersAreServed'
  BY <1>1, <1>2 DEF Inv, TypeOK, WaitersAreServed
<1>8. NeverFreeForOthers'
  BY <1>1 DEF Inv, TypeOK, NeverFreeForOthers
<1> QED
  BY <1>3, <1>4, <1>5, <1>6, <1>7, <1>8 DEF Inv

\* The first of the queue, if there is one, becomes the owner, and leaves the
\* queue: every other task that waits is still in it.
LEMMA HandInv ==
  ASSUME Inv, NEW t \in Task, Hand(t)
  PROVE  Inv'
<1>1. /\ pc[t] = "handing" /\ owner = NoTask
      /\ pc' = [pc EXCEPT ![t] = "outside"] /\ internalMutex' = NoTask
      /\ \/ queue = <<>> /\ UNCHANGED <<owner, queue>>
         \/ queue # <<>> /\ owner' = Head(queue) /\ queue' = Tail(queue)
  BY DEF Hand, Exit, Inv, OwnerHasLock
<1>2. \A u \in Task : u # t => pc[u] \notin Guarded
  BY <1>1 DEF Inv, GuardHeld, Guarded
<1>3. \A u \in Task : pc[u] \notin {"inside", "unlocking"}
  BY <1>1, NoTaskAssumption DEF Inv, OwnerHasLock
<1>4. \A i \in DOMAIN queue : queue[i] \in Task /\ queue[i] # t
  BY <1>1 DEF Inv, TypeOK, QueueWaits
<1>5. CASE queue = <<>>
  <2>1. owner' = owner /\ queue' = queue
    BY <1>1, <1>5
  <2>2. TypeOK' /\ GuardHeld' /\ OwnerHasLock'
    BY <1>1, <1>2, <1>3, <2>1, NoTaskAssumption
    DEF Inv, TypeOK, GuardHeld, OwnerHasLock, Points, Guarded
  <2>3. QueueWaits' /\ WaitersAreServed' /\ NeverFreeForOthers'
    BY <1>1, <1>5, <2>1
    DEF Inv, TypeOK, QueueWaits, WaitersAreServed, NeverFreeForOthers
  <2> QED
    BY <2>2, <2>3 DEF Inv
<1>6. CASE queue # <<>>
  <2> DEFINE h == queue[1]
  <2>1. /\ owner' = h /\ queue' = Tail(queue) /\ queue \in Seq(Task)
        /\ 1 \in DOMAIN queue /\ Len(queue') = Len(queue) - 1
        /\ queue' \in Seq(Task) /\ DOMAIN queue = 1..Len(queue)
        /\ \A i \in 1..(Len(queue) - 1) : queue'[i] = queue[i + 1]
    BY <1>1, <1>6 DEF Inv, TypeOK
  <2>2. h \in Task /\ h # t /\ pc[h] \in {"queued", "waiting"}
    BY <1>4, <2>1 DEF Inv, QueueWaits
  <2>3. TypeOK' /\ GuardHeld' /\ OwnerHasLock'
    <3>1. TypeOK'
      BY <1>1, <2>1, <2>2 DEF Inv, TypeOK, Points
    <3>2. GuardHeld'
      BY <1>1, <1>2, NoTaskAssumption DEF Inv, TypeOK, GuardHeld, Guarded
    <3>3. OwnerHasLock'
      BY <1>1, <1>2, <1>3, <2>1, <2>2 DEF Inv, TypeOK, OwnerHasLock, Guarded
    <3> QED
      BY <3>1, <3>2, <3>3
  <2>4. QueueWaits'
    <3>1. \A i \in DOMAIN queue' :
            i + 1 \in DOMAIN queue /\ queue'[i] = queue[i + 1] /\ i \in Nat
      BY <2>1
    <3>2. ASSUME NEW i \in DOMAIN queue'
          PROVE  queue'[i] # owner' /\ pc'[queue'[i]] \in {"queued", "waiting"}
      <4>1. i + 1 \in DOMAIN queue /\ queue'[i] = queue[i + 1] /\ i + 1 # 1
        BY <2>1, <3>1
      <4>2. queue[i + 1] # queue[1]
        BY <2>1, <4>1 DEF Inv, QueueWaits
      <4>3. pc'[queue[i + 1]] = pc[queue[i + 1]]
        BY <1>1, <1>4, <4>1 DEF Inv, TypeOK
      <4> QED
        BY <2>1, <4>1, <4>2, <4>3 DEF Inv, QueueWaits
    <3>3. ASSUME NEW i \in DOMAIN queue', NEW j \in DOMAIN queue',
                 queue'[i] = queue'[j]
          PROVE  i = j
      BY <3>1, <3>3 DEF Inv, QueueWaits
    <3> QED
      BY <3>2, <3>3 DEF QueueWaits
  <2>5. WaitersAreServed'
    <3> SUFFICES ASSUME NEW u \in Task, pc'[u] \in {"queued", "waiting"}, u # h
                 PROVE  \E i \in DOMAIN queue' : queue'[i] = u
      BY <2>1 DEF WaitersAreServed
    <3>1. pc[u] \in {"queued", "waiting"} /\ owner # u
      BY <1>1, NoTaskAssumption DEF Inv, TypeOK
    <3>2. PICK i \in DOMAIN queue : queue[i] = u
      BY <3>1 DEF Inv, WaitersAreServed
    <3>3. i - 1 \in DOMAIN queue' /\ queue'[i - 1] = u
      BY <2>1, <3>2
    <3> QED
      BY <3>3
  <2>6. NeverFreeForOthers'
    BY <2>1, <2>2, NoTaskAssumption DEF NeverFreeForOthers
  <2> QED
    BY <2>3, <2>4, <2>5, <2>6 DEF Inv
<1> QED
  BY <1>5, <1>6

LEMMA NextInv == Inv /\ [Next]_vars => Inv'
<1> SUFFICES ASSUME Inv, [Next]_vars PROVE Inv'
  OBVIOUS
<1>1. CASE UNCHANGED vars
  BY <1>1 DEF vars, Inv, TypeOK, GuardHeld, OwnerHasLock, QueueWaits,
              WaitersAreServed, NeverFreeForOthers
<1>2. ASSUME NEW t \in Task, Lock(t) \/ TryLock(t) \/ Unlock(t) \/ Step(t)
      PROVE  Inv'
  BY <1>2, EnterInv, TakeInv, TryLockFailsInv, EnqueueInv, SuspendResumeInv,
     ClearInv, HandInv DEF Step
<1> QED
  BY <1>1, <1>2 DEF Next

\* The inductive invariant holds in every state of every execution.
THEOREM Invariance == Spec => []Inv
<1> QED
  BY InitInv, NextInv, PTL DEF Spec

\* The variables of mutex.hpp keep their types.
THEOREM TypeCorrect == Spec => []TypeOK
<1>1. Inv => TypeOK
  BY DEF Inv
<1> QED
  BY <1>1, Invariance, PTL

\* Whatever the number of tasks, no two of them are between the return of
\* lock() or a successful trylock() and the end of unlock().
THEOREM MutualExclusionHolds == Spec => []MutualExclusion
<1>1. Inv => MutualExclusion
  BY NoTaskAssumption
  DEF Inv, TypeOK, GuardHeld, OwnerHasLock, MutualExclusion, HasLock, Guarded
<1> QED
  BY <1>1, Invariance, PTL

\* unlock() never leaves the lock free while a task waits for it, so a lock()
\* or trylock() that comes later cannot overtake.
THEOREM NoBarging == Spec => []NeverFreeForOthers
<1>1. Inv => NeverFreeForOthers
  BY DEF Inv
<1> QED
  BY <1>1, Invariance, PTL

\* A task that waits, or is about to, owns the lock or is in the queue.
THEOREM NobodyForgotten == Spec => []WaitersAreServed
<1>1. Inv => WaitersAreServed
  BY DEF Inv
<1> QED
  BY <1>1, Invariance, PTL

-----------------------------------------------------------------------------
(* Refinement.                                                             *)

\* The owner that FifoLock sees, without the CHOOSE.
Visible ==
  /\ \A t \in Task : pc[t] = "handing" => VisibleOwner = t
  /\ (\A t \in Task : pc[t] # "handing") => VisibleOwner = owner

LEMMA VisibleOwnerIs == Inv => Visible
<1> SUFFICES ASSUME Inv PROVE Visible
  OBVIOUS
<1>1. ASSUME NEW t \in Task, pc[t] = "handing" PROVE VisibleOwner = t
  <2>1. \A u \in Task : pc[u] = "handing" => u = t
    BY <1>1 DEF Inv, GuardHeld, Guarded
  <2> QED
    BY <1>1, <2>1 DEF VisibleOwner
<1>2. ASSUME \A t \in Task : pc[t] # "handing" PROVE VisibleOwner = owner
  BY <1>2 DEF VisibleOwner
<1> QED
  BY <1>1, <1>2 DEF Visible

\* A task at a guarded point is alone there: while it is not handing the lock
\* over, nobody is.
LEMMA NobodyHanding ==
  ASSUME Inv, NEW t \in Task, pc[t] \in Guarded, pc[t] # "handing"
  PROVE  \A u \in Task : pc[u] # "handing"
  BY DEF Inv, GuardHeld, Guarded

\* Each step of a task is a step of the lock that FifoLock specifies, or
\* leaves it as it is.
LEMMA StepRefines ==
  ASSUME Inv, Inv', Visible, Visible', NEW t \in Task,
         Lock(t) \/ TryLock(t) \/ Unlock(t) \/ Step(t)
  PROVE  Fifo!Next \/ UNCHANGED Fifo!vars
<1> DEFINE Nobody == \A u \in Task : pc[u] # "handing"
<1>1. ASSUME Lock(t) \/ TryLock(t) \/ Unlock(t)
      PROVE  UNCHANGED Fifo!vars
  <2>1. internalMutex = NoTask /\ UNCHANGED <<owner, queue>>
    BY <1>1 DEF Lock, TryLock, Unlock, Enter
  <2>2. Nobody
    BY <2>1, NoTaskAssumption DEF Inv, GuardHeld, Guarded
  <2>3. Nobody'
    BY <1>1, <2>2
    DEF Lock, TryLock, Unlock, Enter, Inv, TypeOK
  <2> QED
    BY <2>1, <2>2, <2>3 DEF Visible, Fifo!vars
<1>2. ASSUME Take(t) PROVE Fifo!Obtain(t)
  <2>1. /\ pc[t] \in {"locking", "trying"} /\ owner = NoTask
        /\ pc' = [pc EXCEPT ![t] = "inside"] /\ owner' = t /\ queue' = queue
    BY <1>2 DEF Take, Exit
  <2>2. Nobody /\ Nobody'
    BY <2>1, NobodyHanding DEF Guarded, Inv, TypeOK
  <2> QED
    BY <2>1, <2>2 DEF Visible, Fifo!Obtain
<1>3. ASSUME TryLockFails(t) PROVE UNCHANGED Fifo!vars
  <2>1. /\ pc[t] = "trying" /\ pc' = [pc EXCEPT ![t] = "outside"]
        /\ UNCHANGED <<owner, queue>>
    BY <1>3 DEF TryLockFails, Exit
  <2>2. Nobody /\ Nobody'
    BY <2>1, NobodyHanding DEF Guarded, Inv, TypeOK
  <2> QED
    BY <2>1, <2>2 DEF Visible, Fifo!vars
<1>4. ASSUME Enqueue(t) PROVE Fifo!Wait(t)
  <2>1. /\ pc[t] = "locking" /\ pc' = [pc EXCEPT ![t] = "queued"]
        /\ owner # NoTask /\ owner' = owner /\ queue' = Append(queue, t)
    BY <1>4 DEF Enqueue, Exit
  <2>2. Nobody /\ Nobody'
    BY <2>1, NobodyHanding DEF Guarded, Inv, TypeOK
  <2> QED
    BY <2>1, <2>2 DEF Visible, Fifo!Wait
<1>5. ASSUME Suspend(t) \/ Resume(t) PROVE UNCHANGED Fifo!vars
  <2>1. /\ UNCHANGED <<owner, queue>>
        /\ \A u \in Task : pc'[u] = "handing" <=> pc[u] = "handing"
    BY <1>5 DEF Suspend, Resume, Inv, TypeOK
  <2>2. CASE Nobody
    BY <2>1, <2>2 DEF Visible, Fifo!vars
  <2>3. CASE ~Nobody
    BY <2>1, <2>3 DEF Visible, Fifo!vars
  <2> QED
    BY <2>2, <2>3
<1>6. ASSUME Clear(t) PROVE UNCHANGED Fifo!vars
  <2>1. /\ pc[t] = "unlocking" /\ pc' = [pc EXCEPT ![t] = "handing"]
        /\ owner = t /\ queue' = queue
    BY <1>6 DEF Clear, Inv, OwnerHasLock
  <2>2. Nobody /\ pc'[t] = "handing"
    BY <2>1, NobodyHanding DEF Guarded, Inv, TypeOK
  <2> QED
    BY <2>1, <2>2 DEF Visible, Fifo!vars
<1>7. ASSUME Hand(t) PROVE Fifo!Release(t)
  <2>1. /\ pc[t] = "handing" /\ pc' = [pc EXCEPT ![t] = "outside"]
        /\ owner = NoTask
        /\ \/ queue = <<>> /\ UNCHANGED <<owner, queue>>
           \/ queue # <<>> /\ owner' = Head(queue) /\ queue' = Tail(queue)
    BY <1>7 DEF Hand, Exit, Inv, OwnerHasLock
  <2>2. \A u \in Task : u # t => pc[u] # "handing"
    BY <2>1 DEF Inv, GuardHeld, Guarded
  <2>3. Nobody'
    BY <2>1, <2>2 DEF Inv, TypeOK
  <2> QED
    BY <2>1, <2>3 DEF Visible, Fifo!Release
<1> QED
  BY <1>1, <1>2, <1>3, <1>4, <1>5, <1>6, <1>7
  DEF Step, Fifo!Next, Fifo!Request

LEMMA NextRefines ==
  ASSUME Inv, Inv', Visible, Visible', [Next]_vars
  PROVE  [Fifo!Next]_Fifo!vars
<1>1. CASE UNCHANGED vars
  BY <1>1 DEF vars, VisibleOwner, Fifo!vars
<1>2. ASSUME NEW t \in Task, Lock(t) \/ TryLock(t) \/ Unlock(t) \/ Step(t)
      PROVE  [Fifo!Next]_Fifo!vars
  BY <1>2, StepRefines
<1> QED
  BY <1>1, <1>2 DEF Next

\* The mutex implements the first-in-first-out lock: unlock() hands the lock
\* over in one visible step although it writes _ownerTask twice.
THEOREM Refinement == Spec => ImplementsFifoLock
<1>1. Init => Fifo!Init
  BY DEF Init, Fifo!Init, VisibleOwner
<1>2. Inv /\ Inv' /\ Visible /\ Visible' /\ [Next]_vars => [Fifo!Next]_Fifo!vars
  BY NextRefines
<1> QED
  BY <1>1, <1>2, VisibleOwnerIs, Invariance, PTL
  DEF Spec, ImplementsFifoLock, Fifo!Spec

=============================================================================
