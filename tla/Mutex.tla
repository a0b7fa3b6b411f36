------------------------------- MODULE Mutex -------------------------------
(***************************************************************************)
(* taskr::Mutex (mutex.hpp): a lock that suspends the task that has to     *)
(* wait for it, not the worker that runs the task.  The state is guarded   *)
(* by a std::mutex that is held for a few instructions; the waiting task   *)
(* sleeps behind a pending operation that reads the owner without it.      *)
(*                                                                         *)
(* A task calls lock() only while it does not own the lock.                *)
(***************************************************************************)
EXTENDS Integers, Sequences

CONSTANTS Task, NoTask

ASSUME NoTaskAssumption == NoTask \notin Task

VARIABLES
  internalMutex,  \* the task inside _internalMutex, or NoTask
  owner,          \* _ownerTask
  queue,          \* _queue
  pc              \* where each task is

vars == <<internalMutex, owner, queue, pc>>

\* Where a task holds _internalMutex, and where it has the lock.
Guarded == {"locking", "trying", "unlocking", "handing"}
Points  == Guarded \cup {"outside", "queued", "waiting", "inside"}

Init ==
  /\ internalMutex = NoTask
  /\ owner = NoTask
  /\ queue = <<>>
  /\ pc = [t \in Task |-> "outside"]

\* _internalMutex.lock() and unlock() around the step of a task.
Enter(t, from, to) ==
  /\ pc[t] = from /\ internalMutex = NoTask
  /\ internalMutex' = t
  /\ pc' = [pc EXCEPT ![t] = to]
  /\ UNCHANGED <<owner, queue>>

Exit(t, from, to) ==
  /\ pc[t] = from
  /\ internalMutex' = NoTask
  /\ pc' = [pc EXCEPT ![t] = to]

Lock(t)    == Enter(t, "outside", "locking")
TryLock(t) == Enter(t, "outside", "trying")

\* lockNotBlockingImpl finds the lock free.
TakeAnyway(t) ==
  /\ Exit(t, "locking", "inside") \/ Exit(t, "trying", "inside")
  /\ owner' = t
  /\ UNCHANGED queue

Take(t) ==
  /\ owner = NoTask
  /\ Exit(t, "locking", "inside") \/ Exit(t, "trying", "inside")
  /\ owner' = t
  /\ UNCHANGED queue

\* It does not: trylock() fails, lock() queues the task and suspends it.
TryLockFails(t) ==
  /\ owner # NoTask
  /\ Exit(t, "trying", "outside")
  /\ UNCHANGED <<owner, queue>>

Enqueue(t) ==
  /\ owner # NoTask
  /\ Exit(t, "locking", "queued")
  /\ queue' = Append(queue, t)
  /\ UNCHANGED owner

Suspend(t) ==
  /\ pc[t] = "queued"
  /\ pc' = [pc EXCEPT ![t] = "waiting"]
  /\ UNCHANGED <<internalMutex, owner, queue>>

\* The pending operation: the task is resumed once it owns the lock.
Resume(t) ==
  /\ pc[t] = "waiting" /\ owner = t
  /\ pc' = [pc EXCEPT ![t] = "inside"]
  /\ UNCHANGED <<internalMutex, owner, queue>>

\* unlock() looks at the owner before it enters _internalMutex, and throws if
\* that is another task; any task may call it.
AnyoneOwns(t) == TRUE
OwnsLock(t)   == owner = t

Unlock(t) ==
  /\ OwnsLock(t)
  /\ \E from \in {"inside", "outside"} : Enter(t, from, "unlocking")

Clear(t) ==
  /\ pc[t] = "unlocking"
  /\ owner' = NoTask
  /\ pc' = [pc EXCEPT ![t] = "handing"]
  /\ UNCHANGED <<internalMutex, queue>>

HandNothing(t) == Exit(t, "handing", "outside") /\ UNCHANGED <<owner, queue>>

HandLast(t) ==
  /\ Exit(t, "handing", "outside")
  /\ \/ queue = <<>> /\ UNCHANGED <<owner, queue>>
     \/ /\ queue # <<>>
        /\ owner' = queue[Len(queue)]
        /\ queue' = SubSeq(queue, 1, Len(queue) - 1)

Hand(t) ==
  /\ Exit(t, "handing", "outside")
  /\ \/ queue = <<>> /\ UNCHANGED <<owner, queue>>
     \/ queue # <<>> /\ owner' = Head(queue) /\ queue' = Tail(queue)

Step(t) == \/ Take(t) \/ TryLockFails(t) \/ Enqueue(t) \/ Suspend(t)
           \/ Resume(t) \/ Clear(t) \/ Hand(t)

Next == \E t \in Task : Lock(t) \/ TryLock(t) \/ Unlock(t) \/ Step(t)

Spec == Init /\ [][Next]_vars

\* A worker that runs a task goes on doing so, a waiting task is polled, and a
\* task that has the lock comes to release it: _internalMutex does not starve
\* it, however often others try.
Fairness == \A t \in Task : WF_vars(Step(t)) /\ SF_vars(Unlock(t))

FairSpec == Spec /\ Fairness

-----------------------------------------------------------------------------
(* Properties.                                                             *)

TypeOK ==
  /\ internalMutex \in Task \cup {NoTask}
  /\ owner \in Task \cup {NoTask}
  /\ queue \in Seq(Task)
  /\ pc \in [Task -> Points]

\* No two tasks are between the return of lock() and the end of unlock().
HasLock(t) == pc[t] \in {"inside", "unlocking", "handing"}

MutualExclusion ==
  \A t, u \in Task : HasLock(t) /\ HasLock(u) => t = u

\* While tasks wait the lock is theirs: it is never left free for a task that
\* asks later, and no waiting task is forgotten in the queue.
NeverFreeForOthers ==
  queue # <<>> => owner # NoTask \/ \E t \in Task : pc[t] = "handing"

WaitersAreServed ==
  \A t \in Task : pc[t] \in {"queued", "waiting"} =>
    owner = t \/ \E i \in DOMAIN queue : queue[i] = t

\* Seen from outside, unlock() hands the lock over in one step, though it
\* writes _ownerTask twice while pending operations read it.
VisibleOwner ==
  IF \E t \in Task : pc[t] = "handing"
  THEN CHOOSE t \in Task : pc[t] = "handing" ELSE owner

Fifo == INSTANCE FifoLock WITH owner <- VisibleOwner

ImplementsFifoLock == Fifo!Spec

\* Every task that had to wait for the lock comes to own it.
EveryWaiterGetsLock ==
  \A t \in Task : pc[t] = "queued" ~> pc[t] = "inside"

=============================================================================
