------------------------------ MODULE FifoLock ------------------------------
(***************************************************************************)
(* What taskr::Mutex promises: at most one owner, and the lock passes to   *)
(* the tasks that wait for it in the order in which they asked.            *)
(***************************************************************************)
EXTENDS Sequences

CONSTANTS Task, NoTask

VARIABLES
  owner,  \* the task that has the lock, or NoTask
  queue   \* the tasks waiting for it

vars == <<owner, queue>>

Init == owner = NoTask /\ queue = <<>>

\* lock() on a lock that is free, and a trylock() that succeeds.
Obtain(t) ==
  /\ owner = NoTask
  /\ owner' = t
  /\ UNCHANGED queue

\* lock() on one that is not.
Wait(t) ==
  /\ owner # NoTask
  /\ queue' = Append(queue, t)
  /\ UNCHANGED owner

Request(t) == Obtain(t) \/ Wait(t)

\* unlock() by the owner: the first of those waiting becomes the owner.
Release(t) ==
  /\ owner = t
  /\ \/ queue = <<>> /\ owner' = NoTask /\ UNCHANGED queue
     \/ queue # <<>> /\ owner' = Head(queue) /\ queue' = Tail(queue)

Next == \E t \in Task : Request(t) \/ Release(t)

Spec == Init /\ [][Next]_vars

=============================================================================
