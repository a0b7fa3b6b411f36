----------------------------- MODULE TaskGraph -----------------------------
(***************************************************************************)
(* What TaskR promises its user, without workers, queues or counters: a    *)
(* task runs once every task it depends on has finished, it may suspend    *)
(* and continue any number of times, it finishes once, and the runtime     *)
(* comes to rest only when every added task has finished.  A task that was *)
(* not added runs too, but only if it has dependencies to start it, and    *)
(* its end is told to nobody.  Where a termination may be forced, the      *)
(* runtime may drop tasks that do not run at that moment; they never run   *)
(* again, nor does what depends on them.                                   *)
(***************************************************************************)
EXTENDS Naturals

CONSTANTS
  Task,
  MayDrop  \* TRUE if the application may force the termination

VARIABLES
  running,       \* between run() and the return of await()
  added,         \* the tasks given to addTask
  dependencies,  \* the tasks each task depends on
  status         \* "ready", "running", "suspended", "finished", "drained"

vars == <<running, added, dependencies, status>>

Init ==
  /\ running = FALSE
  /\ added = {}
  /\ dependencies = [t \in Task |-> {}]
  /\ status = [t \in Task |-> "ready"]

\* A dependency on another task, declared before the task can start.
Depend(t, u) ==
  /\ status[t] = "ready"
  /\ dependencies' = [dependencies EXCEPT ![t] = @ \cup {u}]
  /\ UNCHANGED <<running, added, status>>

Add(t) ==
  /\ t \notin added
  /\ added' = added \cup {t}
  /\ UNCHANGED <<running, dependencies, status>>

\* The task goes from one status to another.
Become(t, from, to) ==
  /\ status[t] \in from
  /\ status' = [status EXCEPT ![t] = to]
  /\ UNCHANGED <<running, added, dependencies>>

Start(t) ==
  /\ running
  /\ t \in added \/ dependencies[t] # {}
  /\ \A u \in dependencies[t] : u \in added /\ status[u] = "finished"
  /\ Become(t, {"ready", "suspended"}, "running")

Yield(t)  == running /\ Become(t, {"running"}, "suspended")
Finish(t) == running /\ Become(t, {"running"}, "finished")
Drop(t)   == running /\ MayDrop /\ Become(t, {"ready", "suspended"}, "drained")

Run ==
  /\ ~running
  /\ running' = TRUE
  /\ UNCHANGED <<added, dependencies, status>>

Await ==
  /\ running
  /\ \A t \in added : status[t] \in {"finished", "drained"}
  /\ \A t \in Task : status[t] # "running"
  /\ running' = FALSE
  /\ UNCHANGED <<added, dependencies, status>>

Next ==
  \/ Run \/ Await
  \/ \E t \in Task : Add(t) \/ Start(t) \/ Yield(t) \/ Finish(t) \/ Drop(t)
  \/ \E t, u \in Task : Depend(t, u)

Spec == Init /\ [][Next]_vars

\* Every task that can start is eventually started, and every run ends.
Fairness ==
  /\ WF_vars(Await)
  /\ \A t \in Task : WF_vars(Start(t)) /\ WF_vars(Finish(t) \/ Yield(t))

FairSpec == Spec /\ Fairness

=============================================================================
