----------------------------- MODULE MCRuntime -----------------------------
(***************************************************************************)
(* Small instances of the scheduler for TLC.                               *)
(***************************************************************************)
EXTENDS RuntimeRefinement, TLC

CONSTANTS w1, w2

TwoTasks   == 1..2
ThreeTasks == 1..3

CommonOnly  == {Common}
OneWorker   == {w1, Common}
AnyAffinity == {w1, w2, Common}

Disciplined == {}

WorkerSymmetry == Permutations(Worker)

=============================================================================
