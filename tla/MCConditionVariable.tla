------------------------ MODULE MCConditionVariable ------------------------
(***************************************************************************)
(* Small instances of the condition variable for TLC.                      *)
(***************************************************************************)
EXTENDS ConditionVariable, TLC

TaskSymmetry == Permutations(Task)

=============================================================================
