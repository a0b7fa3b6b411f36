----------------------------- MODULE MCServices -----------------------------
(***************************************************************************)
(* A small instance of the scheduler with services for TLC.                *)
(***************************************************************************)
EXTENDS Services

OneTask    == 1..1
TwoTasks   == 1..2
CommonOnly == {Common}

=============================================================================
