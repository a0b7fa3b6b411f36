-------------------- MODULE MCConditionVariableExamples --------------------
(***************************************************************************)
(* Instances of the example programs of the condition variable for TLC.    *)
(***************************************************************************)
EXTENDS ConditionVariableExamples

CONSTANTS t1, t2

FourValues   == 0..3
OneValueEach == {{1}, {2}, {3}}

=============================================================================
