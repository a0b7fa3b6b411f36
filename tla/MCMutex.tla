------------------------------ MODULE MCMutex ------------------------------
(***************************************************************************)
(* A small instance of the mutex for TLC: the cfg gives the tasks.         *)
(***************************************************************************)
EXTENDS Mutex

=============================================================================
