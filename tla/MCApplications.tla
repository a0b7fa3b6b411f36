--------------------------- MODULE MCApplications ---------------------------
(* Every example program, with small counts. *)
EXTENDS Applications

=============================================================================
