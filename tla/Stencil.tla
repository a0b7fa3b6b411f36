------------------------------ MODULE Stencil ------------------------------
(***************************************************************************)
(* What an iterative stencil computation promises: the domain is cut into  *)
(* blocks, and a block computes its next iteration only from neighbours    *)
(* that have computed the previous one.  Nothing is said of tasks,         *)
(* processes, messages or buffers.                                         *)
(***************************************************************************)
EXTENDS Naturals

CONSTANT Block

VARIABLES
  adjacent,   \* the neighbours of each block, fixed by the decomposition
  iteration   \* how many iterations each block has computed

vars == <<adjacent, iteration>>

Init ==
  /\ adjacent \in [Block -> SUBSET Block]
  /\ \A b, c \in Block : c \in adjacent[b] => b \in adjacent[c]
  /\ iteration = [b \in Block |-> 0]

\* The values of iteration n + 1 depend on those of iteration n next door.
Advance(b) ==
  /\ \A c \in adjacent[b] : iteration[c] >= iteration[b]
  /\ iteration' = [iteration EXCEPT ![b] = @ + 1]
  /\ UNCHANGED adjacent

Next == \E b \in Block : Advance(b)

Spec == Init /\ [][Next]_vars

-----------------------------------------------------------------------------

TypeOK ==
  /\ adjacent \in [Block -> SUBSET Block]
  /\ iteration \in [Block -> Nat]

Symmetric == \A b, c \in Block : c \in adjacent[b] => b \in adjacent[c]

\* Neighbours are never more than one iteration apart.  It is why the grid can
\* do with two arrays, U and Un: a value of iteration n is overwritten by one of
\* iteration n + 2, which no neighbour still in iteration n can have reached.
InStep ==
  \A b \in Block : \A c \in adjacent[b] : iteration[c] <= iteration[b] + 1

=============================================================================
