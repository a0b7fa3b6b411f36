--------------------------- MODULE Decomposition ---------------------------
(***************************************************************************)
(* How examples/jacobi3d cuts a domain of N * N * N cells: into a grid pt  *)
(* of processes, and each process into a grid lt of blocks, every block    *)
(* with ghost cells around it.  What Grid::initialize computes, once.      *)
(***************************************************************************)
EXTENDS Integers, Sequences

CONSTANTS
  geometry,     \* N, pt, lt, the iterations nIters, and the processes launched
  GhostDepth    \* gDepth, 1 in every driver

X == 1
Y == 2
Z == 3
Axis == {X, Y, Z}

\* The faces of a block, in the order in which the code goes through them.
Face == << <<X, 0>>, <<X, 1>>, <<Y, 0>>, <<Y, 1>>, <<Z, 0>>, <<Z, 1>> >>
Faces == {Face[i] : i \in 1..6}
Opposite(f) == <<f[1], 1 - f[2]>>

Box(first, last) == (first[X]..last[X]) \X (first[Y]..last[Y]) \X (first[Z]..last[Z])
Origin == <<0, 0, 0>>
Below(d) == [a \in Axis |-> d[a] - 1]

N  == geometry.N
pt == geometry.pt
lt == geometry.lt

\* What initialize checks before it computes the sizes.
Divisible == \A a \in Axis : N % pt[a] = 0 /\ (N \div pt[a]) % lt[a] = 0

\* Sizes per process, with ghost cells, and per block.
ps == [a \in Axis |-> N \div pt[a]]
fs == [a \in Axis |-> ps[a] + 2 * GhostDepth]
ls == [a \in Axis |-> ps[a] \div lt[a]]

\* Processes are ranked, and the blocks of a process numbered, z slowest.
Rank(shape, pos) == (pos[Z] * shape[Y] + pos[Y]) * shape[X] + pos[X]

processCount == pt[X] * pt[Y] * pt[Z]
Process == 0..(processCount - 1)
pPos(p) == CHOOSE q \in Box(Origin, Below(pt)) : Rank(pt, q) = p

Local == Box(Origin, Below(lt))
lStart(l) == [a \in Axis |-> ls[a] * l[a] + GhostDepth]
lEnd(l)   == [a \in Axis |-> lStart(l)[a] + ls[a]]

Shift(pos, f, n) == [pos EXCEPT ![f[1]] = IF f[2] = 0 THEN @ - n ELSE @ + n]
Edge(shape, f) == IF f[2] = 0 THEN 0 ELSE shape[f[1]] - 1

\* What lies beyond face f of block l; of the code's assignments the last wins.
Type(p, l, f) ==
  IF pPos(p)[f[1]] = Edge(pt, f) /\ l[f[1]] = Edge(lt, f) THEN "BOUNDARY"
  ELSE IF l[f[1]] = Edge(lt, f) THEN "REMOTE" ELSE "LOCAL"

\* The block beyond the face: in the next process, it is at the far side.
NeighborProcess(p, l, f) ==
  IF Type(p, l, f) = "REMOTE" THEN Rank(pt, Shift(pPos(p), f, 1)) ELSE p
NeighborLPos(p, l, f) ==
  IF Type(p, l, f) = "REMOTE" THEN [l EXCEPT ![f[1]] = Edge(lt, Opposite(f))]
                              ELSE Shift(l, f, 1)

\* The faces beyond which is another process, in the order of the code.
RemoteFaces(p, l) ==
  LET IfRemote(i) == IF Type(p, l, Face[i]) = "REMOTE" THEN <<Face[i]>> ELSE <<>> IN
  IfRemote(1) \o IfRemote(2) \o IfRemote(3) \o IfRemote(4) \o IfRemote(5) \o IfRemote(6)

-----------------------------------------------------------------------------
(* The cells of a process's arrays.                                        *)

Cell == Box(Origin, Below(fs))
Inside(l) == Box(lStart(l), Below(lEnd(l)))

\* The halo of a block, itself included, and what of it is outside the domain.
Halo(l) == Box([a \in Axis |-> lStart(l)[a] - GhostDepth],
               [a \in Axis |-> lEnd(l)[a] + GhostDepth - 1])
Outside(p, l) ==
  {c \in Halo(l) : \E f \in Faces :
     /\ Type(p, l, f) = "BOUNDARY"
     /\ c[f[1]] \in IF f[2] = 0 THEN 0..(GhostDepth - 1)
                    ELSE (ps[f[1]] + GhostDepth)..(fs[f[1]] - 1)}

\* The cells that the update of a cell reads: GhostDepth to each side.
StencilOf(c) == {c} \cup {Shift(c, f, d) : f \in Faces, d \in 1..GhostDepth}

\* Where a cell of process p is in the whole domain.
GlobalCell(p, c) == [a \in Axis |-> pPos(p)[a] * ps[a] + c[a] - GhostDepth]

\* A message holds the cells of a block along a face, each at its offset.
Offset(f) == Box(Origin, Below([ls EXCEPT ![f[1]] = GhostDepth]))
Plus(c, o) == <<c[X] + o[X], c[Y] + o[Y], c[Z] + o[Z]>>

\* A layer too far in, as an off-by-one in the packing loops would have it.
InnerLayer(l, f) ==
  [lStart(l) EXCEPT ![f[1]] = IF f[2] = 0 THEN @ ELSE lEnd(l)[f[1]] - GhostDepth - 1]

\* Where the block's own cells along the face begin, and the ghosts beyond it.
OwnLayer(l, f) ==
  [lStart(l) EXCEPT ![f[1]] = IF f[2] = 0 THEN @ ELSE lEnd(l)[f[1]] - GhostDepth]
GhostLayer(l, f) ==
  [lStart(l) EXCEPT ![f[1]] = IF f[2] = 0 THEN 0 ELSE lEnd(l)[f[1]]]

=============================================================================
