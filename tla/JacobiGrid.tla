---------------------------- MODULE JacobiGrid ----------------------------
(***************************************************************************)
(* The two arrays of each process of examples/jacobi3d, and what the       *)
(* solvers do to them.  A value is told apart by the cell and the          *)
(* iteration it was computed for, never by its magnitude.                  *)
(***************************************************************************)
EXTENDS Integers, Sequences, FiniteSets

CONSTANTS
  Geometries,   \* the launches considered
  GhostDepth    \* gDepth

ASSUME GhostDepthAssumption == GhostDepth \in Nat \ {0}

VARIABLES
  grid,         \* the launch at hand, and what Grid::initialize makes of it
  array,        \* array[p][0] is U of process p, array[p][1] its Un
  phase,        \* how far the main thread of each process is
  residual      \* _residual of each process

D(g) == INSTANCE Decomposition WITH geometry <- g

ASSUME GeometryAssumption ==
  \A g \in Geometries :
    /\ g.N \in Nat \ {0} /\ g.nIters \in Nat /\ g.instances \in Nat
    /\ g.pt \in [1..3 -> Nat \ {0}] /\ g.lt \in [1..3 -> Nat \ {0}]

\* No block is thinner than the ghost cells around it; with gDepth = 1 none is.
ASSUME ThicknessAssumption ==
  \A g \in Geometries : D(g)!Divisible => \A a \in 1..3 : GhostDepth <= D(g)!ls[a]

Faces == (1..3) \X {0, 1}
Opposite(f) == <<f[1], 1 - f[2]>>

\* The members of the Grid object, per process, block, face or cell.
Initialized(g) ==
  LET Pairs == D(g)!Process \X D(g)!Local
      Sides == D(g)!Local \X Faces
      Ends  == D(g)!Process \X D(g)!Local \X Faces IN
  [N         |-> g.N,
   lt        |-> g.lt,
   nIters    |-> g.nIters,
   instances |-> g.instances,
   divisible |-> D(g)!Divisible,
   process   |-> D(g)!Process,
   local     |-> D(g)!Local,
   localId   |-> [l \in D(g)!Local |-> D(g)!Rank(g.lt, l)],
   remote    |-> [b \in Pairs |-> D(g)!RemoteFaces(b[1], b[2])],
   type      |-> [e \in Ends |-> D(g)!Type(e[1], e[2], e[3])],
   neighbor  |-> [e \in Ends |-> <<D(g)!NeighborProcess(e[1], e[2], e[3]),
                                   D(g)!NeighborLPos(e[1], e[2], e[3])>>],
   cell      |-> D(g)!Cell,
   origin    |-> [p \in D(g)!Process |-> D(g)!GlobalCell(p, D(g)!Origin)],
   inside    |-> [l \in D(g)!Local |-> D(g)!Inside(l)],
   halo      |-> [l \in D(g)!Local |-> D(g)!Halo(l)],
   outside   |-> [b \in Pairs |-> D(g)!Outside(b[1], b[2])],
   stencil   |-> [c \in UNION {D(g)!Inside(l) : l \in D(g)!Local} |-> D(g)!StencilOf(c)],
   own       |-> [s \in Sides |-> [o \in D(g)!Offset(s[2]) |->
                                     D(g)!Plus(D(g)!OwnLayer(s[1], s[2]), o)]],
   ghost     |-> [s \in Sides |-> [o \in D(g)!Offset(s[2]) |->
                                     D(g)!Plus(D(g)!GhostLayer(s[1], s[2]), o)]]]

Process == grid.process
Local   == grid.local
nIters  == grid.nIters
Type(p, l, f)     == grid.type[<<p, l, f>>]
Neighbor(p, l, f) == grid.neighbor[<<p, l, f>>]
Remote(p, l)      == grid.remote[<<p, l>>]
RemoteFaces == {e \in Process \X Local \X Faces : grid.type[e] = "REMOTE"}

-----------------------------------------------------------------------------

Zero  == <<>>              \* 0.0, what surrounds the domain
One   == <<0>>             \* 1.0, the value of every cell at the outset
Unset == <<-1>>            \* not written yet
Wrong == <<-2>>            \* computed from anything but the right values

\* The value that a cell of the whole domain has in an iteration.
Domain == (0..(grid.N - 1)) \X (0..(grid.N - 1)) \X (0..(grid.N - 1))
Value(c, it) == IF it = 0 THEN One ELSE <<c[1], c[2], c[3], it>>
Global(p, c) == LET o == grid.origin[p] IN <<o[1] + c[1], o[2] + c[2], o[3] + c[3]>>
Expected(p, c, it) ==
  LET g == Global(p, c) IN IF g \in Domain THEN Value(g, it) ELSE Zero

\* An iteration reads one array and writes the other.
ThisArray(it) == it % 2
NextArray(it) == (it + 1) % 2

\* The sum is that of the right iteration only if all its terms are.
Update(p, u, c, it) ==
  IF \A d \in grid.stencil[c] : u[d] = Expected(p, d, it)
  THEN Value(Global(p, c), it + 1) ELSE Wrong

\* A block updated from one array into the other.
Computed(p, l, from, to, it) ==
  [array[p] EXCEPT ![to] =
     [c \in grid.cell |-> IF c \in grid.inside[l] THEN Update(p, array[p][from], c, it)
                                                  ELSE @[c]]]

\* Some cells of both arrays set to a value.
Filled(u, cells, v) ==
  [b \in {0, 1} |-> [c \in grid.cell |-> IF c \in cells THEN v ELSE u[b][c]]]

\* The cells of a block along a face, and one message behind each face.
Packed(u, l, f) == [o \in DOMAIN grid.own[<<l, f>>] |-> u[grid.own[<<l, f>>][o]]]

Unpacked(u, l, message) ==
  LET Goes(f, o) == grid.ghost[<<l, f>>][o]
      From(c) == {s \in UNION {{f} \X DOMAIN message[f] : f \in DOMAIN message} :
                    Goes(s[1], s[2]) = c} IN
  [c \in grid.cell |->
     IF From(c) = {} THEN u[c] ELSE LET s == CHOOSE s \in From(c) : TRUE IN message[s[1]][s[2]]]

\* The residual of a block or process: the values summed up, and their number.
NoResidual == [values |-> {}, terms |-> 0]
Sum(r, s) == [values |-> r.values \cup s.values, terms |-> r.terms + s.terms]
LocalResidual(p, l) ==
  [values |-> {array[p][nIters % 2][c] : c \in grid.inside[l]},
   terms  |-> Cardinality(grid.inside[l])]

InitGrid ==
  /\ grid \in {Initialized(g) : g \in Geometries}
  /\ array = [p \in Process |-> [b \in {0, 1} |-> [c \in grid.cell |-> Unset]]]
  /\ phase = [p \in Process |-> "launch"]
  /\ residual = [p \in Process |-> NoResidual]

\* Every process checks the geometry that it was launched with; one that finds
\* it wrong aborts them all, and none gets past initialize.
WellFormed == grid.divisible /\ grid.instances = Cardinality(Process)
Abort ==
  /\ ~WellFormed
  /\ \E p \in Process : phase[p] = "launch"
  /\ phase' = [p \in Process |-> "aborted"]
  /\ UNCHANGED <<grid, array, residual>>

Root == 0
Goto(p, from, to) == phase[p] = from /\ phase' = [phase EXCEPT ![p] = to]
Collectively(from, to) ==
  /\ \A p \in Process : phase[p] = from
  /\ phase' = [p \in Process |-> to]

Ended == \A p \in Process : phase[p] \in {"done", "aborted"}

-----------------------------------------------------------------------------
(* What the computation promises, whichever way it is scheduled.           *)

\* The iteration of a block: the later of those that one of its cells has.  Only
\* in a launch that the processes do not divide can a block be without cells.
IterationOf(v) == IF Len(v) = 4 THEN v[4] ELSE 0
IterationOfBlock(p, l) ==
  IF grid.inside[l] = {} THEN 0 ELSE
  LET c == CHOOSE c \in grid.inside[l] : TRUE
      n == IterationOf(array[p][0][c])
      m == IterationOf(array[p][1][c]) IN IF n < m THEN m ELSE n

Block == Process \X Local
Adjacent(b) ==
  {Neighbor(b[1], b[2], f) : f \in {g \in Faces : Type(b[1], b[2], g) # "BOUNDARY"}}

\* The blocks of any launch; those that this one does not have stay at 0.
AnyBlock == UNION {D(g)!Process \X D(g)!Local : g \in Geometries}

Blocks == INSTANCE Stencil WITH
  Block     <- AnyBlock,
  adjacent  <- [b \in AnyBlock |-> IF b \in Block THEN Adjacent(b) ELSE {}],
  iteration <- [b \in AnyBlock |-> IF b \in Block THEN IterationOfBlock(b[1], b[2]) ELSE 0]

\* Blocks advance as a stencil computation does: never before their neighbours
\* have reached the same iteration, and never back.
ImplementsStencil == Blocks!Spec

\* No value is ever computed from anything but the values of the previous
\* iteration around it: no message lost, late, doubled or delivered to another
\* face, no ghost cell unset, no array overwritten while it was still read.
OnlyRightValues ==
  \A p \in Process : \A l \in Local : \A b \in {0, 1} : \A c \in grid.inside[l] :
    LET v == array[p][b][c] IN
    v \in {One, Unset} \/ v = Value(Global(p, c), IterationOf(v))

\* The root reports the sum over all cells of the domain, each with its value
\* after the last iteration and each counted once.
ResidualIsComplete ==
  phase[Root] = "done" =>
    /\ residual[Root].values = {Value(c, nIters) : c \in Domain}
    /\ residual[Root].terms = Cardinality(Domain)

\* The program ends, whatever the decomposition.
Terminates == <>Ended

=============================================================================
