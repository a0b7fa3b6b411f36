---------------------------- MODULE JacobiProofs ----------------------------
(***************************************************************************)
(* Proofs about Jacobi, for any grid, decomposition and number of          *)
(* iterations: that tasks which may run together share no memory, that     *)
(* every cell gets its value of every iteration, that the solver           *)
(* implements Stencil and that the root reports a complete residual, by an *)
(* inductive invariant in four parts: IInv on the order of the tasks,      *)
(* Right on the data, Counted on how far each block is, and Accounted on   *)
(* where the residual is.                                                  *)
(***************************************************************************)
EXTENDS MCJacobi, DecompositionProofs, FiniteSetTheorems

\* g is the launch that runs.
InUse(g) == Decomposed(g) /\ grid = Initialized(g)

-----------------------------------------------------------------------------
\* What the program knows of its launch.

\* Only the last block of a process has a remote neighbour.
LEMMA RemoteAtEdge ==
  ASSUME NEW g, NEW p, NEW l, NEW f, D(g)!Type(p, l, f) = "REMOTE"
  PROVE  AtEdge(g, l, f)
BY DEF D!Type, AtEdge, D!lt

\* The remote faces that the loops of Pack, Send, Receive and Unpack go through are remote.
LEMMA RemoteSequence ==
  ASSUME NEW g, NEW p, NEW l
  PROVE  D(g)!RemoteFaces(p, l) \in Seq({f \in Faces : D(g)!Type(p, l, f) = "REMOTE"})
<1> DEFINE S == {f \in Faces : D(g)!Type(p, l, f) = "REMOTE"}
           At(i) == IF D(g)!Type(p, l, D(g)!Face[i]) = "REMOTE" THEN <<D(g)!Face[i]>> ELSE <<>>
<1>1. ASSUME NEW i \in 1..6 PROVE At(i) \in Seq(S)
  <2>1. D(g)!Face[i] \in Faces
    BY FacesAreFaces DEF D!Faces
  <2>2. CASE D(g)!Type(p, l, D(g)!Face[i]) = "REMOTE"
    <3>1. D(g)!Face[i] \in S /\ At(i) = <<D(g)!Face[i]>>
      BY <2>1, <2>2
    <3> HIDE DEF S, At
    <3> QED
      BY <3>1
  <2>3. CASE D(g)!Type(p, l, D(g)!Face[i]) # "REMOTE"
    BY <2>3
  <2> QED
    BY <2>2, <2>3
<1>2. At(1) \in Seq(S) /\ At(2) \in Seq(S) /\ At(3) \in Seq(S) /\ At(4) \in Seq(S)
      /\ At(5) \in Seq(S) /\ At(6) \in Seq(S)
  BY <1>1
<1>3. D(g)!RemoteFaces(p, l) = At(1) \o At(2) \o At(3) \o At(4) \o At(5) \o At(6)
  BY DEF D!RemoteFaces
<1> HIDE DEF S, At
<1>4. At(1) \o At(2) \o At(3) \o At(4) \o At(5) \o At(6) \in Seq(S)
  BY <1>2
<1> QED
  BY <1>3, <1>4 DEF S

\* What initialize stores is what the decomposition of g says.
LEMMA Fields ==
  ASSUME NEW g, grid = Initialized(g)
  PROVE  /\ Local = D(g)!Local /\ Process = D(g)!Process /\ nIters = g.nIters
         /\ \A l \in Local : grid.inside[l] = D(g)!Inside(l)
         /\ \A l \in Local : \A c \in D(g)!Inside(l) : grid.stencil[c] = D(g)!StencilOf(c)
         /\ \A l \in Local, f \in Faces :
              /\ grid.own[<<l, f>>] = [o \in D(g)!Offset(f) |-> D(g)!Plus(D(g)!OwnLayer(l, f), o)]
              /\ grid.ghost[<<l, f>>] = [o \in D(g)!Offset(f) |-> D(g)!Plus(D(g)!GhostLayer(l, f), o)]
         /\ \A p \in Process, l \in Local :
              /\ Remote(p, l) = D(g)!RemoteFaces(p, l)
              /\ \A f \in Faces :
                   /\ Type(p, l, f) = D(g)!Type(p, l, f)
                   /\ Neighbor(p, l, f) = <<D(g)!NeighborProcess(p, l, f), D(g)!NeighborLPos(p, l, f)>>
<1>1. /\ Local = D(g)!Local /\ Process = D(g)!Process /\ nIters = g.nIters
  BY DEF Initialized, Local, Process, nIters
<1>2. \A l \in Local : grid.inside[l] = D(g)!Inside(l)
  BY DEF Initialized, Local
<1>3. \A l \in Local : \A c \in D(g)!Inside(l) : grid.stencil[c] = D(g)!StencilOf(c)
  BY <1>1 DEF Initialized
<1>4. \A l \in Local, f \in Faces :
              /\ grid.own[<<l, f>>] = [o \in D(g)!Offset(f) |-> D(g)!Plus(D(g)!OwnLayer(l, f), o)]
              /\ grid.ghost[<<l, f>>] = [o \in D(g)!Offset(f) |-> D(g)!Plus(D(g)!GhostLayer(l, f), o)]
  BY <1>1 DEF Initialized
<1>5. ASSUME NEW p \in Process, NEW l \in Local PROVE Remote(p, l) = D(g)!RemoteFaces(p, l)
  BY <1>1 DEF Initialized, Remote
<1>6. ASSUME NEW p \in Process, NEW l \in Local, NEW f \in Faces
      PROVE /\ Type(p, l, f) = D(g)!Type(p, l, f)
            /\ Neighbor(p, l, f) = <<D(g)!NeighborProcess(p, l, f), D(g)!NeighborLPos(p, l, f)>>
  BY <1>1 DEF Initialized, Type, Neighbor
<1> QED
  BY <1>1, <1>2, <1>3, <1>4, <1>5, <1>6

LEMMA GhostField ==
  ASSUME NEW g, grid = Initialized(g), NEW l \in Local, NEW f \in Faces
  PROVE  grid.ghost[<<l, f>>] = [o \in D(g)!Offset(f) |-> D(g)!Plus(D(g)!GhostLayer(l, f), o)]
BY DEF Initialized, Local

\* Away from the edge of the process the next block is a local neighbour.
LEMMA LocalNeighbor ==
  ASSUME NEW g, InUse(g), NEW p \in Process, NEW l \in Local, NEW f \in Faces,
         l[f[1]] # D(g)!Edge(g.lt, f)
  PROVE  D(g)!Shift(l, f, 1) \in LocalNeighbors(p, l)
<1>1. Type(p, l, f) = "LOCAL"
  BY Fields DEF InUse, D!Type, D!lt
<1>2. Neighbor(p, l, f)[2] = D(g)!Shift(l, f, 1)
  BY <1>1, Fields DEF InUse, D!NeighborLPos
<1> QED
  BY <1>1, <1>2 DEF LocalNeighbors

\* Compute reads the cells of a block other than its own only if the two are neighbours.
LEMMA Reading ==
  ASSUME NEW g, InUse(g), NEW p \in Process, NEW l \in Local, NEW m \in Local, l # m,
         NEW c \in grid.inside[l], NEW d \in grid.stencil[c], d \in grid.inside[m]
  PROVE  m \in LocalNeighbors(p, l) /\ l \in LocalNeighbors(p, m)
<1>1. Decomposed(g) /\ l \in D(g)!Local /\ m \in D(g)!Local /\ c \in D(g)!Inside(l)
      /\ d \in D(g)!StencilOf(c) /\ d \in D(g)!Inside(m)
  BY Fields DEF InUse
<1>2. PICK f \in Faces : /\ Opposite(f) \in Faces
                         /\ l[f[1]] # D(g)!Edge(g.lt, f) /\ m = D(g)!Shift(l, f, 1)
                         /\ m[f[1]] # D(g)!Edge(g.lt, Opposite(f)) /\ l = D(g)!Shift(m, Opposite(f), 1)
  BY <1>1, NeighborRead
<1>3. Opposite(f)[1] = f[1]
  BY DEF Opposite
<1> QED
  BY <1>2, <1>3, LocalNeighbor

\* The cells that Pack reads and those that Unpack writes.
LEMMA LayerCells ==
  ASSUME NEW g, InUse(g), NEW p \in Process, NEW l \in Local, NEW i \in DOMAIN Remote(p, l)
  PROVE  /\ Remote(p, l)[i] \in Faces /\ AtEdge(g, l, Remote(p, l)[i])
         /\ \A o \in DOMAIN grid.own[<<l, Remote(p, l)[i]>>] :
              grid.own[<<l, Remote(p, l)[i]>>][o] \in grid.inside[l]
         /\ \A o \in DOMAIN grid.ghost[<<l, Remote(p, l)[i]>>] :
              GhostCell(g, l, Remote(p, l)[i], grid.ghost[<<l, Remote(p, l)[i]>>][o])
<1> DEFINE f == Remote(p, l)[i]
<1>1. f \in Faces /\ D(g)!Type(p, l, f) = "REMOTE"
  <2>1. Remote(p, l) \in Seq({h \in Faces : D(g)!Type(p, l, h) = "REMOTE"})
    BY RemoteSequence, Fields DEF InUse
  <2> QED
    BY <2>1
<1>2. AtEdge(g, l, f)
  BY <1>1, RemoteAtEdge
<1>3. /\ grid.own[<<l, f>>] = [o \in D(g)!Offset(f) |-> D(g)!Plus(D(g)!OwnLayer(l, f), o)]
      /\ grid.ghost[<<l, f>>] = [o \in D(g)!Offset(f) |-> D(g)!Plus(D(g)!GhostLayer(l, f), o)]
  <2> HIDE DEF f
  <2> QED
    BY <1>1, Fields DEF InUse
<1>4. ASSUME NEW o \in DOMAIN grid.own[<<l, f>>] PROVE grid.own[<<l, f>>][o] \in grid.inside[l]
  <2> HIDE DEF f
  <2>1. o \in D(g)!Offset(f) /\ grid.own[<<l, f>>][o] = D(g)!Plus(D(g)!OwnLayer(l, f), o)
    BY <1>3, <1>4
  <2>2. OwnCell(g, l, f, grid.own[<<l, f>>][o])
    BY <2>1 DEF OwnCell
  <2> QED
    BY <1>1, <2>2, OwnCellInside, Fields DEF InUse
<1>5. ASSUME NEW o \in DOMAIN grid.ghost[<<l, f>>] PROVE GhostCell(g, l, f, grid.ghost[<<l, f>>][o])
  <2> HIDE DEF f
  <2>1. o \in D(g)!Offset(f) /\ grid.ghost[<<l, f>>][o] = D(g)!Plus(D(g)!GhostLayer(l, f), o)
    BY <1>3, <1>5
  <2> QED
    BY <2>1 DEF GhostCell
<1> QED
  BY <1>1, <1>2, <1>4, <1>5

\* What the tasks touch, in the terms of the decomposition.
LEMMA PackReads ==
  ASSUME NEW g, InUse(g), NEW p \in Process, NEW l \in Local, NEW b,
         NEW x \in InArray(b, Layers(grid.own, l, Remote(p, l)))
  PROVE  \E c \in grid.inside[l] : x = <<"array", b, c>>
<1>1. PICK c \in Layers(grid.own, l, Remote(p, l)) : x = <<"array", b, c>>
  BY DEF InArray
<1>2. PICK i \in DOMAIN Remote(p, l) :
        \E o \in DOMAIN grid.own[<<l, Remote(p, l)[i]>>] : c = grid.own[<<l, Remote(p, l)[i]>>][o]
  BY DEF Layers
<1>3. c \in grid.inside[l]
  BY <1>2, LayerCells
<1> QED
  BY <1>1, <1>3

\* What Unpack writes: ghost cells at an edge of the process.
LEMMA UnpackWrites ==
  ASSUME NEW g, InUse(g), NEW p \in Process, NEW l \in Local, NEW b,
         NEW x \in InArray(b, Layers(grid.ghost, l, Remote(p, l)))
  PROVE  \E f \in Faces : \E c : AtEdge(g, l, f) /\ GhostCell(g, l, f, c) /\ x = <<"array", b, c>>
<1>1. PICK c \in Layers(grid.ghost, l, Remote(p, l)) : x = <<"array", b, c>>
  BY DEF InArray
<1>2. PICK i \in DOMAIN Remote(p, l) :
        \E o \in DOMAIN grid.ghost[<<l, Remote(p, l)[i]>>] : c = grid.ghost[<<l, Remote(p, l)[i]>>][o]
  BY DEF Layers
<1>3. AtEdge(g, l, Remote(p, l)[i]) /\ GhostCell(g, l, Remote(p, l)[i], c) /\ Remote(p, l)[i] \in Faces
  BY <1>2, LayerCells
<1> QED
  BY <1>1, <1>3

-----------------------------------------------------------------------------
\* Which tasks may run together.

Started(p) == finished[p] \cup DOMAIN progress[p]

\* A task that starts has its dependencies behind it, and the same task of all iterations before.
DependenciesDone(p, t) == \A u \in Dependencies(p, t) : u \in finished[p] /\ Added(u)
EarlierDone(p, t) == \A i \in 0..(t[3] - 1) : <<t[1], t[2], i>> \in finished[p]

(* The inductive invariant of the task graph. The grid is the one of a launch, *)
(* and of one that is divided once the processes are past the check.          *)
GridOK ==
  /\ \E g \in Geometries : grid = Initialized(g)
  /\ \A p \in Process : phase[p] \notin {"launch", "aborted"} => WellFormed

\* The processes are always the same.
TypesOK ==
  /\ DOMAIN phase = Process
  /\ finished = [p \in Process |-> finished[p]]
  /\ progress = [p \in Process |-> progress[p]]

\* Tasks start in the order of their dependencies, and only Send and Receive take several steps.
InOrder ==
  \A p \in Process :
    /\ \A t \in Started(p) \cap GraphTask : DependenciesDone(p, t) /\ EarlierDone(p, t)
    /\ finished[p] \cap DOMAIN progress[p] = {}
    /\ \A t \in DOMAIN progress[p] :
         t \in GraphTask \cup ResidualTask => t[1] \in {"Send", "Receive"}

IInv == GridOK /\ TypesOK /\ InOrder

-----------------------------------------------------------------------------
\* The dependencies, and what they keep apart.

\* The dependencies that the proofs need, out of those jacobi3d.hpp:103-135 adds.
LEMMA DependsOn ==
  ASSUME NEW p, NEW l \in Local, NEW it \in Iteration
  PROVE  /\ it > 0 =>
              /\ \A m \in LocalNeighbors(p, l) \cup {l} :
                   <<"Compute", m, it - 1>> \in Dependencies(p, <<"Compute", l, it>>)
              /\ <<"Pack", l, it - 1>> \in Dependencies(p, <<"Compute", l, it>>)
              /\ <<"Unpack", l, it - 1>> \in Dependencies(p, <<"Compute", l, it>>)
              /\ <<"Unpack", l, it - 1>> \in Dependencies(p, <<"Receive", l, it>>)
              /\ <<"Send", l, it - 1>> \in Dependencies(p, <<"Pack", l, it>>)
         /\ <<"Receive", l, it>> \in Dependencies(p, <<"Unpack", l, it>>)
         /\ <<"Compute", l, it>> \in Dependencies(p, <<"Unpack", l, it>>)
         /\ <<"Compute", l, it>> \in Dependencies(p, <<"Pack", l, it>>)
         /\ <<"Pack", l, it>> \in Dependencies(p, <<"Send", l, it>>)
<1>1. Dependencies(p, <<"Compute", l, it>>) =
        (UNION {Before("Compute", m, it) : m \in LocalNeighbors(p, l) \cup {l}})
        \cup Before("Pack", l, it) \cup Before("Unpack", l, it)
  BY DEF Dependencies
<1>2. /\ Dependencies(p, <<"Receive", l, it>>) = Before("Unpack", l, it)
      /\ Dependencies(p, <<"Unpack", l, it>>) = {<<"Receive", l, it>>, <<"Compute", l, it>>}
      /\ Dependencies(p, <<"Pack", l, it>>) = {<<"Compute", l, it>>} \cup Before("Send", l, it)
      /\ Dependencies(p, <<"Send", l, it>>) = {<<"Pack", l, it>>}
  BY DEF Dependencies
<1>3. it > 0 => \A k, m : <<k, m, it - 1>> \in Before(k, m, it)
  BY DEF Before
<1>4. it > 0 => \A m \in LocalNeighbors(p, l) \cup {l} :
                  <<"Compute", m, it - 1>> \in Dependencies(p, <<"Compute", l, it>>)
  <2> SUFFICES ASSUME it > 0, NEW m \in LocalNeighbors(p, l) \cup {l}
               PROVE  <<"Compute", m, it - 1>> \in Dependencies(p, <<"Compute", l, it>>)
    OBVIOUS
  <2>1. <<"Compute", m, it - 1>> \in Before("Compute", m, it)
    BY <1>3
  <2> QED
    BY <1>1, <2>1
<1>5. it > 0 => /\ <<"Pack", l, it - 1>> \in Dependencies(p, <<"Compute", l, it>>)
                /\ <<"Unpack", l, it - 1>> \in Dependencies(p, <<"Compute", l, it>>)
  <2>1. it > 0 => /\ <<"Pack", l, it - 1>> \in Before("Pack", l, it)
                  /\ <<"Unpack", l, it - 1>> \in Before("Unpack", l, it)
    BY <1>3
  <2> DEFINE U == UNION {Before("Compute", m, it) : m \in LocalNeighbors(p, l) \cup {l}}
  <2>2. Dependencies(p, <<"Compute", l, it>>)
          = U \cup Before("Pack", l, it) \cup Before("Unpack", l, it)
    BY <1>1
  <2> HIDE DEF U
  <2> QED
    BY <2>1, <2>2
<1>6. it > 0 => /\ <<"Unpack", l, it - 1>> \in Dependencies(p, <<"Receive", l, it>>)
                /\ <<"Send", l, it - 1>> \in Dependencies(p, <<"Pack", l, it>>)
  <2>1. it > 0 => /\ <<"Unpack", l, it - 1>> \in Before("Unpack", l, it)
                  /\ <<"Send", l, it - 1>> \in Before("Send", l, it)
    BY <1>3
  <2> QED
    BY <1>2, <2>1
<1> QED
  BY <1>2, <1>4, <1>5, <1>6

\* The tasks of the graph.
LEMMA GraphTasks ==
  ASSUME NEW t \in GraphTask
  PROVE  /\ t = <<t[1], t[2], t[3]>> /\ t[1] \in Kind /\ t[2] \in Local /\ t[3] \in Iteration
BY DEF GraphTask

\* A task starts after all those of its kind for its block and earlier iterations.
LEMMA StartsInOrder ==
  ASSUME IInv, nIters \in Nat, NEW p \in Process, NEW t \in GraphTask, DependenciesDone(p, t)
  PROVE  EarlierDone(p, t)
<1> DEFINE l == t[2]
           it == t[3]
<1>1. /\ t = <<t[1], l, it>> /\ t[1] \in Kind /\ l \in Local /\ it \in Iteration
  BY GraphTasks
<1>2. it \in Nat
  BY <1>1 DEF Iteration
<1> SUFFICES ASSUME NEW i \in 0..(it - 1) PROVE <<t[1], l, i>> \in finished[p]
  BY DEF EarlierDone
<1>3. it > 0 /\ it - 1 \in Iteration /\ i \in Iteration /\ (i = it - 1 \/ i \in 0..(it - 1 - 1))
  BY <1>1, <1>2 DEF Iteration
\* What a task that has finished tells of earlier ones.
<1>4. ASSUME NEW k \in Kind, NEW j \in Iteration, <<k, l, j>> \in finished[p]
      PROVE  /\ \A n \in 0..(j - 1) : <<k, l, n>> \in finished[p]
             /\ \A u \in Dependencies(p, <<k, l, j>>) : u \in finished[p]
  <2>1. <<k, l, j>> \in Started(p) \cap GraphTask
    BY <1>1, <1>4 DEF Started, GraphTask
  <2> QED
    BY <2>1 DEF IInv, InOrder, DependenciesDone, EarlierDone
<1>5. ASSUME NEW k \in Kind, <<k, l, it - 1>> \in finished[p] PROVE <<k, l, i>> \in finished[p]
  BY <1>3, <1>4, <1>5
<1>6. t[1] \in {"Compute", "Pack", "Send", "Receive", "Unpack"}
  BY <1>1 DEF Kind
<1> HIDE DEF l, it
<1>7. CASE t[1] = "Compute"
  <2>1. <<"Compute", l, it - 1>> \in finished[p]
    BY <1>1, <1>3, <1>7, DependsOn DEF DependenciesDone
  <2> QED
    BY <1>5, <1>7, <2>1 DEF Kind
<1>8. CASE t[1] = "Pack"
  <2>1. <<"Send", l, it - 1>> \in finished[p]
    BY <1>1, <1>3, <1>8, DependsOn DEF DependenciesDone
  <2>2. <<"Pack", l, it - 1>> \in finished[p]
    BY <1>1, <1>3, <1>4, <2>1, DependsOn DEF Kind
  <2> QED
    BY <1>5, <1>8, <2>2 DEF Kind
<1>9. CASE t[1] = "Send"
  <2>1. <<"Pack", l, it>> \in finished[p]
    BY <1>1, <1>3, <1>9, DependsOn DEF DependenciesDone
  <2>2. <<"Send", l, it - 1>> \in finished[p]
    BY <1>1, <1>3, <1>4, <2>1, DependsOn DEF Kind
  <2> QED
    BY <1>5, <1>9, <2>2 DEF Kind
<1>10. CASE t[1] = "Receive"
  <2>1. <<"Unpack", l, it - 1>> \in finished[p]
    BY <1>1, <1>3, <1>10, DependsOn DEF DependenciesDone
  <2>2. <<"Receive", l, it - 1>> \in finished[p]
    BY <1>1, <1>3, <1>4, <2>1, DependsOn DEF Kind
  <2> QED
    BY <1>5, <1>10, <2>2 DEF Kind
<1>11. CASE t[1] = "Unpack"
  <2>1. <<"Receive", l, it>> \in finished[p]
    BY <1>1, <1>3, <1>11, DependsOn DEF DependenciesDone
  <2>2. <<"Unpack", l, it - 1>> \in finished[p]
    BY <1>1, <1>3, <1>4, <2>1, DependsOn DEF Kind
  <2> QED
    BY <1>5, <1>11, <2>2 DEF Kind
<1> QED
  <2>1. <<t[1], l, i>> \in finished[p]
    BY <1>6, <1>7, <1>8, <1>9, <1>10, <1>11
  <2> QED
    BY <2>1 DEF l

\* A task that runs, or that the scheduler may start, has all it depends on behind it.
LEMMA LiveTask ==
  ASSUME IInv, nIters \in Nat, NEW p \in Process, NEW t \in GraphTask, IsLive(p, t)
  PROVE  t \notin finished[p] /\ DependenciesDone(p, t) /\ EarlierDone(p, t)
<1>1. CASE t \in DOMAIN progress[p]
  BY <1>1 DEF IInv, InOrder, Started
<1>2. CASE MayStart(p, t)
  <2>1. t \notin finished[p] /\ DependenciesDone(p, t)
    BY <1>2 DEF MayStart, DependenciesDone
  <2> QED
    BY <2>1, StartsInOrder
<1> QED
  BY <1>1, <1>2 DEF IsLive

\* The number of iterations is one of those of the geometries.
LEMMA IterationsAreNat ==
  ASSUME IInv
  PROVE  nIters \in Nat
BY Fields, GeometryAssumption DEF IInv, GridOK

\* Tasks that may run at the same time: of one kind and block there is one.
LEMMA OneOfAKind ==
  ASSUME IInv, NEW p \in Process, NEW t \in GraphTask, NEW u \in GraphTask,
         IsLive(p, t), IsLive(p, u), t[1] = u[1], t[2] = u[2]
  PROVE  t = u
<1>1. nIters \in Nat
  BY IterationsAreNat
<1>2. t[3] \in Nat /\ u[3] \in Nat
  BY <1>1, GraphTasks DEF Iteration
<1>3. ASSUME NEW v \in GraphTask, NEW w \in GraphTask, IsLive(p, v), IsLive(p, w),
             v[1] = w[1], v[2] = w[2], v[3] \in Nat, w[3] \in Nat
      PROVE  ~(v[3] < w[3])
  <2>1. v = <<w[1], w[2], v[3]>>
    BY <1>3, GraphTasks
  <2>2. v[3] < w[3] => v[3] \in 0..(w[3] - 1)
    BY <1>3
  <2> QED
    BY <1>1, <1>3, <2>1, <2>2, LiveTask DEF EarlierDone
<1>4. t[3] = u[3]
  BY <1>2, <1>3
<1> QED
  BY <1>4, GraphTasks

\* If h waits for k, and the next k for h, then the two never run together.
LEMMA Alternate ==
  ASSUME IInv, NEW p \in Process, NEW l \in Local, NEW k \in Kind, NEW h \in Kind,
         NEW i \in Iteration, NEW j \in Iteration,
         IsLive(p, <<k, l, i>>), IsLive(p, <<h, l, j>>),
         <<k, l, j>> \in Dependencies(p, <<h, l, j>>),
         i > 0 => <<h, l, i - 1>> \in Dependencies(p, <<k, l, i>>)
  PROVE  FALSE
<1>1. nIters \in Nat /\ i \in Nat /\ j \in Nat
  BY IterationsAreNat DEF Iteration
<1>2. <<k, l, i>> \in GraphTask /\ <<h, l, j>> \in GraphTask /\ <<k, l, j>> \in GraphTask
  BY DEF GraphTask
<1>3. /\ <<k, l, i>> \notin finished[p] /\ DependenciesDone(p, <<k, l, i>>)
      /\ <<h, l, j>> \notin finished[p] /\ DependenciesDone(p, <<h, l, j>>)
  BY <1>1, <1>2, LiveTask
<1>4. ASSUME NEW g \in Kind, NEW m \in Iteration, NEW n \in Iteration,
             <<g, l, m>> \in finished[p], n <= m
      PROVE  <<g, l, n>> \in finished[p]
  <2>1. m \in Nat /\ n \in Nat
    BY <1>1 DEF Iteration
  <2>2. EarlierDone(p, <<g, l, m>>)
    BY <1>4 DEF IInv, InOrder, Started, GraphTask
  <2>3. n = m \/ n \in 0..(m - 1)
    BY <1>4, <2>1
  <2> QED
    BY <1>4, <2>2, <2>3 DEF EarlierDone
<1>5. <<k, l, j>> \in finished[p]
  BY <1>3 DEF DependenciesDone
<1>6. j < i
  BY <1>1, <1>3, <1>4, <1>5
<1>7. <<h, l, i - 1>> \in finished[p]
  BY <1>1, <1>3, <1>6 DEF DependenciesDone
<1>8. i - 1 \in Iteration /\ j <= i - 1
  BY <1>1, <1>6 DEF Iteration
<1> QED
  BY <1>3, <1>4, <1>7, <1>8

\* Next to each other, two blocks are updated together in one iteration only.
LEMMA NeighborsTogether ==
  ASSUME IInv, NEW p \in Process, NEW l \in Local, NEW m \in Local,
         NEW i \in Iteration, NEW j \in Iteration,
         IsLive(p, <<"Compute", l, i>>), IsLive(p, <<"Compute", m, j>>),
         m \in LocalNeighbors(p, l), l \in LocalNeighbors(p, m)
  PROVE  i = j
<1>1. nIters \in Nat /\ i \in Nat /\ j \in Nat
  BY IterationsAreNat DEF Iteration
<1>2. ASSUME NEW b \in Local, NEW c \in Local, NEW x \in Iteration, NEW y \in Iteration,
             IsLive(p, <<"Compute", b, x>>), IsLive(p, <<"Compute", c, y>>),
             b \in LocalNeighbors(p, c), x < y
      PROVE  FALSE
  <2>1. x \in Nat /\ y \in Nat /\ y - 1 \in Iteration /\ y > 0
    BY <1>1, <1>2 DEF Iteration
  <2>2. <<"Compute", b, x>> \in GraphTask /\ <<"Compute", c, y>> \in GraphTask
        /\ <<"Compute", b, y - 1>> \in GraphTask
    BY <2>1 DEF GraphTask, Kind
  <2>3. <<"Compute", b, y - 1>> \in finished[p]
    <3>1. <<"Compute", b, y - 1>> \in Dependencies(p, <<"Compute", c, y>>)
      BY <1>2, <2>1, DependsOn
    <3>2. DependenciesDone(p, <<"Compute", c, y>>)
      BY <1>1, <1>2, <2>2, LiveTask
    <3> QED
      BY <3>1, <3>2 DEF DependenciesDone
  <2>4. EarlierDone(p, <<"Compute", b, y - 1>>)
    BY <2>2, <2>3 DEF IInv, InOrder, Started
  <2>5. x = y - 1 \/ x \in 0..(y - 1 - 1)
    BY <1>2, <2>1
  <2>6. <<"Compute", b, x>> \in finished[p]
    BY <2>3, <2>4, <2>5 DEF EarlierDone
  <2> QED
    BY <1>1, <1>2, <2>2, <2>6, LiveTask
<1> QED
  BY <1>1, <1>2

\* Tasks run in the phase of solve that launches them.
LEMMA PhaseOfLive ==
  ASSUME IInv, NEW p \in Process, NEW t \in GraphTask \cup ResidualTask, IsLive(p, t)
  PROVE  /\ t[1] = "Residual" => t \in ResidualTask /\ phase[p] = "residual"
         /\ t[1] # "Residual" => t \in GraphTask
         /\ t[1] \in {"Compute", "Pack", "Unpack"} => phase[p] = "solve"
<1>1. t \in GraphTask => t[1] \in Kind
  BY GraphTasks
<1>2. t \in ResidualTask => t[1] = "Residual"
  BY DEF ResidualTask
<1>3. t \in DOMAIN progress[p] => t[1] \in {"Send", "Receive"}
  BY DEF IInv, InOrder
<1>4. MayStart(p, t) => phase[p] = PhaseOf(t)
  BY DEF MayStart
<1> QED
  BY <1>1, <1>2, <1>3, <1>4 DEF IsLive, PhaseOf, Kind

\* What a task may write, in the terms of the decomposition,
LEMMA WritesOf ==
  ASSUME NEW g, InUse(g), NEW p \in Process, NEW t, t[2] \in Local, NEW x \in Writes(p, t)
  PROVE  \/ t[1] = "Compute" /\ \E c \in grid.inside[t[2]] : x = <<"array", NextArray(t[3]), c>>
         \/ t[1] = "Pack" /\ \E f : x = <<"pack", t[2], f>>
         \/ t[1] = "Receive" /\ \E f : x = <<"token", t[2], f>>
         \/ t[1] = "Unpack" /\ \E f \in Faces : \E c : /\ AtEdge(g, t[2], f) /\ GhostCell(g, t[2], f, c)
                                                   /\ x = <<"array", NextArray(t[3]), c>>
<1>1. CASE t[1] = "Compute"
  BY <1>1 DEF Writes, InArray
<1>2. CASE t[1] = "Pack"
  BY <1>2 DEF Writes, Slot
<1>3. CASE t[1] = "Receive"
  BY <1>3 DEF Writes, Slot
<1>4. CASE t[1] = "Unpack"
  <2>1. x \in InArray(NextArray(t[3]), Layers(grid.ghost, t[2], Remote(p, t[2])))
    BY <1>4 DEF Writes
  <2> QED
    BY <1>4, <2>1, UnpackWrites
<1> QED
  BY <1>1, <1>2, <1>3, <1>4 DEF Writes

\* and what it may read.
LEMMA ReadsOf ==
  ASSUME NEW g, InUse(g), NEW p \in Process, NEW t, t[2] \in Local, NEW x \in Reads(p, t)
  PROVE  \/ t[1] = "Compute" /\ \E c \in grid.inside[t[2]] : \E d \in grid.stencil[c] :
                                   x = <<"array", ThisArray(t[3]), d>>
         \/ t[1] = "Pack" /\ \E c \in grid.inside[t[2]] : x = <<"array", NextArray(t[3]), c>>
         \/ t[1] = "Send" /\ \E f : x = <<"pack", t[2], f>>
         \/ t[1] = "Unpack" /\ \E f : x = <<"token", t[2], f>>
         \/ t[1] = "Residual" /\ \E c \in grid.inside[t[2]] : x = <<"array", nIters % 2, c>>
<1>1. CASE t[1] = "Compute"
  BY <1>1 DEF Reads, InArray
<1>2. CASE t[1] = "Pack"
  <2>1. x \in InArray(NextArray(t[3]), Layers(grid.own, t[2], Remote(p, t[2])))
    BY <1>2 DEF Reads
  <2> QED
    BY <1>2, <2>1, PackReads
<1>3. CASE t[1] \in {"Send", "Unpack"}
  BY <1>3 DEF Reads, Slot
<1>4. CASE t[1] = "Residual"
  BY <1>4 DEF Reads, InArray
<1> QED
  BY <1>1, <1>2, <1>3, <1>4 DEF Reads

\* No two tasks of a process that may run together touch the same memory.
LEMMA NoRace ==
  ASSUME IInv, NEW p \in Process, phase[p] \in {"solve", "residual"},
         NEW t \in GraphTask \cup ResidualTask, NEW u \in GraphTask \cup ResidualTask,
         IsLive(p, t), IsLive(p, u), t # u,
         NEW x \in Writes(p, t), x \in Reads(p, u) \cup Writes(p, u)
  PROVE  FALSE
<1>1. PICK g \in Geometries : grid = Initialized(g)
  BY DEF IInv, GridOK
<1>2. WellFormed
  BY DEF IInv, GridOK
<1>3. InUse(g) /\ Decomposed(g)
  BY <1>1, <1>2 DEF InUse, Decomposed, WellFormed, Initialized
<1> DEFINE k == t[1]
           l == t[2]
           i == t[3]
           h == u[1]
           m == u[2]
           j == u[3]
<1>4. l \in Local /\ m \in Local
  BY DEF GraphTask, ResidualTask
<1>5. nIters \in Nat
  BY IterationsAreNat
<1>6. /\ k # "Residual" => t \in GraphTask
      /\ h # "Residual" => u \in GraphTask
      /\ k \in {"Compute", "Pack", "Unpack"} => phase[p] = "solve"
      /\ h \in {"Compute", "Pack", "Unpack"} => phase[p] = "solve"
      /\ k = "Residual" => phase[p] = "residual"
      /\ h = "Residual" => phase[p] = "residual"
  BY PhaseOfLive
<1>7. /\ k # "Residual" => t = <<k, l, i>> /\ i \in Iteration /\ i \in Nat /\ k \in Kind
      /\ h # "Residual" => u = <<h, m, j>> /\ j \in Iteration /\ j \in Nat /\ h \in Kind
  BY <1>5, <1>6, GraphTasks DEF Iteration
\* What t writes, and what u touches.
<1>8. \/ k = "Compute" /\ \E c \in grid.inside[l] : x = <<"array", NextArray(i), c>>
      \/ k = "Pack" /\ \E f : x = <<"pack", l, f>>
      \/ k = "Receive" /\ \E f : x = <<"token", l, f>>
      \/ k = "Unpack" /\ \E f \in Faces : \E c : /\ AtEdge(g, l, f) /\ GhostCell(g, l, f, c)
                                             /\ x = <<"array", NextArray(i), c>>
  BY <1>3, <1>4, WritesOf
<1>9. x \in Writes(p, u) =>
        \/ h = "Compute" /\ \E c \in grid.inside[m] : x = <<"array", NextArray(j), c>>
        \/ h = "Pack" /\ \E f : x = <<"pack", m, f>>
        \/ h = "Receive" /\ \E f : x = <<"token", m, f>>
        \/ h = "Unpack" /\ \E f \in Faces : \E c : /\ AtEdge(g, m, f) /\ GhostCell(g, m, f, c)
                                               /\ x = <<"array", NextArray(j), c>>
  BY <1>3, <1>4, WritesOf
<1>10. x \in Reads(p, u) =>
         \/ h = "Compute" /\ \E c \in grid.inside[m] : \E d \in grid.stencil[c] :
                                x = <<"array", ThisArray(j), d>>
         \/ h = "Pack" /\ \E c \in grid.inside[m] : x = <<"array", NextArray(j), c>>
         \/ h = "Send" /\ \E f : x = <<"pack", m, f>>
         \/ h = "Unpack" /\ \E f : x = <<"token", m, f>>
         \/ h = "Residual" /\ \E c \in grid.inside[m] : x = <<"array", nIters % 2, c>>
  BY <1>3, <1>4, ReadsOf
<1>11. ~(k = h /\ l = m)
  <2> SUFFICES ASSUME k = h, l = m PROVE FALSE
    OBVIOUS
  <2>1. k # "Residual" /\ h # "Residual"
    BY <1>8
  <2> QED
    BY <1>6, <2>1, OneOfAKind
<1>12. Local = D(g)!Local /\ (\A b \in Local : grid.inside[b] = D(g)!Inside(b))
       /\ \A b \in Local : \A c \in D(g)!Inside(b) : grid.stencil[c] = D(g)!StencilOf(c)
  BY <1>1, Fields
<1>13. CASE k = "Compute"
  <2>1. PICK c \in grid.inside[l] : x = <<"array", NextArray(i), c>>
    BY <1>8, <1>13
  <2>2. h # "Residual" /\ k # "Residual"
    BY <1>6, <1>13
  <2>3. CASE h = "Compute"
    <3>1. l # m
      BY <1>11, <1>13, <2>3
    <3>2. c \notin grid.inside[m]
      BY <1>3, <1>4, <1>12, <3>1, BlocksApart
    <3>3. PICK d \in grid.inside[m] : c \in grid.stencil[d] /\ NextArray(i) = ThisArray(j)
      BY <1>9, <1>10, <2>1, <2>3, <3>2
    <3>4. l \in LocalNeighbors(p, m) /\ m \in LocalNeighbors(p, l)
      BY <1>3, <1>4, <3>1, <3>3, Reading
    <3>5. i = j
      BY <1>4, <1>7, <1>13, <2>2, <2>3, <3>4, NeighborsTogether
    <3> QED
      BY <1>7, <2>2, <3>3, <3>5 DEF NextArray, ThisArray
  <2>4. CASE h = "Pack"
    <3>1. l = m
      BY <1>3, <1>4, <1>9, <1>10, <1>12, <2>1, <2>4, BlocksApart
    <3> QED
      BY <1>4, <1>7, <1>13, <2>2, <2>4, <3>1, Alternate, DependsOn
  <2>5. CASE h = "Unpack"
    <3>1. PICK f \in Faces : AtEdge(g, m, f) /\ GhostCell(g, m, f, c)
      BY <1>9, <1>10, <2>1, <2>5
    <3> QED
      BY <1>3, <1>4, <1>12, <3>1, GhostNotInside
  <2> QED
    BY <1>9, <1>10, <2>1, <2>2, <2>3, <2>4, <2>5
<1>14. CASE k = "Pack"
  <2>1. PICK f : x = <<"pack", l, f>>
    BY <1>8, <1>14
  <2>2. h \in {"Pack", "Send"} /\ l = m
    BY <1>9, <1>10, <2>1
  <2>3. h = "Send"
    BY <1>11, <1>14, <2>2
  <2> QED
    BY <1>4, <1>7, <1>14, <2>2, <2>3, Alternate, DependsOn
<1>15. CASE k = "Receive"
  <2>1. PICK f : x = <<"token", l, f>>
    BY <1>8, <1>15
  <2>2. h \in {"Receive", "Unpack"} /\ l = m
    BY <1>9, <1>10, <2>1
  <2>3. h = "Unpack"
    BY <1>11, <1>15, <2>2
  <2> QED
    BY <1>4, <1>7, <1>15, <2>2, <2>3, Alternate, DependsOn
<1>16. CASE k = "Unpack"
  <2>1. PICK f \in Faces : \E c : /\ AtEdge(g, l, f) /\ GhostCell(g, l, f, c)
                                   /\ x = <<"array", NextArray(i), c>>
    BY <1>8, <1>16
  <2>2. PICK c : /\ AtEdge(g, l, f) /\ GhostCell(g, l, f, c)
                 /\ x = <<"array", NextArray(i), c>>
    BY <2>1
  <2>3. h # "Residual" /\ k # "Residual"
    BY <1>6, <1>16
  <2>4. c \notin grid.inside[m]
    BY <1>3, <1>4, <1>12, <2>2, GhostNotInside
  <2>5. CASE h = "Compute"
    <3>1. PICK b \in grid.inside[m] : c \in grid.stencil[b]
      BY <1>9, <1>10, <2>2, <2>4, <2>5
    <3>2. l = m
      BY <1>3, <1>4, <1>12, <2>2, <3>1, GhostRead
    <3> QED
      BY <1>4, <1>7, <1>16, <2>3, <2>5, <3>2, Alternate, DependsOn
  <2>6. CASE h = "Unpack"
    <3>1. PICK e \in Faces : AtEdge(g, m, e) /\ GhostCell(g, m, e, c)
      BY <1>9, <1>10, <2>2, <2>6
    <3>2. l = m
      BY <1>3, <1>4, <1>12, <2>2, <3>1, GhostsApart
    <3> QED
      BY <1>11, <1>16, <2>6, <3>2
  <2> QED
    BY <1>9, <1>10, <2>2, <2>3, <2>4, <2>5, <2>6
<1> QED
  BY <1>8, <1>13, <1>14, <1>15, <1>16

\* By cases on the kinds of the two tasks: one of them comes before the other.
LEMMA IInvImpliesRaceFree ==
  ASSUME IInv
  PROVE  RaceFree
BY NoRace DEF RaceFree

-----------------------------------------------------------------------------
\* The invariant of the order.

LEMMA SameGraph ==
  ASSUME grid' = grid
  PROVE  /\ Process' = Process /\ GraphTask' = GraphTask /\ ResidualTask' = ResidualTask
         /\ WellFormed' = WellFormed
         /\ \A p, t : Dependencies(p, t)' = Dependencies(p, t) /\ Added(t)' = Added(t)
<1>1. Process' = Process /\ Local' = Local /\ nIters' = nIters
  BY DEF Process, Local, nIters
<1>2. GraphTask' = GraphTask /\ ResidualTask' = ResidualTask
  BY <1>1 DEF GraphTask, ResidualTask, Iteration
<1>3. WellFormed' = WellFormed
  BY <1>1 DEF WellFormed
<1>4. ASSUME NEW t PROVE Added(t)' = Added(t)
  BY <1>1 DEF Added
<1>5. ASSUME NEW p, NEW t PROVE Dependencies(p, t)' = Dependencies(p, t)
  <2>1. \A l : LocalNeighbors(p, l)' = LocalNeighbors(p, l)
    BY DEF LocalNeighbors, Neighbor, Type
  <2> QED
    BY <2>1 DEF Dependencies, Before
<1> QED
  BY <1>1, <1>2, <1>3, <1>4, <1>5

\* A task more is started, and none that has finished is forgotten.
LEMMA TaskStarted ==
  ASSUME IInv, grid' = grid, phase' = phase, TypesOK', NEW p \in Process, NEW t,
         t \in Started(p) \/ MayStart(p, t),
         finished[p] \subseteq finished'[p], Started(p)' = Started(p) \cup {t},
         finished'[p] \cap DOMAIN progress'[p] = {},
         \A u \in DOMAIN progress'[p] :
           u \in GraphTask \cup ResidualTask => u[1] \in {"Send", "Receive"},
         \A q \in Process : q # p => finished'[q] = finished[q] /\ progress'[q] = progress[q]
  PROVE  IInv'
<1>1. GridOK'
  BY SameGraph DEF IInv, GridOK
<1>2. nIters \in Nat
  BY IterationsAreNat
<1>3. ASSUME NEW q \in Process, NEW u \in Started(q)' \cap GraphTask
      PROVE  (DependenciesDone(q, u) /\ EarlierDone(q, u))'
  <2>1. DependenciesDone(q, u) /\ EarlierDone(q, u)
    <3>1. CASE u \in Started(q)
      BY <1>3, <3>1 DEF IInv, InOrder
    <3>2. CASE u \notin Started(q)
      <4>1. q = p /\ u = t /\ MayStart(p, t)
        BY <1>3, <3>2 DEF Started
      <4>2. DependenciesDone(p, t)
        BY <4>1 DEF MayStart, DependenciesDone
      <4> QED
        BY <1>2, <1>3, <4>1, <4>2, StartsInOrder
    <3> QED
      BY <3>1, <3>2
  <2>2. finished[q] \subseteq finished'[q]
    OBVIOUS
  <2> QED
    BY <2>1, <2>2, SameGraph DEF DependenciesDone, EarlierDone
<1>4. InOrder'
  <2>1. ASSUME NEW q \in Process
        PROVE  /\ finished'[q] \cap DOMAIN progress'[q] = {}
               /\ \A u \in DOMAIN progress'[q] :
                    u \in GraphTask \cup ResidualTask => u[1] \in {"Send", "Receive"}
    BY DEF IInv, InOrder
  <2> QED
    BY <1>3, <2>1, SameGraph DEF InOrder
<1> QED
  BY <1>1, <1>4 DEF IInv

\* Every step of a task keeps the invariant,
LEMMA TakeStepKeeps ==
  ASSUME IInv, grid' = grid, phase' = phase, NEW p \in Process, NEW t, NEW steps,
         TakeStep(p, t, steps),
         t \in GraphTask \cup ResidualTask /\ t[1] \notin {"Send", "Receive"} => steps = 1
  PROVE  IInv'
<1> DEFINE n == StepsOf(p, t) + 1
<1>1. t \in Started(p) \/ MayStart(p, t)
  BY DEF TakeStep, IsLive, Started
<1>2. CASE n >= steps
  <2>1. /\ finished' = [finished EXCEPT ![p] = @ \cup {t}]
        /\ progress' = [progress EXCEPT ![p] = [u \in DOMAIN @ \ {t} |-> progress[p][u]]]
    BY <1>2 DEF TakeStep
  <2>2. /\ finished'[p] = finished[p] \cup {t} /\ DOMAIN progress'[p] = DOMAIN progress[p] \ {t}
        /\ \A q \in Process : q # p => finished'[q] = finished[q] /\ progress'[q] = progress[q]
    BY <2>1 DEF IInv, TypesOK
  <2>3. TypesOK'
    BY <2>1, SameGraph DEF IInv, TypesOK
  <2>4. Started(p)' = Started(p) \cup {t}
    BY <2>2 DEF Started
  <2>5. finished'[p] \cap DOMAIN progress'[p] = {}
    BY <2>2 DEF IInv, InOrder
  <2>6. \A u \in DOMAIN progress'[p] :
          u \in GraphTask \cup ResidualTask => u[1] \in {"Send", "Receive"}
    BY <2>2 DEF IInv, InOrder
  <2> QED
    BY <1>1, <2>2, <2>3, <2>4, <2>5, <2>6, TaskStarted
<1>3. CASE ~(n >= steps)
  <2>1. /\ finished' = finished
        /\ progress' = [progress EXCEPT ![p] =
             [u \in DOMAIN @ \cup {t} |-> IF u = t THEN n ELSE progress[p][u]]]
    BY <1>3 DEF TakeStep
  <2>2. /\ finished'[p] = finished[p] /\ DOMAIN progress'[p] = DOMAIN progress[p] \cup {t}
        /\ \A q \in Process : q # p => finished'[q] = finished[q] /\ progress'[q] = progress[q]
    BY <2>1 DEF IInv, TypesOK
  <2>3. TypesOK'
    BY <2>1, SameGraph DEF IInv, TypesOK
  <2>4. Started(p)' = Started(p) \cup {t}
    BY <2>2 DEF Started
  <2>5. finished'[p] \cap DOMAIN progress'[p] = {}
    <3>1. t \notin finished[p]
      BY DEF TakeStep, IsLive, MayStart, IInv, InOrder
    <3> QED
      BY <2>2, <3>1 DEF IInv, InOrder
  <2>6. ASSUME NEW u \in DOMAIN progress'[p], u \in GraphTask \cup ResidualTask
        PROVE  u[1] \in {"Send", "Receive"}
    <3>1. CASE u \in DOMAIN progress[p]
      BY <2>6, <3>1 DEF IInv, InOrder
    <3>2. CASE u \notin DOMAIN progress[p]
      <4>1. u = t /\ StepsOf(p, t) = 0
        BY <2>2, <3>2 DEF StepsOf
      <4> QED
        BY <1>3, <2>6, <4>1
    <3> QED
      BY <3>1, <3>2
  <2> QED
    BY <1>1, <2>2, <2>3, <2>4, <2>5, <2>6, TaskStarted
<1> QED
  BY <1>2, <1>3

\* the loss of a message at the end of a Receive does,
LEMMA LoseReceiveKeeps ==
  ASSUME IInv, NEW p \in Process, NEW l \in Local, NEW it \in Iteration, LoseReceive(p, l, it)
  PROVE  IInv'
<1> DEFINE t == <<"Receive", l, it>>
<1>1. /\ MayStart(p, t) /\ grid' = grid /\ phase' = phase /\ finished' = finished
      /\ progress' = [progress EXCEPT ![p] =
           [u \in DOMAIN @ \cup {t} |-> IF u = t THEN Lost ELSE progress[p][u]]]
  BY DEF LoseReceive
<1>2. /\ finished'[p] = finished[p] /\ DOMAIN progress'[p] = DOMAIN progress[p] \cup {t}
      /\ \A q \in Process : q # p => finished'[q] = finished[q] /\ progress'[q] = progress[q]
  <2> HIDE DEF t
  <2> QED
    BY <1>1 DEF IInv, TypesOK
<1>3. TypesOK'
  BY <1>1, SameGraph DEF IInv, TypesOK
<1>4. Started(p)' = Started(p) \cup {t}
  BY <1>2 DEF Started
<1>5. finished'[p] \cap DOMAIN progress'[p] = {}
  BY <1>1, <1>2 DEF IInv, InOrder, MayStart
<1>6. \A u \in DOMAIN progress'[p] :
        u \in GraphTask \cup ResidualTask => u[1] \in {"Send", "Receive"}
  BY <1>2 DEF IInv, InOrder
<1> QED
  BY <1>1, <1>2, <1>3, <1>4, <1>5, <1>6, TaskStarted

\* The steps of the main threads start no task.
LEMMA MainKeeps ==
  ASSUME IInv, grid' = grid, UNCHANGED <<finished, progress>>, DOMAIN phase' = DOMAIN phase,
         \A p \in Process : phase'[p] \notin {"launch", "aborted"} => WellFormed
  PROVE  IInv'
<1>1. GridOK'
  BY SameGraph DEF IInv, GridOK
<1>2. TypesOK'
  BY SameGraph DEF IInv, TypesOK
<1>3. InOrder'
  <2>1. \A p \in Process : Started(p)' = Started(p)
    BY DEF Started
  <2>2. \A p \in Process, t \in GraphTask : /\ DependenciesDone(p, t)' = DependenciesDone(p, t)
                                           /\ EarlierDone(p, t)' = EarlierDone(p, t)
    BY SameGraph DEF DependenciesDone, EarlierDone
  <2> QED
    BY <2>1, <2>2, SameGraph DEF IInv, InOrder
<1> QED
  BY <1>1, <1>2, <1>3 DEF IInv

\* The first state has it,
LEMMA InitIInv ==
  ASSUME Init
  PROVE  IInv
<1>1. PICK g \in Geometries : grid = Initialized(g)
  BY DEF Init, InitGrid
<1>2. phase = [p \in Process |-> "launch"] /\ finished = [p \in Process |-> {}]
      /\ progress = [p \in Process |-> <<>>]
  BY DEF Init, InitGrid, InitTaskR
<1>3. GridOK /\ TypesOK
  BY <1>1, <1>2 DEF GridOK, TypesOK
<1>4. \A p \in Process : finished[p] = {} /\ DOMAIN progress[p] = {}
  BY <1>2
<1>5. InOrder
  BY <1>4 DEF InOrder, Started
<1> QED
  BY <1>3, <1>5 DEF IInv

\* the steps between the phases of solve keep it,
LEMMA GotoKeeps ==
  ASSUME IInv, grid' = grid, UNCHANGED <<finished, progress>>,
         NEW p, NEW from, NEW to, Goto(p, from, to), from \notin {"launch", "aborted"},
         p \in Process \/ p = Root
  PROVE  IInv'
<1>1. phase[p] = from /\ phase' = [phase EXCEPT ![p] = to]
  BY DEF Goto
<1>2. CASE p \in Process
  <2>1. WellFormed
    BY <1>1, <1>2 DEF IInv, GridOK
  <2> QED
    BY <1>1, <2>1, MainKeeps
<1>3. CASE p \notin Process
  <2>1. \A q \in Process : phase'[q] = phase[q]
    BY <1>1, <1>3 DEF IInv, TypesOK
  <2>2. \A q \in Process : phase'[q] \notin {"launch", "aborted"} => WellFormed
    BY <2>1 DEF IInv, GridOK
  <2> QED
    BY <1>1, <2>2, MainKeeps
<1> QED
  BY <1>2, <1>3

\* so do all tasks,
LEMMA TaskKeeps ==
  ASSUME IInv, NEW p \in Process, RunsTask(p)
  PROVE  IInv'
<1>1. PICK l \in Local :
        \/ Reset(p, l) \/ Residual(p, l)
        \/ \E it \in Iteration :
             \/ Compute(p, l, it) \/ Pack(p, l, it) \/ Send(p, l, it)
             \/ Receive(p, l, it) \/ LoseReceive(p, l, it) \/ Unpack(p, l, it)
  BY DEF RunsTask
<1>2. CASE Reset(p, l)
  <2>1. <<"Reset", l, 0>> \notin GraphTask \cup ResidualTask
    BY DEF GraphTask, ResidualTask, Kind
  <2>2. TakeStep(p, <<"Reset", l, 0>>, 2) /\ grid' = grid /\ phase' = phase
    BY <1>2 DEF Reset
  <2> QED
    BY <2>1, <2>2, TakeStepKeeps
<1>3. CASE Residual(p, l)
  BY <1>3, TakeStepKeeps DEF Residual
<1>4. ASSUME NEW it \in Iteration, Compute(p, l, it) PROVE IInv'
  BY <1>4, TakeStepKeeps DEF Compute
<1>5. ASSUME NEW it \in Iteration, Pack(p, l, it) PROVE IInv'
  BY <1>5, TakeStepKeeps DEF Pack
<1>6. ASSUME NEW it \in Iteration, Send(p, l, it) PROVE IInv'
  <2>1. PICK n : TakeStep(p, <<"Send", l, it>>, n) /\ grid' = grid /\ phase' = phase
    BY <1>6 DEF Send
  <2> QED
    BY <2>1, TakeStepKeeps
<1>7. ASSUME NEW it \in Iteration, Receive(p, l, it) PROVE IInv'
  <2>1. PICK n : TakeStep(p, <<"Receive", l, it>>, n) /\ grid' = grid /\ phase' = phase
    BY <1>7 DEF Receive
  <2> QED
    BY <2>1, TakeStepKeeps
<1>8. ASSUME NEW it \in Iteration, LoseReceive(p, l, it) PROVE IInv'
  BY <1>8, LoseReceiveKeeps
<1>9. ASSUME NEW it \in Iteration, Unpack(p, l, it) PROVE IInv'
  BY <1>9, TakeStepKeeps DEF Unpack
<1> QED
  BY <1>1, <1>2, <1>3, <1>4, <1>5, <1>6, <1>7, <1>8, <1>9

\* and with them all steps.
LEMMA NextKeeps ==
  ASSUME IInv, [Next]_vars
  PROVE  IInv'
<1>1. CASE Initialize
  <2>1. WellFormed /\ phase' = [p \in Process |-> "reset"] /\ grid' = grid
        /\ UNCHANGED <<finished, progress>>
    BY <1>1 DEF Initialize, Collectively, taskrVars
  <2> QED
    BY <2>1, MainKeeps DEF IInv, TypesOK
<1>2. CASE AbortLaunch
  <2>1. phase' = [p \in Process |-> "aborted"] /\ grid' = grid /\ UNCHANGED <<finished, progress>>
    BY <1>2 DEF AbortLaunch, Abort, taskrVars
  <2> QED
    BY <2>1, MainKeeps DEF IInv, TypesOK
<1>3. ASSUME NEW p \in Process, RunsTask(p) PROVE IInv'
  BY <1>3, TaskKeeps
<1>4. ASSUME NEW p \in Process, RunsMain(p) PROVE IInv'
  <2>1. CASE AwaitReset(p)
    BY <2>1, GotoKeeps DEF AwaitReset, taskrVars
  <2>2. CASE AwaitSolution(p)
    BY <2>2, GotoKeeps DEF AwaitSolution, taskrVars
  <2>3. CASE AwaitResidual(p)
    BY <2>3, GotoKeeps DEF AwaitResidual, taskrVars
  <2>4. CASE PushResidual(p)
    BY <2>4, GotoKeeps DEF PushResidual
  <2> QED
    BY <1>4, <2>1, <2>2, <2>3, <2>4 DEF RunsMain
<1>5. CASE Report
  BY <1>5, GotoKeeps DEF Report, taskrVars
<1>6. CASE PopResidual \/ ReadResidual \/ UNCHANGED vars
  <2>1. UNCHANGED <<grid, phase, finished, progress>>
    BY <1>6 DEF PopResidual, ReadResidual, vars, taskrVars
  <2>2. \A p \in Process : phase[p] \notin {"launch", "aborted"} => WellFormed
    BY DEF IInv, GridOK
  <2> QED
    BY <2>1, <2>2, MainKeeps
<1> QED
  BY <1>1, <1>2, <1>3, <1>4, <1>5, <1>6 DEF Next

\* The scheduling invariant.
THEOREM JacobiInvariant == Spec => []IInv
<1>1. Init => IInv
  BY InitIInv
<1>2. IInv /\ [Next]_vars => IInv'
  BY NextKeeps
<1> QED
  BY <1>1, <1>2, PTL DEF Spec

(* Two tasks that may run at the same time touch no cell, pack buffer or token *)
(* that one of them writes: what the dependencies of jacobi3d.hpp:103-135 are  *)
(* for, in every iteration of every launch.                                    *)
THEOREM JacobiRaceFree == Spec => []RaceFree
<1>1. IInv => RaceFree
  BY IInvImpliesRaceFree
<1> QED
  BY <1>1, JacobiInvariant, PTL

(* The same as the run checks it, for the program over TaskR and the one over MPI. *)
THEOREM JacobiTasksAreRaceFree == MCSpec => []TasksAreRaceFree
<1> DEFINE I == version = "taskr" => IInv
<1>1. MCInit => I
  BY InitIInv DEF MCInit
<1>2. I /\ [MCNext]_allVars => I'
  <2> SUFFICES ASSUME I, [MCNext]_allVars PROVE I'
    OBVIOUS
  <2>1. CASE TaskRNext
    BY <2>1, NextKeeps DEF TaskRNext
  <2>2. CASE MPINext
    BY <2>2 DEF MPINext
  <2>3. CASE UNCHANGED allVars
    <3>1. UNCHANGED vars /\ version' = version
      BY <2>3 DEF allVars
    <3> QED
      BY <3>1, NextKeeps
  <2> QED
    BY <2>1, <2>2, <2>3 DEF MCNext
<1>3. I => TasksAreRaceFree
  BY IInvImpliesRaceFree DEF TasksAreRaceFree
<1> QED
  BY <1>1, <1>2, <1>3, PTL DEF MCSpec

-----------------------------------------------------------------------------
\* The invariant of the data.

\* Task k of block l has finished in iteration it.
Done(p, k, l, it) == <<k, l, it>> \in finished[p]

\* How many steps of a task of more than one are behind it.
Past(p, k, l, it, i) ==
  \/ Done(p, k, l, it)
  \/ <<k, l, it>> \in DOMAIN progress[p] /\ i <= progress[p][<<k, l, it>>]

\* A process that never starts a task.
Halted == {"launch", "aborted"}

\* In each phase only its tasks have been started, and all are reset before the graph runs.
PhasesOK ==
  \A p \in Process :
    /\ phase[p] \in Halted => Started(p) = {}
    /\ phase[p] = "reset" => \A t \in Started(p) : t[1] = "Reset"
    /\ phase[p] \notin Halted \cup {"reset"} => \A l \in Local : Done(p, "Reset", l, 0)
    /\ \A t \in Started(p) : t \in {"Reset"} \X Local \X {0} \/ t \in GraphTask \/ t \in ResidualTask

\* How far a task of several steps can be.
StepsOK ==
  \A p \in Process : \A t \in DOMAIN progress[p] :
    /\ t[1] = "Reset" => progress[p][t] = 1
    /\ t[1] = "Send" => progress[p][t] \in 1..(Len(Remote(p, t[2])) - 1)
    /\ t[1] = "Receive" => progress[p][t] \in {Lost} \cup 1..(Len(Remote(p, t[2])) - 1)

\* The arrays, tokens and channels are always the same.
MemoryOK ==
  /\ array = [p \in Process |-> array[p]]
  /\ \A p \in Process : array[p] = [b \in {0, 1} |-> array[p][b]]
  /\ unpackBuffer = [r \in RemoteFaces |-> unpackBuffer[r]]
  /\ channel = [c \in Channel |-> channel[c]]

\* Beyond the domain there is zero, unless a block is about to put it there.
Surrounded ==
  \A p \in Process : \A l \in Local : \A d \in grid.halo[l] : \A b \in {0, 1} :
    Global(p, d) \notin Domain /\ Done(p, "Reset", l, 0) =>
      \/ array[p][b][d] = Zero
      \/ \E m \in Local : <<"Reset", m, 0>> \in DOMAIN progress[p] /\ d \in grid.halo[m]

\* The cells that tasks of kind k give their value of iteration n.
Ghosts(p, l) ==
  UNION {{grid.ghost[<<l, f>>][o] : o \in DOMAIN grid.ghost[<<l, f>>]} :
           f \in {f \in Faces : Type(p, l, f) = "REMOTE"}}
CellsOf(p, l, k) == IF k = "Compute" THEN grid.inside[l] ELSE Ghosts(p, l)

\* The cells that task k writes for iteration n have their values of that iteration.
Holds(p, l, k, n) ==
  \A c \in CellsOf(p, l, k) : array[p][ThisArray(n)][c] = Value(Global(p, c), n)

\* They do from the task that writes them until the same task writes the same array again.
ArraysRight ==
  \A p \in Process : \A l \in Local : <<"Reset", l, 0>> \in Started(p) =>
    \A k \in {"Compute", "Unpack"} : \A n \in 0..nIters :
      (n = 0 \/ Done(p, k, l, n - 1)) /\ ~Done(p, k, l, n + 1) => Holds(p, l, k, n)

\* The cells of a block behind a face, as its neighbour needs them for iteration it.
Message(p, l, f, it) ==
  [o \in DOMAIN grid.own[<<l, f>>] |-> Value(Global(p, grid.own[<<l, f>>][o]), it + 1)]

\* A pack buffer holds that message from its Pack to the next one.
PacksRight ==
  \A p \in Process : \A l \in Local : \A it \in Iteration : \A f \in Faces :
    Type(p, l, f) = "REMOTE" /\ Done(p, "Pack", l, it) /\ ~Done(p, "Pack", l, it + 1) =>
      packBuffer[<<p, l, f>>] = Message(p, l, f, it)

\* What is in a channel: the messages sent and not yet freed.
Holding(p, l, f, i, s, r) ==
  LET q == Neighbor(p, l, f)[1]
      m == Neighbor(p, l, f)[2] IN
  /\ \A it \in Iteration : Past(p, "Send", l, it, i) <=> it < s
  /\ \A it \in Iteration : Done(q, "Unpack", m, it) <=> it < r
  /\ channel[ProducerEnd(p, l, f)] = [k \in 1..(s - r) |-> Message(p, l, f, r + k - 1)]

\* Every channel holds a window of the messages of its face, in order.
ChannelsRight ==
  \A p \in Process : \A l \in Local : \A i \in DOMAIN Remote(p, l) :
    \E s, r \in Nat : r <= s /\ Holding(p, l, Remote(p, l)[i], i, s, r)

\* A token that is received and not yet unpacked is the message of its iteration.
TokensRight ==
  \A q \in Process : \A m \in Local : \A j \in DOMAIN Remote(q, m) : \A it \in Iteration :
    LET g == Remote(q, m)[j] IN
    Past(q, "Receive", m, it, j) /\ ~Done(q, "Unpack", m, it) =>
      /\ channel[ConsumerEnd(q, m, g)] # <<>>
      /\ unpackBuffer[<<q, m, g>>] = Message(Neighbor(q, m, g)[1], Neighbor(q, m, g)[2], Opposite(g), it)

-----------------------------------------------------------------------------
\* Which cells and which channels belong together.

\* More of what initialize stores.
LEMMA MoreFields ==
  ASSUME NEW g, grid = Initialized(g)
  PROVE  /\ grid.N = g.N /\ grid.lt = g.lt /\ grid.cell = D(g)!Cell
         /\ \A p \in Process : grid.origin[p] = D(g)!GlobalCell(p, D(g)!Origin)
         /\ \A l \in Local : grid.halo[l] = D(g)!Halo(l) /\ grid.localId[l] = D(g)!Rank(g.lt, l)
         /\ \A p \in Process, l \in Local : grid.outside[<<p, l>>] = D(g)!Outside(p, l)
<1>1. Local = D(g)!Local /\ Process = D(g)!Process
  BY Fields
<1>2. grid.N = g.N /\ grid.lt = g.lt /\ grid.cell = D(g)!Cell
  BY DEF Initialized
<1>3. \A p \in Process : grid.origin[p] = D(g)!GlobalCell(p, D(g)!Origin)
  BY <1>1 DEF Initialized
<1>4. \A l \in Local : grid.halo[l] = D(g)!Halo(l) /\ grid.localId[l] = D(g)!Rank(g.lt, l)
  BY <1>1 DEF Initialized
<1>5. \A p \in Process, l \in Local : grid.outside[<<p, l>>] = D(g)!Outside(p, l)
  BY <1>1 DEF Initialized
<1> QED
  BY <1>2, <1>3, <1>4, <1>5

\* Where a cell of a process is in the domain.
LEMMA GlobalPlace ==
  ASSUME NEW g, InUse(g), NEW p \in Process, NEW c \in Int \X Int \X Int
  PROVE  /\ Global(p, c) = <<Coordinate(g, p, c, 1), Coordinate(g, p, c, 2), Coordinate(g, p, c, 3)>>
         /\ Global(p, c) \in Domain <=> InDomain(g, p, c)
<1>1. Decomposed(g) /\ p \in D(g)!Process /\ grid.N = g.N
      /\ grid.origin[p] = D(g)!GlobalCell(p, D(g)!Origin)
  BY Fields, MoreFields DEF InUse
<1>2. ASSUME NEW a \in 1..3
      PROVE  /\ grid.origin[p][a] + c[a] = Coordinate(g, p, c, a)
             /\ Coordinate(g, p, c, a) \in Int /\ g.N \in Int
  <2>1. D(g)!Axis = 1..3 /\ D(g)!Origin[a] = 0
    BY DEF D!Axis, D!X, D!Y, D!Z, D!Origin
  <2>2. D(g)!GlobalCell(p, D(g)!Origin)[a] = D(g)!pPos(p)[a] * D(g)!ps[a] + 0 - GhostDepth
    BY <2>1 DEF D!GlobalCell
  <2>3. D(g)!pPos(p)[a] \in Int /\ D(g)!ps[a] \in Int /\ GhostDepth \in Int /\ c[a] \in Int /\ g.N \in Int
    <3>1. D(g)!pPos(p) \in Positions(g.pt)
      BY <1>1, ProcessPosition DEF Decomposed
    <3>2. D(g)!pPos(p)[a] \in Int
      BY <3>1 DEF Positions
    <3> QED
      BY <1>1, <3>2, Sizes, GhostDepthAssumption
  <2>4. D(g)!pPos(p)[a] * D(g)!ps[a] \in Int
    BY <2>3
  <2> QED
    BY <1>1, <2>2, <2>3, <2>4 DEF Coordinate
<1>3. Global(p, c) = <<Coordinate(g, p, c, 1), Coordinate(g, p, c, 2), Coordinate(g, p, c, 3)>>
  BY <1>2 DEF Global
<1>4. Global(p, c) \in Domain <=> \A a \in 1..3 : Coordinate(g, p, c, a) \in 0..(g.N - 1)
  BY <1>1, <1>3 DEF Domain
<1>5. \A a \in 1..3 : Coordinate(g, p, c, a) \in 0..(g.N - 1)
                        <=> 0 <= Coordinate(g, p, c, a) /\ Coordinate(g, p, c, a) < g.N
  BY <1>2
<1> QED
  BY <1>3, <1>4, <1>5 DEF InDomain

\* Cells inside a block are in the domain.
LEMMA InsideKnown ==
  ASSUME NEW g, InUse(g), NEW p \in Process, NEW l \in Local, NEW c \in grid.inside[l]
  PROVE  Global(p, c) \in Domain /\ c \in grid.halo[l] /\ c \in grid.cell
<1>1. Decomposed(g) /\ p \in D(g)!Process /\ l \in D(g)!Local /\ c \in D(g)!Inside(l)
      /\ grid.halo[l] = D(g)!Halo(l) /\ grid.cell = D(g)!Cell
  BY Fields, MoreFields DEF InUse
<1>2. c \in Int \X Int \X Int
  BY <1>1, InsideCell
<1> QED
  BY <1>1, <1>2, InsideInDomain, GlobalPlace, HaloInCell

\* Cells of its halo are in the domain unless initialize counts them as outside.
LEMMA HaloKnown ==
  ASSUME NEW g, InUse(g), NEW p \in Process, NEW l \in Local, NEW d \in grid.halo[l]
  PROVE  d \in grid.cell /\ (d \in grid.outside[<<p, l>>] <=> Global(p, d) \notin Domain)
<1>1. Decomposed(g) /\ p \in D(g)!Process /\ l \in D(g)!Local /\ d \in D(g)!Halo(l)
      /\ grid.outside[<<p, l>>] = D(g)!Outside(p, l) /\ grid.cell = D(g)!Cell
  BY Fields, MoreFields DEF InUse
<1>2. d \in Int \X Int \X Int
  BY <1>1, HaloIsOfCells
<1> QED
  BY <1>1, <1>2, OutsideIff, GlobalPlace, HaloInCell

\* Those outside are of the halo.
LEMMA OutsideInHalo ==
  ASSUME NEW g, InUse(g), NEW p \in Process, NEW l \in Local
  PROVE  grid.outside[<<p, l>>] \subseteq grid.halo[l]
<1>1. grid.outside[<<p, l>>] = D(g)!Outside(p, l) /\ grid.halo[l] = D(g)!Halo(l)
  BY MoreFields DEF InUse
<1> QED
  BY <1>1 DEF D!Outside

\* What is behind a remote face.
LEMMA RemoteNeighbor ==
  ASSUME NEW g, InUse(g), NEW p \in Process, NEW l \in Local, NEW f \in Faces, Type(p, l, f) = "REMOTE",
         NEW q, NEW m, Neighbor(p, l, f) = <<q, m>>, NEW h, h = Opposite(f)
  PROVE  /\ q \in Process /\ m \in Local /\ h \in Faces /\ Opposite(h) = f
         /\ Type(q, m, h) = "REMOTE" /\ Neighbor(q, m, h) = <<p, l>>
<1>1. /\ Decomposed(g) /\ p \in D(g)!Process /\ l \in D(g)!Local /\ D(g)!Type(p, l, f) = "REMOTE"
      /\ q = D(g)!NeighborProcess(p, l, f) /\ m = D(g)!NeighborLPos(p, l, f)
  BY Fields DEF InUse
<1>2. /\ q \in D(g)!Process /\ m \in D(g)!Local /\ h \in Faces /\ Opposite(h) = f
      /\ D(g)!Type(q, m, h) = "REMOTE" /\ D(g)!NeighborProcess(q, m, h) = p
      /\ D(g)!NeighborLPos(q, m, h) = l
  BY <1>1, NeighborBack DEF Decomposed
<1>3. q \in Process /\ m \in Local /\ Type(q, m, h) = "REMOTE" /\ Neighbor(q, m, h) = <<p, l>>
  BY <1>2, Fields DEF InUse
<1> QED
  BY <1>2, <1>3

\* The layers of a remote face, and what is behind it.
LEMMA RemoteKnown ==
  ASSUME NEW g, InUse(g), NEW p \in Process, NEW l \in Local, NEW f \in Faces, Type(p, l, f) = "REMOTE",
         NEW q, NEW m, Neighbor(p, l, f) = <<q, m>>, NEW h, h = Opposite(f)
  PROVE  /\ q \in Process /\ m \in Local /\ h \in Faces /\ Opposite(h) = f
         /\ Type(q, m, h) = "REMOTE" /\ Neighbor(q, m, h) = <<p, l>>
         /\ AtEdge(g, l, f)
         /\ DOMAIN grid.ghost[<<l, f>>] = DOMAIN grid.own[<<m, h>>]
         /\ \A o \in DOMAIN grid.ghost[<<l, f>>] :
              /\ GhostCell(g, l, f, grid.ghost[<<l, f>>][o])
              /\ grid.own[<<m, h>>][o] \in grid.inside[m]
              /\ Global(p, grid.ghost[<<l, f>>][o]) = Global(q, grid.own[<<m, h>>][o])
<1>1. /\ Decomposed(g) /\ p \in D(g)!Process /\ l \in D(g)!Local /\ D(g)!Type(p, l, f) = "REMOTE"
      /\ q = D(g)!NeighborProcess(p, l, f) /\ m = D(g)!NeighborLPos(p, l, f)
  BY Fields DEF InUse
<1>2. /\ q \in D(g)!Process /\ m \in D(g)!Local /\ h \in Faces /\ Opposite(h) = f
      /\ D(g)!Type(q, m, h) = "REMOTE" /\ D(g)!NeighborProcess(q, m, h) = p
      /\ D(g)!NeighborLPos(q, m, h) = l
  BY <1>1, NeighborBack DEF Decomposed
<1>3. q \in Process /\ m \in Local /\ Type(q, m, h) = "REMOTE" /\ Neighbor(q, m, h) = <<p, l>>
  BY <1>2, Fields DEF InUse
<1>4. /\ grid.ghost[<<l, f>>] = [o \in D(g)!Offset(f) |-> D(g)!Plus(D(g)!GhostLayer(l, f), o)]
      /\ grid.own[<<m, h>>] = [o \in D(g)!Offset(h) |-> D(g)!Plus(D(g)!OwnLayer(m, h), o)]
  <2>1. grid = Initialized(g)
    BY DEF InUse
  <2>2. \A b \in Local, e \in Faces :
          /\ grid.own[<<b, e>>] = [o \in D(g)!Offset(e) |-> D(g)!Plus(D(g)!OwnLayer(b, e), o)]
          /\ grid.ghost[<<b, e>>] = [o \in D(g)!Offset(e) |-> D(g)!Plus(D(g)!GhostLayer(b, e), o)]
    BY ONLY <2>1, Fields
  <2> QED
    BY <1>2, <1>3, <2>2
<1>5. D(g)!Offset(f) = D(g)!Offset(h)
  BY DEF D!Offset, Opposite
<1>6. AtEdge(g, l, f)
  BY <1>1, RemoteAtEdge
<1>7. ASSUME NEW o \in D(g)!Offset(f)
      PROVE  /\ GhostCell(g, l, f, grid.ghost[<<l, f>>][o])
             /\ grid.own[<<m, h>>][o] \in grid.inside[m]
             /\ Global(p, grid.ghost[<<l, f>>][o]) = Global(q, grid.own[<<m, h>>][o])
  <2> DEFINE c == D(g)!Plus(D(g)!GhostLayer(l, f), o)
             d == D(g)!Plus(D(g)!OwnLayer(m, h), o)
  <2>1. grid.ghost[<<l, f>>][o] = c /\ grid.own[<<m, h>>][o] = d
    BY <1>4, <1>5
  <2>2. GhostCell(g, l, f, c) /\ OwnCell(g, m, h, d)
    BY <1>5 DEF GhostCell, OwnCell
  <2>3. \A a \in 1..3 : Coordinate(g, p, c, a) = Coordinate(g, q, d, a)
    BY <1>1, SamePlace
  <2> HIDE DEF c, d
  <2>4. d \in D(g)!Inside(m)
    BY <1>1, <1>2, <2>2, OwnCellInside
  <2>5. c \in Int \X Int \X Int /\ d \in Int \X Int \X Int
    BY <1>1, <1>2, <2>2, <2>4, LayerCell, InsideCell
  <2>6. Global(p, c) = Global(q, d)
    BY <1>3, <2>3, <2>5, GlobalPlace
  <2> QED
    BY <1>3, <2>1, <2>2, <2>4, <2>6, Fields DEF InUse
<1> QED
  BY <1>2, <1>3, <1>4, <1>5, <1>6, <1>7

\* Cell c is one that Unpack writes for face f.
IsGhost(p, l, f, c) ==
  Type(p, l, f) = "REMOTE" /\ \E o \in DOMAIN grid.ghost[<<l, f>>] : c = grid.ghost[<<l, f>>][o]
LEMMA GhostsOfBlock ==
  ASSUME NEW p, NEW l, NEW c
  PROVE  c \in Ghosts(p, l) <=> \E f \in Faces : IsGhost(p, l, f, c)
<1> DEFINE S == {f \in Faces : Type(p, l, f) = "REMOTE"}
           At(f) == {grid.ghost[<<l, f>>][o] : o \in DOMAIN grid.ghost[<<l, f>>]}
<1>1. Ghosts(p, l) = UNION {At(f) : f \in S}
  BY DEF Ghosts
<1>2. \A f : c \in At(f) <=> \E o \in DOMAIN grid.ghost[<<l, f>>] : c = grid.ghost[<<l, f>>][o]
  OBVIOUS
<1> HIDE DEF At
<1>3. c \in UNION {At(f) : f \in S} <=> \E f \in S : c \in At(f)
  OBVIOUS
<1>4. \A f : c \in At(f) /\ f \in S <=> IsGhost(p, l, f, c) /\ f \in Faces
  BY <1>2 DEF IsGhost
<1> QED
  BY <1>1, <1>3, <1>4

\* Two blocks share no cell,
LEMMA ApartKnown ==
  ASSUME NEW g, InUse(g), NEW l \in Local, NEW m \in Local, l # m
  PROVE  grid.inside[l] \cap grid.inside[m] = {}
<1>1. Decomposed(g) /\ l \in D(g)!Local /\ m \in D(g)!Local
      /\ grid.inside[l] = D(g)!Inside(l) /\ grid.inside[m] = D(g)!Inside(m)
  BY Fields DEF InUse
<1> QED
  BY <1>1, BlocksApart

\* no ghost cell is inside a block nor the ghost cell of another one,
LEMMA GhostKnown ==
  ASSUME NEW g, InUse(g), NEW p \in Process, NEW l \in Local, NEW c \in Ghosts(p, l)
  PROVE  /\ Global(p, c) \in Domain /\ c \in grid.halo[l] /\ c \in grid.cell
         /\ \A m \in Local : /\ c \notin grid.inside[m]
                             /\ c \in Ghosts(p, m) => l = m
<1>1. PICK f \in Faces : IsGhost(p, l, f, c)
  BY GhostsOfBlock
<1>2. ASSUME NEW m \in Local, NEW e \in Faces, IsGhost(p, m, e, c)
      PROVE  AtEdge(g, m, e) /\ GhostCell(g, m, e, c) /\ Global(p, c) \in Domain
  <2>1. PICK x \in DOMAIN grid.ghost[<<m, e>>] : c = grid.ghost[<<m, e>>][x]
    BY <1>2 DEF IsGhost
  <2>2. Type(p, m, e) = "REMOTE"
    BY <1>2 DEF IsGhost
  <2> DEFINE h == Opposite(e)
             q == Neighbor(p, m, e)[1]
             n == Neighbor(p, m, e)[2]
  <2>3. Neighbor(p, m, e) = <<q, n>>
    BY Fields DEF InUse
  <2> HIDE DEF h, q, n
  <2>4. h = Opposite(e)
    BY DEF h
  <2>5. /\ q \in Process /\ n \in Local /\ AtEdge(g, m, e)
        /\ GhostCell(g, m, e, grid.ghost[<<m, e>>][x])
        /\ grid.own[<<n, h>>][x] \in grid.inside[n]
        /\ Global(p, grid.ghost[<<m, e>>][x]) = Global(q, grid.own[<<n, h>>][x])
    BY <2>2, <2>3, <2>4, RemoteKnown
  <2> QED
    BY <2>1, <2>5, InsideKnown
<1>3. AtEdge(g, l, f) /\ GhostCell(g, l, f, c) /\ Global(p, c) \in Domain
  BY <1>1, <1>2
<1>4. Decomposed(g) /\ l \in D(g)!Local /\ grid.halo[l] = D(g)!Halo(l)
      /\ (\A m \in Local : m \in D(g)!Local /\ grid.inside[m] = D(g)!Inside(m))
  BY Fields, MoreFields DEF InUse
<1>5. c \in grid.halo[l] /\ c \in grid.cell
  <2>1. c \in grid.halo[l]
    BY <1>3, <1>4, GhostInHalo
  <2> QED
    BY <2>1, HaloKnown
<1>6. ASSUME NEW m \in Local, c \in grid.inside[m] PROVE FALSE
  BY <1>3, <1>4, <1>6, GhostNotInside
<1>7. ASSUME NEW m \in Local, c \in Ghosts(p, m) PROVE l = m
  <2>1. PICK e \in Faces : IsGhost(p, m, e, c)
    BY <1>7, GhostsOfBlock
  <2>2. AtEdge(g, m, e) /\ GhostCell(g, m, e, c)
    BY <1>2, <2>1
  <2> QED
    BY <1>3, <1>4, <2>2, GhostsApart
<1> QED
  BY <1>3, <1>5, <1>6, <1>7

\* and what Compute reads is outside, a ghost cell, or inside its block or a neighbour.
LEMMA StencilKnown ==
  ASSUME NEW g, InUse(g), NEW p \in Process, NEW l \in Local, NEW c \in grid.inside[l],
         NEW d \in grid.stencil[c]
  PROVE  /\ d \in grid.halo[l]
         /\ \/ Global(p, d) \notin Domain
            \/ d \in Ghosts(p, l)
            \/ \E m \in Local : /\ d \in grid.inside[m]
                                /\ \/ m = l
                                   \/ m \in LocalNeighbors(p, l) /\ l \in LocalNeighbors(p, m)
<1>1. Decomposed(g) /\ p \in D(g)!Process /\ l \in D(g)!Local /\ grid.halo[l] = D(g)!Halo(l)
      /\ (\A m \in D(g)!Local : m \in Local /\ grid.inside[m] = D(g)!Inside(m))
      /\ c \in D(g)!Inside(l) /\ d \in D(g)!StencilOf(c)
  BY Fields, MoreFields DEF InUse
<1>2. /\ d \in D(g)!Halo(l)
      /\ \/ \E m \in D(g)!Local : d \in D(g)!Inside(m)
         \/ \E f \in Faces : AtEdge(g, l, f) /\ GhostCell(g, l, f, d)
  BY <1>1, StencilCovered
<1>3. ASSUME NEW m \in D(g)!Local, d \in D(g)!Inside(m)
      PROVE  \E n \in Local : /\ d \in grid.inside[n]
                              /\ \/ n = l
                                 \/ n \in LocalNeighbors(p, l) /\ l \in LocalNeighbors(p, n)
  <2>1. m \in Local /\ d \in grid.inside[m]
    BY <1>1, <1>3
  <2>2. l # m => m \in LocalNeighbors(p, l) /\ l \in LocalNeighbors(p, m)
    BY <2>1, Reading
  <2> QED
    BY <2>1, <2>2
<1>4. ASSUME NEW f \in Faces, AtEdge(g, l, f), GhostCell(g, l, f, d)
      PROVE  Global(p, d) \notin Domain \/ d \in Ghosts(p, l)
  <2>1. Type(p, l, f) = D(g)!Type(p, l, f)
    BY Fields DEF InUse
  <2>2. Type(p, l, f) \in {"REMOTE", "BOUNDARY"}
    BY <1>4, <2>1 DEF D!Type, AtEdge, D!lt
  <2>3. CASE Type(p, l, f) = "BOUNDARY"
    <3>1. ~InDomain(g, p, d)
      BY <1>1, <1>4, <2>1, <2>3, BoundaryGhost
    <3>2. d \in Int \X Int \X Int
      BY <1>1, <1>4, LayerCell
    <3> QED
      BY <3>1, <3>2, GlobalPlace
  <2>4. CASE Type(p, l, f) = "REMOTE"
    <3>1. grid.ghost[<<l, f>>] = [o \in D(g)!Offset(f) |-> D(g)!Plus(D(g)!GhostLayer(l, f), o)]
      <4>1. grid = Initialized(g)
        BY DEF InUse
      <4> QED
        BY <4>1, GhostField
    <3>2. PICK o \in D(g)!Offset(f) : d = D(g)!Plus(D(g)!GhostLayer(l, f), o)
      BY <1>4 DEF GhostCell
    <3>3. o \in DOMAIN grid.ghost[<<l, f>>] /\ d = grid.ghost[<<l, f>>][o]
      BY <3>1, <3>2
    <3> QED
      BY <2>4, <3>3, GhostsOfBlock DEF IsGhost
  <2> QED
    BY <2>2, <2>3, <2>4
<1> QED
  BY <1>1, <1>2, <1>3, <1>4

\* A sequence that has each element of S once.
Listed(s, S) ==
  /\ s \in Seq(S)
  /\ \A x \in S : \E i \in 1..Len(s) : s[i] = x
  /\ \A i, j \in 1..Len(s) : s[i] = s[j] => i = j

\* Listings of disjoint sets can be joined.
LEMMA Concatenated ==
  ASSUME NEW S, NEW T, S \cap T = {}, NEW s, NEW t, Listed(s, S), Listed(t, T)
  PROVE  Listed(s \o t, S \cup T)
<1>1. s \in Seq(S) /\ t \in Seq(T) /\ s \in Seq(S \cup T) /\ t \in Seq(S \cup T)
  BY DEF Listed
<1>2. /\ s \o t \in Seq(S \cup T) /\ Len(s \o t) = Len(s) + Len(t) /\ Len(s) \in Nat /\ Len(t) \in Nat
      /\ \A i \in 1..Len(s) + Len(t) : (s \o t)[i] = IF i <= Len(s) THEN s[i] ELSE t[i - Len(s)]
  BY <1>1
<1>3. /\ \A i \in 1..Len(s) : (s \o t)[i] = s[i] /\ s[i] \in S
      /\ \A i \in 1..Len(t) : (s \o t)[Len(s) + i] = t[i] /\ t[i] \in T
  BY <1>1, <1>2
<1>4. ASSUME NEW x \in S \cup T PROVE \E i \in 1..Len(s) + Len(t) : (s \o t)[i] = x
  <2>1. CASE x \in S
    <3>1. PICK i \in 1..Len(s) : s[i] = x
      BY <2>1 DEF Listed
    <3> QED
      BY <1>2, <1>3, <3>1
  <2>2. CASE x \in T
    <3>1. PICK i \in 1..Len(t) : t[i] = x
      BY <2>2 DEF Listed
    <3>2. Len(s) + i \in 1..Len(s) + Len(t)
      BY <1>2
    <3> QED
      BY <1>3, <3>1, <3>2
  <2> QED
    BY <2>1, <2>2
<1>5. ASSUME NEW i \in 1..Len(s) + Len(t), NEW j \in 1..Len(s) + Len(t), (s \o t)[i] = (s \o t)[j]
      PROVE  i = j
  <2>1. ASSUME NEW k \in 1..Len(s) + Len(t)
        PROVE  \/ k \in 1..Len(s) /\ (s \o t)[k] = s[k] /\ s[k] \in S
               \/ /\ k - Len(s) \in 1..Len(t) /\ ~(k <= Len(s))
                  /\ (s \o t)[k] = t[k - Len(s)] /\ t[k - Len(s)] \in T
    BY <1>1, <1>2
  <2>2. CASE i <= Len(s) /\ j <= Len(s)
    BY <1>2, <1>5, <2>1, <2>2 DEF Listed
  <2>3. CASE ~(i <= Len(s)) /\ ~(j <= Len(s))
    <3> DEFINE u == i - Len(s)
               v == j - Len(s)
    <3>1. u \in 1..Len(t) /\ v \in 1..Len(t) /\ t[u] = t[v]
      BY <1>2, <1>5, <2>1, <2>3
    <3>2. \A x, y \in 1..Len(t) : t[x] = t[y] => x = y
      BY DEF Listed
    <3>3. u = v
      <4> HIDE DEF u, v
      <4> QED
        BY <3>1, <3>2
    <3> QED
      BY <1>2, <3>3
  <2> QED
    BY <1>2, <1>5, <2>1, <2>2, <2>3
<1> QED
  BY <1>2, <1>4, <1>5 DEF Listed

\* The loops over the remote faces visit each of them once.
LEMMA RemoteListed ==
  ASSUME NEW g, NEW p, NEW l
  PROVE  Listed(D(g)!RemoteFaces(p, l), {f \in Faces : D(g)!Type(p, l, f) = "REMOTE"})
<1> DEFINE R(i) == D(g)!Type(p, l, D(g)!Face[i]) = "REMOTE"
           S(i) == IF R(i) THEN {D(g)!Face[i]} ELSE {}
           At(i) == IF R(i) THEN <<D(g)!Face[i]>> ELSE <<>>
           T == {f \in Faces : D(g)!Type(p, l, f) = "REMOTE"}
<1>1. ASSUME NEW i \in 1..6 PROVE Listed(At(i), S(i))
  <2>1. CASE R(i)
    <3>1. At(i) = <<D(g)!Face[i]>> /\ S(i) = {D(g)!Face[i]}
      BY <2>1
    <3> HIDE DEF At, S
    <3> QED
      BY <3>1 DEF Listed
  <2>2. CASE ~R(i)
    <3>1. At(i) = <<>> /\ S(i) = {}
      BY <2>2
    <3> HIDE DEF At, S
    <3> QED
      BY <3>1 DEF Listed
  <2> QED
    BY <2>1, <2>2
<1>2. ASSUME NEW i \in 1..6, NEW j \in 1..6, i # j PROVE S(i) \cap S(j) = {}
  <2>1. D(g)!Face[i] # D(g)!Face[j]
    BY <1>2 DEF D!Face, D!X, D!Y, D!Z
  <2> QED
    BY <2>1
<1>3. D(g)!RemoteFaces(p, l) = At(1) \o At(2) \o At(3) \o At(4) \o At(5) \o At(6)
  BY DEF D!RemoteFaces
<1>4. T = S(1) \cup S(2) \cup S(3) \cup S(4) \cup S(5) \cup S(6)
  <2>1. D(g)!Faces = Faces
    BY FacesAreFaces
  <2>2. D(g)!Faces = {D(g)!Face[i] : i \in 1..6}
    BY DEF D!Faces
  <2>3. ASSUME NEW f PROVE f \in T <=> \E i \in 1..6 : f \in S(i)
    BY <2>1, <2>2
  <2>4. 1..6 = {1, 2, 3, 4, 5, 6}
    OBVIOUS
  <2> HIDE DEF T, S
  <2> QED
    BY <2>3, <2>4
<1> HIDE DEF R, S, At, T
<1>5. Listed(At(1) \o At(2), S(1) \cup S(2))
  BY <1>1, <1>2, Concatenated
<1>6. Listed(At(1) \o At(2) \o At(3), S(1) \cup S(2) \cup S(3))
  <2>1. (S(1) \cup S(2)) \cap S(3) = {}
    BY <1>2
  <2> QED
    BY <1>1, <1>5, <2>1, Concatenated
<1>7. Listed(At(1) \o At(2) \o At(3) \o At(4), S(1) \cup S(2) \cup S(3) \cup S(4))
  <2>1. (S(1) \cup S(2) \cup S(3)) \cap S(4) = {}
    BY <1>2
  <2> QED
    BY <1>1, <1>6, <2>1, Concatenated
<1>8. Listed(At(1) \o At(2) \o At(3) \o At(4) \o At(5), S(1) \cup S(2) \cup S(3) \cup S(4) \cup S(5))
  <2>1. (S(1) \cup S(2) \cup S(3) \cup S(4)) \cap S(5) = {}
    BY <1>2
  <2> QED
    BY <1>1, <1>7, <2>1, Concatenated
<1>9. Listed(At(1) \o At(2) \o At(3) \o At(4) \o At(5) \o At(6),
             S(1) \cup S(2) \cup S(3) \cup S(4) \cup S(5) \cup S(6))
  <2>1. (S(1) \cup S(2) \cup S(3) \cup S(4) \cup S(5)) \cap S(6) = {}
    BY <1>2
  <2> QED
    BY <1>1, <1>8, <2>1, Concatenated
<1> QED
  BY <1>3, <1>4, <1>9 DEF T
LEMMA RemoteFacesListed ==
  ASSUME NEW g, InUse(g), NEW p \in Process, NEW l \in Local
  PROVE  Listed(Remote(p, l), {f \in Faces : Type(p, l, f) = "REMOTE"})
<1>1. Remote(p, l) = D(g)!RemoteFaces(p, l) /\ \A f \in Faces : Type(p, l, f) = D(g)!Type(p, l, f)
  BY Fields DEF InUse
<1>2. {f \in Faces : Type(p, l, f) = "REMOTE"} = {f \in Faces : D(g)!Type(p, l, f) = "REMOTE"}
  BY <1>1
<1> QED
  BY <1>1, <1>2, RemoteListed

\* Two blocks have different channel keys,
LEMMA KeysApart ==
  ASSUME NEW g, InUse(g), NEW p \in Process, NEW l \in Local, NEW q \in Process, NEW m \in Local,
         NEW k \in {0, 1, 2}, Key(p, l, k) = Key(q, m, k)
  PROVE  p = q /\ l = m
<1> DEFINE s == g.lt
           n == s[1] * s[2] * s[3]
           x == D(g)!Rank(s, l)
           v == D(g)!Rank(s, m)
<1>1. Decomposed(g) /\ g \in Geometries /\ grid.lt = g.lt /\ grid.localId[l] = x /\ grid.localId[m] = v
      /\ Local = D(g)!Local /\ Process = D(g)!Process
  BY Fields, MoreFields DEF InUse, Decomposed
<1>2. Shape(s) /\ l \in Positions(s) /\ m \in Positions(s) /\ p \in Nat /\ q \in Nat
  <2>1. /\ Shape(g.pt) /\ Shape(s) /\ D(g)!Local = Positions(s)
        /\ D(g)!Process = 0..(g.pt[1] * g.pt[2] * g.pt[3] - 1)
    BY <1>1, Shapes
  <2>2. g.pt[1] \in Nat /\ g.pt[2] \in Nat /\ g.pt[3] \in Nat
    BY <2>1 DEF Shape
  <2>3. g.pt[1] * g.pt[2] * g.pt[3] \in Nat
    BY <2>2
  <2> QED
    BY <1>1, <2>1, <2>3
<1>3. n \in Nat /\ x \in 0..(n - 1) /\ v \in 0..(n - 1)
  <2>1. s[1] \in Nat /\ s[2] \in Nat /\ s[3] \in Nat
    BY <1>2 DEF Shape
  <2>2. x \in 0..(n - 1) /\ v \in 0..(n - 1)
    BY <1>2, RankRange
  <2> QED
    BY <2>1, <2>2
<1>4. Key(p, l, k) = 3 * (p * n + x) + k /\ Key(q, m, k) = 3 * (q * n + v) + k
  BY <1>1 DEF Key
<1>5. p * n + x = q * n + v
  <2> DEFINE a == p * n
             b == q * n
  <2>1. a \in Nat /\ b \in Nat
    BY <1>2, <1>3
  <2>2. 3 * (a + x) + k = 3 * (b + v) + k
    BY <1>4
  <2> HIDE DEF a, b, x, v, n, s
  <2>3. x \in Nat /\ v \in Nat
    BY <1>3
  <2>4. a + x = b + v
    BY <2>1, <2>2, <2>3
  <2> QED
    BY <2>4 DEF a, b
<1>6. x = v /\ p = q
  <2> HIDE DEF n, x, v
  <2> QED
    BY <1>2, <1>3, <1>5, Digits
<1> QED
  BY <1>2, <1>6, RankInjective

\* The ends of the channels fit together, and those of others do not.
LEMMA EndsMeet ==
  ASSUME NEW g, InUse(g), NEW p \in Process, NEW l \in Local, NEW f \in Faces, Type(p, l, f) = "REMOTE",
         NEW q, NEW m, Neighbor(p, l, f) = <<q, m>>, NEW h, h = Opposite(f)
  PROVE  ProducerEnd(p, l, f) = ConsumerEnd(q, m, h) /\ ProducerEnd(p, l, f) \in Channel
<1>1. Neighbor(q, m, h) = <<p, l>> /\ Opposite(h) = f
  BY RemoteNeighbor
<1>2. ProducerEnd(p, l, f) = << <<h, Key(q, m, 0)>>, <<h, Key(q, m, 1)>>, <<f, Key(p, l, 2)>> >>
  BY DEF ProducerEnd
<1>3. ConsumerEnd(q, m, h) = << <<h, Key(q, m, 0)>>, <<h, Key(q, m, 1)>>, <<f, Key(p, l, 2)>> >>
  BY <1>1 DEF ConsumerEnd
<1>4. <<p, l, f>> \in RemoteFaces
  BY DEF RemoteFaces, Type
<1>5. ProducerEnd(p, l, f) \in Channel
  BY <1>4 DEF Channel
<1> QED
  BY <1>2, <1>3, <1>5

\* so that a channel has one face that sends into it
LEMMA ProducersApart ==
  ASSUME NEW g, InUse(g), NEW p \in Process, NEW l \in Local, NEW f, NEW q \in Process, NEW m \in Local,
         NEW h, ProducerEnd(p, l, f) = ProducerEnd(q, m, h)
  PROVE  p = q /\ l = m /\ f = h
<1>1. ProducerEnd(p, l, f)[3] = <<f, Key(p, l, 2)>> /\ ProducerEnd(q, m, h)[3] = <<h, Key(q, m, 2)>>
  BY DEF ProducerEnd
<1>2. f = h /\ Key(p, l, 2) = Key(q, m, 2)
  BY <1>1
<1> QED
  BY <1>2, KeysApart

\* and one that receives from it.
LEMMA ConsumersApart ==
  ASSUME NEW g, InUse(g), NEW p \in Process, NEW l \in Local, NEW f, NEW q \in Process, NEW m \in Local,
         NEW h, ConsumerEnd(p, l, f) = ConsumerEnd(q, m, h)
  PROVE  p = q /\ l = m /\ f = h
<1>1. ConsumerEnd(p, l, f)[1] = <<f, Key(p, l, 0)>> /\ ConsumerEnd(q, m, h)[1] = <<h, Key(q, m, 0)>>
  BY DEF ConsumerEnd
<1>2. f = h /\ Key(p, l, 0) = Key(q, m, 0)
  BY <1>1
<1> QED
  BY <1>2, KeysApart

-----------------------------------------------------------------------------
\* What a step leaves as it is.

\* All but task t of process p are as they were.
Others(p, t) ==
  /\ \A q \in Process : \A u : u # t \/ q # p =>
       /\ u \in finished'[q] <=> u \in finished[q]
       /\ u \in DOMAIN progress'[q] <=> u \in DOMAIN progress[q]
       /\ u \in DOMAIN progress[q] => progress'[q][u] = progress[q][u]
  /\ t \in finished[p] => t \in finished'[p]

\* What a step does to the tasks that have finished and to those in progress.
LEMMA Effect ==
  ASSUME IInv, NEW p \in Process, NEW t, NEW steps, TakeStep(p, t, steps)
  PROVE  /\ Others(p, t) /\ t \notin finished[p]
         /\ t \in Started(p) \/ MayStart(p, t)
         /\ StepsOf(p, t) + 1 >= steps => t \in finished'[p] /\ t \notin DOMAIN progress'[p]
         /\ ~(StepsOf(p, t) + 1 >= steps) =>
              /\ t \notin finished'[p]
              /\ t \in DOMAIN progress'[p] /\ progress'[p][t] = StepsOf(p, t) + 1
<1> DEFINE n == StepsOf(p, t) + 1
<1>1. t \in Started(p) \/ MayStart(p, t)
  BY DEF TakeStep, IsLive, Started
<1>2. t \notin finished[p]
  BY DEF TakeStep, IsLive, MayStart, IInv, InOrder
<1>3. CASE n >= steps
  <2>1. /\ finished' = [finished EXCEPT ![p] = @ \cup {t}]
        /\ progress' = [progress EXCEPT ![p] = [u \in DOMAIN @ \ {t} |-> progress[p][u]]]
    BY <1>3 DEF TakeStep
  <2>2. /\ finished'[p] = finished[p] \cup {t}
        /\ progress'[p] = [u \in DOMAIN progress[p] \ {t} |-> progress[p][u]]
        /\ \A q \in Process : q # p => finished'[q] = finished[q] /\ progress'[q] = progress[q]
    BY <2>1 DEF IInv, TypesOK
  <2>3. Others(p, t)
    BY <2>2 DEF Others
  <2> QED
    BY <1>1, <1>2, <1>3, <2>2, <2>3
<1>4. CASE ~(n >= steps)
  <2>1. /\ finished' = finished
        /\ progress' = [progress EXCEPT ![p] =
             [u \in DOMAIN @ \cup {t} |-> IF u = t THEN n ELSE progress[p][u]]]
    BY <1>4 DEF TakeStep
  <2>2. /\ progress'[p] = [u \in DOMAIN progress[p] \cup {t} |-> IF u = t THEN n ELSE progress[p][u]]
        /\ \A q \in Process : q # p => progress'[q] = progress[q]
    BY <2>1 DEF IInv, TypesOK
  <2>3. Others(p, t)
    BY <2>1, <2>2 DEF Others
  <2> QED
    BY <1>1, <1>2, <1>4, <2>1, <2>2, <2>3
<1> QED
  BY <1>3, <1>4

\* The neighbour of a neighbour is the block itself, and they share the channel.
LEMMA NeighborEnd ==
  ASSUME NEW g, InUse(g), NEW p \in Process, NEW l \in Local, NEW f \in Faces, Type(p, l, f) = "REMOTE"
  PROVE  LET q == Neighbor(p, l, f)[1]
             m == Neighbor(p, l, f)[2]
             h == Opposite(f) IN
         /\ q \in Process /\ m \in Local /\ h \in Faces /\ Opposite(h) = f
         /\ Type(q, m, h) = "REMOTE" /\ Neighbor(q, m, h) = <<p, l>>
         /\ ProducerEnd(p, l, f) = ConsumerEnd(q, m, h) /\ ProducerEnd(p, l, f) \in Channel
<1> DEFINE q == Neighbor(p, l, f)[1]
           m == Neighbor(p, l, f)[2]
           h == Opposite(f)
<1>1. Neighbor(p, l, f) = <<q, m>> /\ h = Opposite(f)
  BY Fields DEF InUse
<1> HIDE DEF q, m, h
<1>2. /\ q \in Process /\ m \in Local /\ h \in Faces /\ Opposite(h) = f
      /\ Type(q, m, h) = "REMOTE" /\ Neighbor(q, m, h) = <<p, l>>
  BY <1>1, RemoteNeighbor
<1>3. ProducerEnd(p, l, f) = ConsumerEnd(q, m, h) /\ ProducerEnd(p, l, f) \in Channel
  BY <1>1, EndsMeet
<1> QED
  BY <1>2, <1>3 DEF q, m, h

\* All of a remote face, by its place in the list.
LEMMA RemoteFace ==
  ASSUME NEW g, InUse(g), NEW p \in Process, NEW l \in Local, NEW i \in DOMAIN Remote(p, l),
         NEW f, f = Remote(p, l)[i], NEW q, q = Neighbor(p, l, f)[1], NEW m, m = Neighbor(p, l, f)[2],
         NEW h, h = Opposite(f)
  PROVE  /\ i \in 1..Len(Remote(p, l)) /\ Len(Remote(p, l)) \in Nat
         /\ f \in Faces /\ Type(p, l, f) = "REMOTE" /\ Neighbor(p, l, f) = <<q, m>>
         /\ q \in Process /\ m \in Local /\ h \in Faces /\ Opposite(h) = f
         /\ Type(q, m, h) = "REMOTE" /\ Neighbor(q, m, h) = <<p, l>>
         /\ ProducerEnd(p, l, f) = ConsumerEnd(q, m, h) /\ ProducerEnd(p, l, f) \in Channel
         /\ ConsumerEnd(p, l, f) = ProducerEnd(q, m, h) /\ ConsumerEnd(p, l, f) \in Channel
<1> DEFINE S == {e \in Faces : Type(p, l, e) = "REMOTE"}
<1>1. Listed(Remote(p, l), S)
  BY RemoteFacesListed
<1>2. i \in 1..Len(Remote(p, l)) /\ Len(Remote(p, l)) \in Nat /\ f \in S
  <2> HIDE DEF S
  <2> QED
    BY <1>1 DEF Listed
<1>3. f \in Faces /\ Type(p, l, f) = "REMOTE"
  BY <1>2
<1>4. Neighbor(p, l, f) = <<q, m>>
  BY <1>3, Fields DEF InUse
<1>5. /\ q \in Process /\ m \in Local /\ h \in Faces /\ Opposite(h) = f
      /\ Type(q, m, h) = "REMOTE" /\ Neighbor(q, m, h) = <<p, l>>
      /\ ProducerEnd(p, l, f) = ConsumerEnd(q, m, h) /\ ProducerEnd(p, l, f) \in Channel
  BY <1>3, <1>4, NeighborEnd
<1>6. ProducerEnd(q, m, h) = ConsumerEnd(p, l, f) /\ ProducerEnd(q, m, h) \in Channel
  <2>1. Neighbor(q, m, h)[1] = p /\ Neighbor(q, m, h)[2] = l
    BY <1>5
  <2> QED
    BY <1>5, <2>1, NeighborEnd
<1> QED
  BY <1>2, <1>3, <1>4, <1>5, <1>6

\* A remote face has one place in the list.
LEMMA PlaceOfFace ==
  ASSUME NEW g, InUse(g), NEW p \in Process, NEW l \in Local
  PROVE  /\ \A f \in Faces : Type(p, l, f) = "REMOTE" =>
              \E i \in DOMAIN Remote(p, l) : Remote(p, l)[i] = f
         /\ \A i, j \in DOMAIN Remote(p, l) : Remote(p, l)[i] = Remote(p, l)[j] => i = j
         /\ DOMAIN Remote(p, l) = 1..Len(Remote(p, l)) /\ Len(Remote(p, l)) \in Nat
<1> DEFINE S == {e \in Faces : Type(p, l, e) = "REMOTE"}
<1>1. Listed(Remote(p, l), S)
  BY RemoteFacesListed
<1>2. \A f \in Faces : Type(p, l, f) = "REMOTE" => f \in S
  OBVIOUS
<1> HIDE DEF S
<1>3. DOMAIN Remote(p, l) = 1..Len(Remote(p, l)) /\ Len(Remote(p, l)) \in Nat
  BY <1>1 DEF Listed
<1> QED
  BY <1>1, <1>2, <1>3 DEF Listed

\* What depends on the grid alone.
LEMMA SameGrid ==
  ASSUME grid' = grid
  PROVE  /\ Process' = Process /\ Local' = Local /\ nIters' = nIters /\ Iteration' = Iteration
         /\ Domain' = Domain /\ Channel' = Channel /\ RemoteFaces' = RemoteFaces
         /\ \A p, l : Remote(p, l)' = Remote(p, l) /\ Ghosts(p, l)' = Ghosts(p, l)
         /\ \A p, l, f : /\ Type(p, l, f)' = Type(p, l, f) /\ Neighbor(p, l, f)' = Neighbor(p, l, f)
                         /\ ProducerEnd(p, l, f)' = ProducerEnd(p, l, f)
                         /\ ConsumerEnd(p, l, f)' = ConsumerEnd(p, l, f)
         /\ \A p, c : Global(p, c)' = Global(p, c)
         /\ \A p, l, k : CellsOf(p, l, k)' = CellsOf(p, l, k)
         /\ \A p, l, f, n : Message(p, l, f, n)' = Message(p, l, f, n)
<1>1. Process' = Process /\ Local' = Local /\ nIters' = nIters
  BY DEF Process, Local, nIters
<1>2. Iteration' = Iteration /\ Domain' = Domain /\ RemoteFaces' = RemoteFaces
  BY <1>1 DEF Iteration, Domain, RemoteFaces
<1>3. ASSUME NEW p, NEW l, NEW f
      PROVE  /\ Type(p, l, f)' = Type(p, l, f) /\ Neighbor(p, l, f)' = Neighbor(p, l, f)
             /\ Remote(p, l)' = Remote(p, l)
  BY DEF Type, Neighbor, Remote
<1>4. ASSUME NEW p, NEW l, NEW k PROVE Key(p, l, k)' = Key(p, l, k)
  BY DEF Key
<1>5. ASSUME NEW p, NEW l, NEW f
      PROVE  /\ ProducerEnd(p, l, f)' = ProducerEnd(p, l, f)
             /\ ConsumerEnd(p, l, f)' = ConsumerEnd(p, l, f)
  BY <1>3, <1>4 DEF ProducerEnd, ConsumerEnd
<1>6. Channel' = Channel
  BY <1>2, <1>5 DEF Channel
<1>7. ASSUME NEW p, NEW c PROVE Global(p, c)' = Global(p, c)
  BY DEF Global
<1>8. ASSUME NEW p, NEW l PROVE Ghosts(p, l)' = Ghosts(p, l)
  <2> DEFINE S == {f \in Faces : Type(p, l, f) = "REMOTE"}
             At(f) == {grid.ghost[<<l, f>>][o] : o \in DOMAIN grid.ghost[<<l, f>>]}
  <2>1. Ghosts(p, l) = UNION {At(f) : f \in S} /\ Ghosts(p, l)' = UNION {At(f)' : f \in S'}
    BY DEF Ghosts
  <2>2. S' = S
    BY <1>3
  <2>3. \A f : At(f)' = At(f)
    OBVIOUS
  <2> HIDE DEF S, At
  <2> QED
    BY <2>1, <2>2, <2>3
<1>9. ASSUME NEW p, NEW l, NEW k PROVE CellsOf(p, l, k)' = CellsOf(p, l, k)
  BY <1>8 DEF CellsOf
<1>10. ASSUME NEW p, NEW l, NEW f, NEW n PROVE Message(p, l, f, n)' = Message(p, l, f, n)
  BY <1>7 DEF Message
<1> QED
  BY <1>1, <1>2, <1>3, <1>5, <1>6, <1>7, <1>8, <1>9, <1>10

\* All tasks of the program.
AnyTask == ({"Reset"} \X Local \X {0}) \cup GraphTask \cup ResidualTask

LEMMA PhaseNames ==
  ASSUME NEW t \in AnyTask
  PROVE  /\ PhaseOf(t) \notin Halted
         /\ PhaseOf(t) = "reset" <=> t[1] = "Reset"
BY DEF AnyTask, GraphTask, Kind, ResidualTask, PhaseOf, Halted

\* A step keeps the order of the phases,
LEMMA PhasesKept ==
  ASSUME PhasesOK, grid' = grid, phase' = phase, NEW p \in Process, NEW t \in AnyTask, Others(p, t),
         t \in Started(p) \/ MayStart(p, t)
  PROVE  PhasesOK'
<1>1. \A q \in Process : \A u : u \in Started(q)' => u \in Started(q) \/ (q = p /\ u = t)
  BY DEF Others, Started
<1>2. \A q \in Process : finished[q] \subseteq finished'[q]
  BY DEF Others
<1>3. phase[p] \notin Halted /\ (phase[p] = "reset" => t[1] = "Reset")
  <2>1. CASE t \in Started(p)
    BY <2>1 DEF PhasesOK
  <2>2. CASE MayStart(p, t)
    BY <2>2, PhaseNames DEF MayStart
  <2> QED
    BY <2>1, <2>2
<1>4. t \in {"Reset"} \X Local \X {0} \/ t \in GraphTask \/ t \in ResidualTask
  BY DEF AnyTask
<1>5. /\ Process' = Process /\ Local' = Local /\ GraphTask' = GraphTask /\ ResidualTask' = ResidualTask
  BY SameGrid, SameGraph
<1> SUFFICES ASSUME NEW q \in Process
             PROVE  /\ phase[q] \in Halted => Started(q)' = {}
                    /\ phase[q] = "reset" => \A u \in Started(q)' : u[1] = "Reset"
                    /\ phase[q] \notin Halted \cup {"reset"} => \A l \in Local : Done(q, "Reset", l, 0)'
                    /\ \A u \in Started(q)' : u \in {"Reset"} \X Local \X {0}
                                                \/ u \in GraphTask \/ u \in ResidualTask
  BY <1>5 DEF PhasesOK
<1>6. phase[q] \in Halted => Started(q)' = {}
  BY <1>1, <1>3 DEF PhasesOK
<1>7. phase[q] = "reset" => \A u \in Started(q)' : u[1] = "Reset"
  BY <1>1, <1>3 DEF PhasesOK
<1>8. phase[q] \notin Halted \cup {"reset"} => \A l \in Local : Done(q, "Reset", l, 0)'
  BY <1>2 DEF PhasesOK, Done
<1>9. \A u \in Started(q)' : u \in {"Reset"} \X Local \X {0} \/ u \in GraphTask \/ u \in ResidualTask
  BY <1>1, <1>4 DEF PhasesOK
<1> QED
  BY <1>6, <1>7, <1>8, <1>9

\* and the range of the steps, if the task itself stays in its own.
LEMMA StepsKept ==
  ASSUME StepsOK, grid' = grid, NEW p \in Process, NEW t, Others(p, t),
         t \in DOMAIN progress'[p] =>
           /\ t[1] = "Reset" => progress'[p][t] = 1
           /\ t[1] = "Send" => progress'[p][t] \in 1..(Len(Remote(p, t[2])) - 1)
           /\ t[1] = "Receive" => progress'[p][t] \in {Lost} \cup 1..(Len(Remote(p, t[2])) - 1)
  PROVE  StepsOK'
<1>1. Process' = Process /\ \A q, l : Remote(q, l)' = Remote(q, l)
  BY SameGrid
<1> SUFFICES ASSUME NEW q \in Process, NEW u \in DOMAIN progress'[q]
             PROVE  /\ u[1] = "Reset" => progress'[q][u] = 1
                    /\ u[1] = "Send" => progress'[q][u] \in 1..(Len(Remote(q, u[2])) - 1)
                    /\ u[1] = "Receive" => progress'[q][u] \in {Lost} \cup 1..(Len(Remote(q, u[2])) - 1)
  BY <1>1 DEF StepsOK
<1>2. CASE q = p /\ u = t
  BY <1>2
<1>3. CASE ~(q = p /\ u = t)
  <2>1. u \in DOMAIN progress[q] /\ progress'[q][u] = progress[q][u]
    BY <1>3 DEF Others
  <2> QED
    BY <2>1 DEF StepsOK
<1> QED
  BY <1>2, <1>3

\* A step of another kind leaves these as they are.
LEMMA ArraysKept ==
  ASSUME Surrounded, ArraysRight, OnlyRightValues, grid' = grid, array' = array,
         NEW p \in Process, NEW t, Others(p, t), t[1] \notin {"Reset", "Compute", "Unpack"}
  PROVE  Surrounded' /\ ArraysRight' /\ OnlyRightValues'
<1>1. /\ Process' = Process /\ Local' = Local /\ nIters' = nIters /\ Domain' = Domain
      /\ \A q, l, k : CellsOf(q, l, k)' = CellsOf(q, l, k)
      /\ \A q, c : Global(q, c)' = Global(q, c)
  BY SameGrid
<1>2. ASSUME NEW q \in Process, NEW k \in {"Reset", "Compute", "Unpack"}
      PROVE  /\ \A l, n : Done(q, k, l, n)' <=> Done(q, k, l, n)
             /\ \A l, n : <<k, l, n>> \in DOMAIN progress'[q] <=> <<k, l, n>> \in DOMAIN progress[q]
             /\ \A l, n : <<k, l, n>> \in Started(q)' <=> <<k, l, n>> \in Started(q)
  BY DEF Others, Done, Started
<1>3. Surrounded'
  BY <1>1, <1>2 DEF Surrounded
<1>4. \A q, l, k, n : Holds(q, l, k, n)' <=> Holds(q, l, k, n)
  BY <1>1 DEF Holds
<1>5. ArraysRight'
  BY <1>1, <1>2, <1>4 DEF ArraysRight
<1>6. OnlyRightValues'
  BY <1>1 DEF OnlyRightValues
<1> QED
  BY <1>3, <1>5, <1>6

\* Pack buffers are kept by all tasks other than Pack.
LEMMA PacksKept ==
  ASSUME PacksRight, grid' = grid, packBuffer' = packBuffer,
         NEW p \in Process, NEW t, Others(p, t), t[1] # "Pack"
  PROVE  PacksRight'
<1>1. /\ Process' = Process /\ Local' = Local /\ Iteration' = Iteration
      /\ \A q, l, f : Type(q, l, f)' = Type(q, l, f)
      /\ \A q, l, f, n : Message(q, l, f, n)' = Message(q, l, f, n)
  BY SameGrid
<1>2. \A q \in Process : \A l, n : Done(q, "Pack", l, n)' <=> Done(q, "Pack", l, n)
  BY DEF Others, Done
<1> QED
  BY <1>1, <1>2 DEF PacksRight

\* The progress of all other tasks is as it was,
LEMMA PastKept ==
  ASSUME NEW p \in Process, NEW t, Others(p, t), NEW q \in Process, NEW k, NEW l, NEW n, NEW i,
         q # p \/ t # <<k, l, n>>
  PROVE  /\ Past(q, k, l, n, i)' <=> Past(q, k, l, n, i)
         /\ Done(q, k, l, n)' <=> Done(q, k, l, n)
BY DEF Past, Others, Done

\* so that channels are kept by all tasks other than Send and Unpack,
LEMMA ChannelsKept ==
  ASSUME ChannelsRight, grid' = grid, channel' = channel, NEW g, InUse(g),
         NEW p \in Process, NEW t, Others(p, t), t[1] \notin {"Send", "Unpack"}
  PROVE  ChannelsRight'
<1>1. /\ Process' = Process /\ Local' = Local /\ Iteration' = Iteration
      /\ \A q, l : Remote(q, l)' = Remote(q, l)
      /\ \A q, l, f : Neighbor(q, l, f)' = Neighbor(q, l, f) /\ ProducerEnd(q, l, f)' = ProducerEnd(q, l, f)
      /\ \A q, l, f, n : Message(q, l, f, n)' = Message(q, l, f, n)
  BY SameGrid
<1>2. ASSUME NEW q \in Process, NEW l, NEW n, NEW i
      PROVE  /\ Past(q, "Send", l, n, i)' <=> Past(q, "Send", l, n, i)
             /\ Done(q, "Unpack", l, n)' <=> Done(q, "Unpack", l, n)
  <2>1. t # <<"Send", l, n>> /\ t # <<"Unpack", l, n>>
    OBVIOUS
  <2> QED
    BY <2>1, PastKept
<1>3. ASSUME NEW q \in Process, NEW l \in Local, NEW i \in DOMAIN Remote(q, l), NEW s \in Nat, NEW r \in Nat,
             Holding(q, l, Remote(q, l)[i], i, s, r)
      PROVE  Holding(q, l, Remote(q, l)[i], i, s, r)'
  <2> DEFINE f == Remote(q, l)[i]
             u == Neighbor(q, l, f)[1]
             m == Neighbor(q, l, f)[2]
  <2>1. u \in Process
    BY RemoteFace
  <2>2. /\ \A it \in Iteration : Past(q, "Send", l, it, i) <=> it < s
        /\ \A it \in Iteration : Done(u, "Unpack", m, it) <=> it < r
        /\ channel[ProducerEnd(q, l, f)] = [k \in 1..(s - r) |-> Message(q, l, f, r + k - 1)]
    BY <1>3 DEF Holding
  <2> QED
    BY <1>1, <1>2, <2>1, <2>2 DEF Holding
<1> QED
  BY <1>1, <1>3 DEF ChannelsRight

\* and tokens by all other than Receive and Unpack.
LEMMA TokensKept ==
  ASSUME TokensRight, grid' = grid, channel' = channel, unpackBuffer' = unpackBuffer,
         NEW p \in Process, NEW t, Others(p, t), t[1] \notin {"Receive", "Unpack"}
  PROVE  TokensRight'
<1>1. /\ Process' = Process /\ Local' = Local /\ Iteration' = Iteration
      /\ \A q, l : Remote(q, l)' = Remote(q, l)
      /\ \A q, l, f : Neighbor(q, l, f)' = Neighbor(q, l, f) /\ ConsumerEnd(q, l, f)' = ConsumerEnd(q, l, f)
      /\ \A q, l, f, n : Message(q, l, f, n)' = Message(q, l, f, n)
  BY SameGrid
<1>2. ASSUME NEW q \in Process, NEW l, NEW n, NEW i
      PROVE  /\ Past(q, "Receive", l, n, i)' <=> Past(q, "Receive", l, n, i)
             /\ Done(q, "Unpack", l, n)' <=> Done(q, "Unpack", l, n)
  <2>1. t # <<"Receive", l, n>> /\ t # <<"Unpack", l, n>>
    OBVIOUS
  <2> QED
    BY <2>1, PastKept
<1> QED
  BY <1>1, <1>2 DEF TokensRight

-----------------------------------------------------------------------------
\* What is behind a task, and what is not.

\* A process that is past the check has a divided grid.
LEMMA SolvingGrid ==
  ASSUME IInv, NEW p \in Process, phase[p] \notin Halted
  PROVE  \E g : InUse(g)
<1>1. PICK g \in Geometries : grid = Initialized(g)
  BY DEF IInv, GridOK
<1>2. WellFormed
  BY DEF IInv, GridOK, Halted
<1> QED
  BY <1>1, <1>2 DEF InUse, Decomposed, WellFormed, Initialized

\* A task of the graph that has finished has its past behind it.
LEMMA DoneFacts ==
  ASSUME IInv, PhasesOK, NEW p \in Process, NEW k \in Kind, NEW l, NEW n, Done(p, k, l, n)
  PROVE  /\ n \in Iteration /\ n \in Nat /\ l \in Local
         /\ \A i \in 0..n : Done(p, k, l, i)
         /\ \A u \in Dependencies(p, <<k, l, n>>) : u \in finished[p]
<1> DEFINE t == <<k, l, n>>
<1>1. t \in Started(p)
  BY DEF Started, Done
<1>2. t \in GraphTask
  <2>1. t \in {"Reset"} \X Local \X {0} \/ t \in GraphTask \/ t \in ResidualTask
    BY <1>1 DEF PhasesOK
  <2> QED
    BY <2>1 DEF ResidualTask, Kind
<1>3. l \in Local /\ n \in Iteration
  BY <1>2 DEF GraphTask
<1>4. n \in Nat
  BY <1>3, IterationsAreNat DEF Iteration
<1>5. DependenciesDone(p, t) /\ EarlierDone(p, t)
  BY <1>1, <1>2 DEF IInv, InOrder
<1>6. \A i \in 0..(n - 1) : Done(p, k, l, i)
  BY <1>5 DEF EarlierDone, Done
<1>7. \A u \in Dependencies(p, t) : u \in finished[p]
  BY <1>5 DEF DependenciesDone
<1>8. \A i \in 0..n : i = n \/ i \in 0..(n - 1)
  BY <1>4
<1> QED
  BY <1>3, <1>4, <1>6, <1>7, <1>8

\* A task of the graph that may take a step.
LEMMA LiveFacts ==
  ASSUME IInv, PhasesOK, NEW p \in Process, NEW k \in Kind, NEW l \in Local, NEW it \in Iteration,
         IsLive(p, <<k, l, it>>)
  PROVE  /\ it \in Nat /\ nIters \in Nat /\ it + 1 \in 0..nIters /\ it \in 0..nIters
         /\ \A i \in Nat : Done(p, k, l, i) <=> i < it
         /\ \A u \in Dependencies(p, <<k, l, it>>) : u \in finished[p]
         /\ phase[p] \notin Halted \cup {"reset"}
         /\ \A m \in Local : Done(p, "Reset", m, 0) /\ <<"Reset", m, 0>> \notin DOMAIN progress[p]
         /\ \E g : InUse(g)
<1> DEFINE t == <<k, l, it>>
<1>1. nIters \in Nat /\ it \in Nat /\ it < nIters
  BY IterationsAreNat DEF Iteration
<1>2. t \in GraphTask
  BY DEF GraphTask
<1>3. t \notin finished[p] /\ DependenciesDone(p, t) /\ EarlierDone(p, t)
  BY <1>1, <1>2, LiveTask
<1>4. ASSUME NEW i \in Nat PROVE Done(p, k, l, i) <=> i < it
  <2>1. i < it => Done(p, k, l, i)
    <3>1. i < it => i \in 0..(it - 1)
      BY <1>1
    <3> QED
      BY <1>3, <3>1 DEF EarlierDone, Done
  <2>2. Done(p, k, l, i) /\ it <= i => FALSE
    <3>1. it <= i => it \in 0..i
      BY <1>1
    <3>2. Done(p, k, l, i) => \A j \in 0..i : Done(p, k, l, j)
      BY DoneFacts
    <3> QED
      BY <1>3, <3>1, <3>2 DEF Done
  <2> QED
    BY <1>1, <2>1, <2>2
<1>5. phase[p] \notin Halted \cup {"reset"}
  <2>1. k # "Reset" /\ PhaseOf(t) = "solve"
    BY DEF Kind, PhaseOf
  <2>2. CASE t \in DOMAIN progress[p]
    <3>1. t \in Started(p)
      BY <2>2 DEF Started
    <3> QED
      BY <2>1, <3>1 DEF PhasesOK
  <2>3. CASE MayStart(p, t)
    BY <2>1, <2>3 DEF MayStart, Halted
  <2> QED
    BY <2>2, <2>3 DEF IsLive
<1>6. \A m \in Local : Done(p, "Reset", m, 0)
  BY <1>5 DEF PhasesOK
<1>7. \A m \in Local : <<"Reset", m, 0>> \notin DOMAIN progress[p]
  BY <1>6 DEF Done, IInv, InOrder
<1>8. \E g : InUse(g)
  BY <1>5, SolvingGrid
<1> QED
  BY <1>1, <1>3, <1>4, <1>5, <1>6, <1>7, <1>8 DEF DependenciesDone

\* Iterations alternate between the two arrays.
LEMMA TwoArrays ==
  ASSUME NEW n \in Nat
  PROVE  /\ ThisArray(n) \in {0, 1} /\ NextArray(n) \in {0, 1} /\ NextArray(n) = ThisArray(n + 1)
         /\ ThisArray(n) # NextArray(n)
BY DEF ThisArray, NextArray

\* What has finished before a task of the graph.
LEMMA Chain ==
  ASSUME IInv, PhasesOK, NEW p \in Process, NEW l \in Local, NEW n
  PROVE  /\ Done(p, "Unpack", l, n) => Done(p, "Compute", l, n) /\ Done(p, "Receive", l, n)
         /\ Done(p, "Compute", l, n) /\ n > 0 =>
              /\ \A m \in LocalNeighbors(p, l) \cup {l} : Done(p, "Compute", m, n - 1)
              /\ Done(p, "Pack", l, n - 1)
         /\ Done(p, "Pack", l, n) /\ n > 0 => Done(p, "Send", l, n - 1)
<1>1. "Compute" \in Kind /\ "Pack" \in Kind /\ "Send" \in Kind /\ "Receive" \in Kind /\ "Unpack" \in Kind
  BY DEF Kind
<1>2. ASSUME Done(p, "Unpack", l, n) PROVE Done(p, "Compute", l, n) /\ Done(p, "Receive", l, n)
  <2>1. n \in Iteration
    BY <1>1, <1>2, DoneFacts
  <2>2. \A u \in Dependencies(p, <<"Unpack", l, n>>) : u \in finished[p]
    BY <1>1, <1>2, DoneFacts
  <2>3. {<<"Compute", l, n>>, <<"Receive", l, n>>} \subseteq Dependencies(p, <<"Unpack", l, n>>)
    BY <2>1, DependsOn
  <2> QED
    BY <2>2, <2>3 DEF Done
<1>3. ASSUME Done(p, "Compute", l, n), n > 0
      PROVE  /\ \A m \in LocalNeighbors(p, l) \cup {l} : Done(p, "Compute", m, n - 1)
             /\ Done(p, "Pack", l, n - 1)
  <2>1. n \in Iteration
    BY <1>1, <1>3, DoneFacts
  <2>2. /\ \A m \in LocalNeighbors(p, l) \cup {l} :
             <<"Compute", m, n - 1>> \in Dependencies(p, <<"Compute", l, n>>)
        /\ <<"Pack", l, n - 1>> \in Dependencies(p, <<"Compute", l, n>>)
    BY <1>3, <2>1, DependsOn
  <2>3. \A u \in Dependencies(p, <<"Compute", l, n>>) : u \in finished[p]
    BY <1>1, <1>3, DoneFacts
  <2> QED
    BY <2>2, <2>3 DEF Done
<1>4. ASSUME Done(p, "Pack", l, n), n > 0 PROVE Done(p, "Send", l, n - 1)
  <2>1. n \in Iteration
    BY <1>1, <1>4, DoneFacts
  <2>2. <<"Send", l, n - 1>> \in Dependencies(p, <<"Pack", l, n>>)
    BY <1>4, <2>1, DependsOn
  <2>3. \A u \in Dependencies(p, <<"Pack", l, n>>) : u \in finished[p]
    BY <1>1, <1>4, DoneFacts
  <2> QED
    BY <2>2, <2>3 DEF Done
<1> QED
  BY <1>2, <1>3, <1>4

\* A task that has finished has done so in all earlier iterations.
LEMMA EarlierToo ==
  ASSUME IInv, PhasesOK, NEW p \in Process, NEW k \in Kind, NEW l, NEW n, Done(p, k, l, n),
         NEW i \in Nat, i <= n
  PROVE  Done(p, k, l, i)
<1>1. n \in Nat /\ \A j \in 0..n : Done(p, k, l, j)
  BY DoneFacts
<1> QED
  BY <1>1

\* What depends on a task that has not finished has not finished either.
LEMMA NotAhead ==
  ASSUME IInv, PhasesOK, NEW p \in Process, NEW l \in Local, NEW it \in Nat, NEW n \in Nat
  PROVE  /\ ~Done(p, "Compute", l, it) /\ it <= n => ~Done(p, "Unpack", l, n)
         /\ ~Done(p, "Compute", l, it) /\ it < n =>
              \A m \in Local : l = m \/ l \in LocalNeighbors(p, m) => ~Done(p, "Compute", m, n)
         /\ ~Done(p, "Pack", l, it) /\ it < n => ~Done(p, "Compute", l, n)
         /\ ~Done(p, "Send", l, it) /\ it < n => ~Done(p, "Pack", l, n)
         /\ ~Done(p, "Receive", l, it) /\ it <= n => ~Done(p, "Unpack", l, n)
<1>1. "Compute" \in Kind /\ "Pack" \in Kind /\ "Send" \in Kind /\ "Receive" \in Kind /\ "Unpack" \in Kind
  BY DEF Kind
<1>2. it < n => n > 0 /\ it <= n - 1
  OBVIOUS
<1>3. ASSUME it <= n, Done(p, "Unpack", l, n) PROVE Done(p, "Compute", l, it) /\ Done(p, "Receive", l, it)
  BY <1>1, <1>3, Chain, EarlierToo
<1>4. ASSUME it < n, NEW m \in Local, l = m \/ l \in LocalNeighbors(p, m), Done(p, "Compute", m, n)
      PROVE  Done(p, "Compute", l, it)
  <2>1. Done(p, "Compute", l, n - 1)
    BY <1>2, <1>4, Chain
  <2> QED
    BY <1>1, <1>2, <1>4, <2>1, EarlierToo
<1>5. ASSUME it < n, Done(p, "Compute", l, n) PROVE Done(p, "Pack", l, it)
  <2>1. Done(p, "Pack", l, n - 1)
    BY <1>2, <1>5, Chain
  <2> QED
    BY <1>1, <1>2, <1>5, <2>1, EarlierToo
<1>6. ASSUME it < n, Done(p, "Pack", l, n) PROVE Done(p, "Send", l, it)
  <2>1. Done(p, "Send", l, n - 1)
    BY <1>2, <1>6, Chain
  <2> QED
    BY <1>1, <1>2, <1>6, <2>1, EarlierToo
<1> QED
  BY <1>3, <1>4, <1>5, <1>6

-----------------------------------------------------------------------------
\* Compute and Pack.

\* A value says of which iteration it is.
LEMMA ValueOfIteration ==
  ASSUME NEW c, NEW n \in Nat
  PROVE  Value(c, n) \in {One, Unset} \/ Value(c, n) = Value(c, IterationOf(Value(c, n)))
<1>1. CASE n = 0
  BY <1>1 DEF Value
<1>2. CASE n # 0
  <2>1. Value(c, n) = <<c[1], c[2], c[3], n>>
    BY <1>2 DEF Value
  <2>2. IterationOf(Value(c, n)) = n
    BY <2>1 DEF IterationOf
  <2> QED
    BY <2>2
<1> QED
  BY <1>1, <1>2

\* The cells that a task gives their values are in the domain,
LEMMA CellsKnown ==
  ASSUME NEW g, InUse(g), NEW p \in Process, NEW l \in Local, NEW k \in {"Compute", "Unpack"},
         NEW c \in CellsOf(p, l, k)
  PROVE  Global(p, c) \in Domain /\ c \in grid.halo[l] /\ c \in grid.cell
BY InsideKnown, GhostKnown DEF CellsOf

\* and of one block and kind only.
LEMMA CellsApart ==
  ASSUME NEW g, InUse(g), NEW p \in Process, NEW l \in Local, NEW m \in Local,
         NEW k \in {"Compute", "Unpack"}, NEW h \in {"Compute", "Unpack"}, l # m \/ k # h,
         NEW c \in CellsOf(p, l, k)
  PROVE  c \notin CellsOf(p, m, h)
<1>1. CASE k = "Compute" /\ h = "Compute"
  BY <1>1, ApartKnown DEF CellsOf
<1>2. CASE k = "Compute" /\ h = "Unpack"
  BY <1>2, GhostKnown DEF CellsOf
<1>3. CASE k = "Unpack" /\ h = "Compute"
  BY <1>3, GhostKnown DEF CellsOf
<1>4. CASE k = "Unpack" /\ h = "Unpack"
  BY <1>4, GhostKnown DEF CellsOf
<1> QED
  BY <1>1, <1>2, <1>3, <1>4

\* What Compute and Unpack have in common.
LEMMA ArraysWritten ==
  ASSUME IInv, PhasesOK, Surrounded, ArraysRight, OnlyRightValues, grid' = grid,
         NEW p \in Process, NEW k \in {"Compute", "Unpack"}, NEW l \in Local, NEW it \in Iteration,
         IsLive(p, <<k, l, it>>), Others(p, <<k, l, it>>), <<k, l, it>> \in finished'[p],
         \A q \in Process : \A b \in {0, 1} : \A c \in grid.cell :
           \/ array'[q][b][c] = array[q][b][c]
           \/ q = p /\ b = NextArray(it) /\ c \in CellsOf(p, l, k),
         \A c \in CellsOf(p, l, k) : array'[p][NextArray(it)][c] = Value(Global(p, c), it + 1)
  PROVE  Surrounded' /\ ArraysRight' /\ OnlyRightValues'
<1> DEFINE t == <<k, l, it>>
<1>1. k \in Kind /\ t[1] = k
  BY DEF Kind
<1>2. /\ Process' = Process /\ Local' = Local /\ nIters' = nIters /\ Domain' = Domain
      /\ \A q, m, h : CellsOf(q, m, h)' = CellsOf(q, m, h)
      /\ \A q, c : Global(q, c)' = Global(q, c)
  BY SameGrid
<1>3. /\ it \in Nat /\ nIters \in Nat /\ it + 1 \in 0..nIters /\ it \in 0..nIters
      /\ \A i \in Nat : Done(p, k, l, i) <=> i < it
  BY <1>1, LiveFacts
<1>4. PICK g : InUse(g)
  BY <1>1, LiveFacts
<1>5. ASSUME NEW q \in Process, NEW h, NEW m, NEW n, q # p \/ <<h, m, n>> # t
      PROVE  /\ Done(q, h, m, n)' <=> Done(q, h, m, n)
             /\ <<h, m, n>> \in DOMAIN progress'[q] <=> <<h, m, n>> \in DOMAIN progress[q]
             /\ <<h, m, n>> \in Started(q)' <=> <<h, m, n>> \in Started(q)
  BY <1>5 DEF Others, Done, Started
<1>6. Surrounded'
  <2> SUFFICES ASSUME NEW q \in Process, NEW m \in Local, NEW d \in grid.halo[m], NEW b \in {0, 1},
                      Global(q, d) \notin Domain, Done(q, "Reset", m, 0)'
               PROVE  \/ array'[q][b][d] = Zero
                      \/ \E n \in Local : <<"Reset", n, 0>> \in DOMAIN progress'[q] /\ d \in grid.halo[n]
    BY <1>2 DEF Surrounded
  <2>1. d \in grid.cell
    BY <1>4, HaloKnown
  <2>2. q # p \/ d \notin CellsOf(p, l, k)
    BY <1>4, CellsKnown
  <2>3. array'[q][b][d] = array[q][b][d]
    BY <2>1, <2>2
  <2>4. /\ \A n : <<"Reset", n, 0>> \in DOMAIN progress'[q] <=> <<"Reset", n, 0>> \in DOMAIN progress[q]
        /\ Done(q, "Reset", m, 0)
    BY <1>5
  <2> QED
    BY <2>3, <2>4 DEF Surrounded
<1>7. ArraysRight'
  <2> SUFFICES ASSUME NEW q \in Process, NEW m \in Local, <<"Reset", m, 0>> \in Started(q)',
                      NEW h \in {"Compute", "Unpack"}, NEW n \in 0..nIters,
                      n = 0 \/ Done(q, h, m, n - 1)', ~Done(q, h, m, n + 1)',
                      NEW c \in CellsOf(q, m, h)
               PROVE  array'[q][ThisArray(n)][c] = Value(Global(q, c), n)
    BY <1>2 DEF ArraysRight, Holds
  <2>1. <<"Reset", m, 0>> \in Started(q) /\ n \in Nat
    BY <1>3, <1>5
  <2>2. c \in grid.cell
    BY <1>4, CellsKnown
  <2>3. ThisArray(n) \in {0, 1} /\ ThisArray(it) # NextArray(it) /\ NextArray(it) = ThisArray(it + 1)
    BY <1>3, <2>1, TwoArrays
  <2>4. CASE q = p /\ m = l /\ h = k
    <3>1. n = it \/ n = it + 1
      <4>1. ~(n + 1 < it)
        <5>1. n + 1 \in Nat /\ (n + 1 # it => <<h, m, n + 1>> # t)
          BY <2>1
        <5>2. n + 1 < it => Done(p, k, l, n + 1) /\ n + 1 # it
          BY <1>3, <5>1
        <5>3. n + 1 < it => Done(p, k, l, n + 1)'
          BY <2>4, <5>1, <5>2, <1>5
        <5> QED
          BY <2>4, <5>3
      <4>2. n + 1 # it
        <5>1. Done(p, k, l, it)'
          BY DEF Done
        <5> QED
          BY <2>4, <5>1
      <4>3. n = 0 \/ n - 1 <= it
        <5>1. n # 0 => n - 1 \in Nat
          BY <2>1
        <5>2. n # 0 /\ n - 1 # it => Done(p, k, l, n - 1)
          BY <1>5, <2>4
        <5> QED
          BY <1>3, <2>1, <5>1, <5>2
      <4> QED
        BY <1>3, <2>1, <4>1, <4>2, <4>3
    <3>2. CASE n = it + 1
      BY <2>3, <2>4, <3>2
    <3>3. CASE n = it
      <4>1. (it = 0 \/ Done(p, k, l, it - 1)) /\ ~Done(p, k, l, it + 1)
        <5>1. (it # 0 => it - 1 \in Nat /\ it - 1 < it) /\ it + 1 \in Nat /\ ~(it + 1 < it)
          BY <1>3
        <5> QED
          BY <1>3, <5>1
      <4>2. Holds(p, l, k, it)
        BY <1>3, <2>1, <2>4, <4>1 DEF ArraysRight
      <4>3. array'[p][ThisArray(it)][c] = array[p][ThisArray(it)][c]
        BY <2>2, <2>3, <3>3
      <4> QED
        BY <2>4, <3>3, <4>2, <4>3 DEF Holds
    <3> QED
      BY <3>1, <3>2, <3>3
  <2>5. CASE ~(q = p /\ m = l /\ h = k)
    <3>1. \A i : Done(q, h, m, i)' <=> Done(q, h, m, i)
      BY <1>5, <2>5
    <3>2. Holds(q, m, h, n)
      BY <2>1, <3>1 DEF ArraysRight
    <3>3. q # p \/ c \notin CellsOf(p, l, k)
      BY <1>4, <2>5, CellsApart
    <3>4. array'[q][ThisArray(n)][c] = array[q][ThisArray(n)][c]
      BY <2>2, <2>3, <3>3
    <3> QED
      BY <3>2, <3>4 DEF Holds
  <2> QED
    BY <2>4, <2>5
<1>8. OnlyRightValues'
  <2> SUFFICES ASSUME NEW q \in Process, NEW m \in Local, NEW b \in {0, 1}, NEW c \in grid.inside[m],
                      NEW v, v = array'[q][b][c]
               PROVE  v \in {One, Unset} \/ v = Value(Global(q, c), IterationOf(v))
    BY <1>2 DEF OnlyRightValues
  <2>1. c \in grid.cell
    BY <1>4, InsideKnown
  <2>2. CASE v = array[q][b][c]
    BY <2>2 DEF OnlyRightValues
  <2>3. CASE q = p /\ b = NextArray(it) /\ c \in CellsOf(p, l, k)
    <3>1. v = Value(Global(p, c), it + 1) /\ it + 1 \in Nat
      BY <1>3, <2>3
    <3> QED
      BY <2>3, <3>1, ValueOfIteration
  <2> QED
    BY <2>1, <2>2, <2>3
<1> QED
  BY <1>6, <1>7, <1>8

\* The parts of the invariant but for the scheduling.
Right ==
  /\ PhasesOK /\ StepsOK /\ MemoryOK /\ Surrounded /\ ArraysRight /\ PacksRight
  /\ ChannelsRight /\ TokensRight /\ OnlyRightValues

\* Compute finds all it needs in the array it reads: its result is the value of the next iteration.
LEMMA ComputeValues ==
  ASSUME IInv, Right, NEW p \in Process, NEW l \in Local, NEW it \in Iteration,
         IsLive(p, <<"Compute", l, it>>), NEW c \in grid.inside[l]
  PROVE  Update(p, array[p][ThisArray(it)], c, it) = Value(Global(p, c), it + 1)
<1>1. "Compute" \in Kind /\ "Unpack" \in Kind
  BY DEF Kind
<1>2. /\ it \in Nat /\ nIters \in Nat /\ it \in 0..nIters
      /\ \A i \in Nat : Done(p, "Compute", l, i) <=> i < it
      /\ \A u \in Dependencies(p, <<"Compute", l, it>>) : u \in finished[p]
      /\ \A m \in Local : Done(p, "Reset", m, 0) /\ <<"Reset", m, 0>> \notin DOMAIN progress[p]
  BY <1>1, LiveFacts DEF Right
<1>3. PICK g : InUse(g)
  BY <1>1, LiveFacts DEF Right
<1>4. ThisArray(it) \in {0, 1}
  BY <1>2, TwoArrays
<1>5. ~Done(p, "Compute", l, it) /\ it + 1 \in Nat /\ it < it + 1
  BY <1>2
<1> SUFFICES ASSUME NEW d \in grid.stencil[c]
             PROVE  array[p][ThisArray(it)][d] = Expected(p, d, it)
  BY DEF Update
<1>6. /\ d \in grid.halo[l]
      /\ \/ Global(p, d) \notin Domain
         \/ d \in Ghosts(p, l)
         \/ \E m \in Local : /\ d \in grid.inside[m]
                             /\ \/ m = l
                                \/ m \in LocalNeighbors(p, l) /\ l \in LocalNeighbors(p, m)
  BY <1>3, StencilKnown
\* The values of this iteration that a neighbour and the ghost cells have.
<1>7. ASSUME NEW k \in {"Compute", "Unpack"}, NEW m \in Local,
             it > 0 => <<k, m, it - 1>> \in Dependencies(p, <<"Compute", l, it>>),
             ~Done(p, k, m, it + 1), d \in CellsOf(p, m, k)
      PROVE  array[p][ThisArray(it)][d] = Expected(p, d, it)
  <2>1. it = 0 \/ Done(p, k, m, it - 1)
    BY <1>2, <1>7 DEF Done
  <2>2. <<"Reset", m, 0>> \in Started(p)
    BY <1>2 DEF Started, Done
  <2>3. Holds(p, m, k, it)
    BY <1>2, <1>7, <2>1, <2>2 DEF Right, ArraysRight
  <2>4. Global(p, d) \in Domain
    BY <1>3, <1>7, CellsKnown
  <2> QED
    BY <1>7, <2>3, <2>4 DEF Holds, Expected
<1>8. CASE Global(p, d) \notin Domain
  <2>1. array[p][ThisArray(it)][d] = Zero
    BY <1>2, <1>4, <1>6, <1>8 DEF Right, Surrounded
  <2> QED
    BY <1>8, <2>1 DEF Expected
<1>9. CASE d \in Ghosts(p, l)
  <2>1. ~Done(p, "Unpack", l, it + 1)
    BY <1>2, <1>5, NotAhead DEF Right
  <2>2. it > 0 => <<"Unpack", l, it - 1>> \in Dependencies(p, <<"Compute", l, it>>)
    BY DependsOn
  <2>3. d \in CellsOf(p, l, "Unpack")
    BY <1>9 DEF CellsOf
  <2> QED
    BY <1>7, <2>1, <2>2, <2>3
<1>10. ASSUME NEW m \in Local, d \in grid.inside[m],
              m = l \/ (m \in LocalNeighbors(p, l) /\ l \in LocalNeighbors(p, m))
       PROVE  array[p][ThisArray(it)][d] = Expected(p, d, it)
  <2>1. ~Done(p, "Compute", m, it + 1)
    BY <1>2, <1>5, <1>10, NotAhead DEF Right
  <2>2. it > 0 => <<"Compute", m, it - 1>> \in Dependencies(p, <<"Compute", l, it>>)
    BY <1>10, DependsOn
  <2>3. d \in CellsOf(p, m, "Compute")
    BY <1>10 DEF CellsOf
  <2> QED
    BY <1>7, <2>1, <2>2, <2>3
<1> QED
  BY <1>6, <1>8, <1>9, <1>10

\* Compute leaves everything as it should be,
LEMMA ComputeKeepsRight ==
  ASSUME IInv, Right, NEW p \in Process, NEW l \in Local, NEW it \in Iteration, Compute(p, l, it)
  PROVE  Right'
<1> DEFINE t == <<"Compute", l, it>>
           a == ThisArray(it)
           b == NextArray(it)
<1>1. "Compute" \in Kind
  BY DEF Kind
<1>2. /\ TakeStep(p, t, 1) /\ IsLive(p, t) /\ grid' = grid /\ phase' = phase
      /\ packBuffer' = packBuffer /\ unpackBuffer' = unpackBuffer /\ channel' = channel
      /\ array' = [array EXCEPT ![p] = Computed(p, l, a, b, it)]
  BY DEF Compute, TakeStep
<1>3. it \in Nat /\ phase[p] \notin Halted \cup {"reset"}
  BY <1>1, <1>2, LiveFacts DEF Right
<1>4. PICK g : InUse(g)
  BY <1>1, <1>2, LiveFacts DEF Right
<1>5. t \in GraphTask /\ t \in AnyTask
  BY DEF GraphTask, Kind, AnyTask
<1>6. StepsOf(p, t) + 1 >= 1
  <2>1. t \notin DOMAIN progress[p]
    BY <1>5 DEF IInv, InOrder
  <2> QED
    BY <2>1 DEF StepsOf
<1>7. Others(p, t) /\ t \in finished'[p] /\ t \notin DOMAIN progress'[p] /\ (t \in Started(p) \/ MayStart(p, t))
  BY <1>2, <1>6, Effect
<1>8. a \in {0, 1} /\ b \in {0, 1} /\ a # b
  BY <1>3, TwoArrays
<1> HIDE DEF a, b
<1>9. /\ array'[p] = [array[p] EXCEPT ![b] =
           [c \in grid.cell |-> IF c \in grid.inside[l] THEN Update(p, array[p][a], c, it) ELSE @[c]]]
      /\ \A q \in Process : q # p => array'[q] = array[q]
      /\ array' = [q \in Process |-> array'[q]]
  BY <1>2 DEF Right, MemoryOK, Computed
<1>10. /\ array'[p] = [e \in {0, 1} |-> array'[p][e]]
       /\ \A e \in {0, 1} : e # b => array'[p][e] = array[p][e]
       /\ array'[p][b] = [c \in grid.cell |->
            IF c \in grid.inside[l] THEN Update(p, array[p][a], c, it) ELSE array[p][b][c]]
  BY <1>8, <1>9 DEF Right, MemoryOK
<1>11. MemoryOK'
  <2>1. Process' = Process /\ RemoteFaces' = RemoteFaces /\ Channel' = Channel
    BY <1>2, SameGrid
  <2>2. \A q \in Process : array'[q] = [e \in {0, 1} |-> array'[q][e]]
    BY <1>9, <1>10 DEF Right, MemoryOK
  <2> QED
    BY <1>2, <1>9, <2>1, <2>2 DEF Right, MemoryOK
<1>12. Surrounded' /\ ArraysRight' /\ OnlyRightValues'
  <2>1. CellsOf(p, l, "Compute") = grid.inside[l]
    BY DEF CellsOf
  <2>2. ASSUME NEW q \in Process, NEW e \in {0, 1}, NEW c \in grid.cell
        PROVE  array'[q][e][c] = array[q][e][c]
                 \/ (q = p /\ e = NextArray(it) /\ c \in CellsOf(p, l, "Compute"))
    BY <1>9, <1>10, <2>1 DEF b
  <2>3. ASSUME NEW c \in CellsOf(p, l, "Compute") PROVE array'[p][NextArray(it)][c] = Value(Global(p, c), it + 1)
    <3>1. c \in grid.inside[l] /\ c \in grid.cell
      BY <1>4, <2>1, InsideKnown
    <3>2. Update(p, array[p][a], c, it) = Value(Global(p, c), it + 1)
      BY <1>2, <3>1, ComputeValues DEF a
    <3> QED
      BY <1>10, <3>1, <3>2 DEF b
  <2> QED
    BY <1>2, <1>7, <2>2, <2>3, ArraysWritten DEF Right
<1>13. PhasesOK'
  BY <1>2, <1>5, <1>7, PhasesKept DEF Right
<1>14. StepsOK'
  BY <1>2, <1>7, StepsKept DEF Right
<1>15. PacksRight'
  BY <1>2, <1>7, PacksKept DEF Right
<1>16. ChannelsRight'
  BY <1>2, <1>4, <1>7, ChannelsKept DEF Right
<1>17. TokensRight'
  BY <1>2, <1>7, TokensKept DEF Right
<1> QED
  BY <1>11, <1>12, <1>13, <1>14, <1>15, <1>16, <1>17 DEF Right

\* Pack reads the cells that the Compute of the same iteration wrote,
LEMMA PackValues ==
  ASSUME IInv, Right, NEW p \in Process, NEW l \in Local, NEW it \in Iteration,
         IsLive(p, <<"Pack", l, it>>), NEW f \in Faces, Type(p, l, f) = "REMOTE"
  PROVE  Packed(array[p][NextArray(it)], l, f) = Message(p, l, f, it)
<1>1. "Compute" \in Kind /\ "Pack" \in Kind
  BY DEF Kind
<1>2. /\ it \in Nat /\ nIters \in Nat /\ it + 1 \in 0..nIters
      /\ \A i \in Nat : Done(p, "Pack", l, i) <=> i < it
      /\ \A u \in Dependencies(p, <<"Pack", l, it>>) : u \in finished[p]
      /\ \A m \in Local : Done(p, "Reset", m, 0)
  BY <1>1, LiveFacts DEF Right
<1>3. PICK g : InUse(g)
  BY <1>1, LiveFacts DEF Right
<1>4. Done(p, "Compute", l, it)
  BY <1>2, DependsOn DEF Done
<1>5. ~Done(p, "Compute", l, it + 1 + 1)
  <2>1. ~Done(p, "Pack", l, it) /\ it + 1 + 1 \in Nat /\ it < it + 1 + 1
    BY <1>2
  <2> QED
    BY <1>2, <2>1, NotAhead DEF Right
<1>6. Holds(p, l, "Compute", it + 1)
  <2> DEFINE n == it + 1
  <2>1. n \in 0..nIters /\ n - 1 = it
    BY <1>2
  <2>2. Done(p, "Compute", l, n - 1) /\ ~Done(p, "Compute", l, n + 1)
    BY <1>4, <1>5, <2>1
  <2>3. <<"Reset", l, 0>> \in Started(p)
    BY <1>2 DEF Started, Done
  <2> HIDE DEF n
  <2>4. Holds(p, l, "Compute", n)
    BY <2>1, <2>2, <2>3 DEF Right, ArraysRight
  <2> QED
    BY <2>4 DEF n
<1>7. ASSUME NEW o \in DOMAIN grid.own[<<l, f>>] PROVE grid.own[<<l, f>>][o] \in grid.inside[l]
  <2>1. PICK i \in DOMAIN Remote(p, l) : Remote(p, l)[i] = f
    BY <1>3, PlaceOfFace
  <2> QED
    BY <1>3, <2>1, LayerCells
<1>8. \A c \in grid.inside[l] : array[p][NextArray(it)][c] = Value(Global(p, c), it + 1)
  <2>1. NextArray(it) = ThisArray(it + 1)
    BY <1>2, TwoArrays
  <2> QED
    BY <1>6, <2>1 DEF Holds, CellsOf
<1> QED
  BY <1>7, <1>8 DEF Packed, Message

\* and so does Pack.
LEMMA PackKeepsRight ==
  ASSUME IInv, Right, NEW p \in Process, NEW l \in Local, NEW it \in Iteration, Pack(p, l, it)
  PROVE  Right'
<1> DEFINE t == <<"Pack", l, it>>
<1>1. "Pack" \in Kind
  BY DEF Kind
<1>2. /\ TakeStep(p, t, 1) /\ IsLive(p, t) /\ grid' = grid /\ phase' = phase
      /\ array' = array /\ unpackBuffer' = unpackBuffer /\ channel' = channel
      /\ packBuffer' = [r \in RemoteFaces |->
           IF r[1] = p /\ r[2] = l THEN Packed(array[p][NextArray(it)], l, r[3]) ELSE packBuffer[r]]
  BY DEF Pack, TakeStep
<1>3. it \in Nat /\ \A i \in Nat : Done(p, "Pack", l, i) <=> i < it
  BY <1>1, <1>2, LiveFacts DEF Right
<1>4. PICK g : InUse(g)
  BY <1>1, <1>2, LiveFacts DEF Right
<1>5. t \in GraphTask /\ t \in AnyTask
  BY DEF GraphTask, Kind, AnyTask
<1>6. StepsOf(p, t) + 1 >= 1
  <2>1. t \notin DOMAIN progress[p]
    BY <1>5 DEF IInv, InOrder
  <2> QED
    BY <2>1 DEF StepsOf
<1>7. Others(p, t) /\ t \in finished'[p] /\ t \notin DOMAIN progress'[p] /\ (t \in Started(p) \/ MayStart(p, t))
  BY <1>2, <1>6, Effect
<1>8. PacksRight'
  <2>1. /\ Process' = Process /\ Local' = Local /\ Iteration' = Iteration
        /\ \A q, m, f : Type(q, m, f)' = Type(q, m, f)
        /\ \A q, m, f, n : Message(q, m, f, n)' = Message(q, m, f, n)
    BY <1>2, SameGrid
  <2> SUFFICES ASSUME NEW q \in Process, NEW m \in Local, NEW n \in Iteration, NEW f \in Faces,
                      Type(q, m, f) = "REMOTE", Done(q, "Pack", m, n)', ~Done(q, "Pack", m, n + 1)'
               PROVE  packBuffer'[<<q, m, f>>] = Message(q, m, f, n)
    BY <2>1 DEF PacksRight
  <2>2. <<q, m, f>> \in RemoteFaces
    BY DEF RemoteFaces, Type
  <2>3. CASE q = p /\ m = l
    <3>1. n = it
      <4>1. n \in Nat /\ n + 1 \in Nat
        BY IterationsAreNat DEF Iteration
      <4>2. n # it => Done(p, "Pack", l, n)
        BY <1>7, <2>3 DEF Others, Done
      <4>3. ~(n + 1 < it)
        <5>1. n + 1 < it => <<"Pack", l, n + 1>> \in finished[p]
          BY <1>3, <4>1 DEF Done
        <5>2. n + 1 < it => <<"Pack", l, n + 1>> # t
          BY <1>3, <4>1
        <5> QED
          BY <1>7, <2>3, <5>1, <5>2 DEF Others, Done
      <4>4. n + 1 # it
        BY <1>7, <2>3 DEF Done
      <4> QED
        BY <1>3, <4>1, <4>2, <4>3, <4>4
    <3>2. packBuffer'[<<q, m, f>>] = Packed(array[p][NextArray(it)], l, f)
      BY <1>2, <2>2, <2>3
    <3> QED
      BY <1>2, <2>3, <3>1, <3>2, PackValues
  <2>4. CASE ~(q = p /\ m = l)
    <3>1. \A i : Done(q, "Pack", m, i)' <=> Done(q, "Pack", m, i)
      BY <1>7, <2>4 DEF Others, Done
    <3>2. packBuffer'[<<q, m, f>>] = packBuffer[<<q, m, f>>]
      BY <1>2, <2>2, <2>4
    <3> QED
      BY <3>1, <3>2 DEF Right, PacksRight
  <2> QED
    BY <2>3, <2>4
<1>9. MemoryOK'
  <2>1. Process' = Process /\ RemoteFaces' = RemoteFaces /\ Channel' = Channel
    BY <1>2, SameGrid
  <2> QED
    BY <1>2, <2>1 DEF Right, MemoryOK
<1>10. PhasesOK'
  BY <1>2, <1>5, <1>7, PhasesKept DEF Right
<1>11. StepsOK'
  BY <1>2, <1>7, StepsKept DEF Right
<1>12. Surrounded' /\ ArraysRight' /\ OnlyRightValues'
  BY <1>2, <1>7, ArraysKept DEF Right
<1>13. ChannelsRight'
  BY <1>2, <1>4, <1>7, ChannelsKept DEF Right
<1>14. TokensRight'
  BY <1>2, <1>7, TokensKept DEF Right
<1> QED
  BY <1>8, <1>9, <1>10, <1>11, <1>12, <1>13, <1>14 DEF Right

-----------------------------------------------------------------------------
\* Unpack, and the channels as windows of the messages.

\* A cell after Unpack: as it was, or from the token of a face whose ghost cell it is.
LEMMA UnpackedCell ==
  ASSUME NEW u, NEW l, NEW message, NEW c \in grid.cell
  PROVE  \/ /\ Unpacked(u, l, message)[c] = u[c]
            /\ \A f \in DOMAIN message : \A o \in DOMAIN message[f] : grid.ghost[<<l, f>>][o] # c
         \/ \E f \in DOMAIN message : \E o \in DOMAIN message[f] :
              grid.ghost[<<l, f>>][o] = c /\ Unpacked(u, l, message)[c] = message[f][o]
<1> DEFINE Of(f) == {f} \X DOMAIN message[f]
           Goes(f, o) == grid.ghost[<<l, f>>][o]
           All == UNION {Of(f) : f \in DOMAIN message}
           From == {s \in All : Goes(s[1], s[2]) = c}
           Chosen == CHOOSE s \in From : TRUE
<1>1. Unpacked(u, l, message)[c] = IF From = {} THEN u[c] ELSE message[Chosen[1]][Chosen[2]]
  BY DEF Unpacked
<1>2. \A s : s \in All <=> \E f \in DOMAIN message : s \in Of(f)
  OBVIOUS
<1>3. \A f, s : s \in Of(f) <=> \E o \in DOMAIN message[f] : s = <<f, o>>
  OBVIOUS
<1>4. CASE From = {}
  <2>1. ASSUME NEW f \in DOMAIN message, NEW o \in DOMAIN message[f] PROVE Goes(f, o) # c
    <3>1. <<f, o>> \in All
      BY <1>2, <1>3
    <3>2. <<f, o>> \notin From
      BY <1>4
    <3> QED
      BY <3>1, <3>2
  <2> QED
    BY <1>1, <1>4, <2>1
<1>5. CASE From # {}
  <2>1. Chosen \in From
    BY <1>5
  <2>2. Chosen \in All /\ Goes(Chosen[1], Chosen[2]) = c
    BY <2>1
  <2> HIDE DEF Chosen, All, From, Of
  <2>3. PICK f \in DOMAIN message : Chosen \in Of(f)
    BY <1>2, <2>2
  <2>4. PICK o \in DOMAIN message[f] : Chosen = <<f, o>>
    BY <1>3, <2>3
  <2>5. Unpacked(u, l, message)[c] = message[f][o] /\ grid.ghost[<<l, f>>][o] = c
    BY <1>1, <1>5, <2>2, <2>4
  <2> QED
    BY <2>5
<1> QED
  BY <1>4, <1>5

\* The tokens of an Unpack task that may run.
LEMMA TokensThere ==
  ASSUME IInv, Right, NEW p \in Process, NEW l \in Local, NEW it \in Iteration,
         IsLive(p, <<"Unpack", l, it>>), NEW f \in Faces, Type(p, l, f) = "REMOTE"
  PROVE  /\ channel[ConsumerEnd(p, l, f)] # <<>>
         /\ unpackBuffer[<<p, l, f>>]
              = Message(Neighbor(p, l, f)[1], Neighbor(p, l, f)[2], Opposite(f), it)
<1>1. "Unpack" \in Kind
  BY DEF Kind
<1>2. /\ it \in Nat /\ \A i \in Nat : Done(p, "Unpack", l, i) <=> i < it
      /\ \A u \in Dependencies(p, <<"Unpack", l, it>>) : u \in finished[p]
  BY <1>1, LiveFacts DEF Right
<1>3. PICK g : InUse(g)
  BY <1>1, LiveFacts DEF Right
<1>4. PICK j \in DOMAIN Remote(p, l) : Remote(p, l)[j] = f
  BY <1>3, PlaceOfFace
<1>5. Past(p, "Receive", l, it, j) /\ ~Done(p, "Unpack", l, it)
  <2>1. <<"Receive", l, it>> \in finished[p]
    BY <1>2, DependsOn
  <2>2. ~Done(p, "Unpack", l, it)
    BY <1>2
  <2> QED
    BY <2>1, <2>2 DEF Past, Done
<1> QED
  BY <1>4, <1>5 DEF Right, TokensRight

\* The messages behind all faces of a block fill its ghost cells, and nothing else.
AllMessages(token, p, l, it) ==
  /\ DOMAIN token = {f \in Faces : Type(p, l, f) = "REMOTE"}
  /\ \A f \in DOMAIN token :
       token[f] = Message(Neighbor(p, l, f)[1], Neighbor(p, l, f)[2], Opposite(f), it)

LEMMA MessagesFill ==
  ASSUME NEW g, InUse(g), NEW p \in Process, NEW l \in Local, NEW it, NEW token,
         AllMessages(token, p, l, it), NEW u, NEW c \in grid.cell
  PROVE  /\ c \in Ghosts(p, l) => Unpacked(u, l, token)[c] = Value(Global(p, c), it + 1)
         /\ c \notin Ghosts(p, l) => Unpacked(u, l, token)[c] = u[c]
<1> PICK S : S = DOMAIN token
  OBVIOUS
<1>1. ASSUME NEW f \in S
      PROVE  /\ DOMAIN token[f] = DOMAIN grid.ghost[<<l, f>>]
             /\ \A o \in DOMAIN token[f] :
                  /\ grid.ghost[<<l, f>>][o] \in Ghosts(p, l)
                  /\ token[f][o] = Value(Global(p, grid.ghost[<<l, f>>][o]), it + 1)
  <2> DEFINE q == Neighbor(p, l, f)[1]
             m == Neighbor(p, l, f)[2]
             h == Opposite(f)
  <2>1. f \in Faces /\ Type(p, l, f) = "REMOTE"
    BY DEF AllMessages
  <2>2. Neighbor(p, l, f) = <<q, m>> /\ h = Opposite(f)
    BY <2>1, Fields DEF InUse
  <2>3. token[f] = Message(q, m, h, it)
    BY DEF AllMessages
  <2> HIDE DEF q, m, h
  <2>4. /\ DOMAIN grid.ghost[<<l, f>>] = DOMAIN grid.own[<<m, h>>]
        /\ \A o \in DOMAIN grid.ghost[<<l, f>>] :
             Global(p, grid.ghost[<<l, f>>][o]) = Global(q, grid.own[<<m, h>>][o])
    BY <2>1, <2>2, RemoteKnown
  <2>5. /\ DOMAIN token[f] = DOMAIN grid.own[<<m, h>>]
        /\ \A o \in DOMAIN token[f] : token[f][o] = Value(Global(q, grid.own[<<m, h>>][o]), it + 1)
    BY <2>3 DEF Message
  <2>6. ASSUME NEW o \in DOMAIN token[f] PROVE grid.ghost[<<l, f>>][o] \in Ghosts(p, l)
    <3>1. IsGhost(p, l, f, grid.ghost[<<l, f>>][o])
      BY <2>1, <2>4, <2>5 DEF IsGhost
    <3> QED
      BY <2>1, <3>1, GhostsOfBlock
  <2> QED
    BY <2>4, <2>5, <2>6
<1>2. \A f \in Faces : IsGhost(p, l, f, c) =>
        f \in S /\ \E o \in DOMAIN grid.ghost[<<l, f>>] : c = grid.ghost[<<l, f>>][o]
  BY DEF IsGhost, AllMessages
<1>3. \/ /\ Unpacked(u, l, token)[c] = u[c]
         /\ \A f \in S : \A o \in DOMAIN token[f] : grid.ghost[<<l, f>>][o] # c
      \/ \E f \in S : \E o \in DOMAIN token[f] :
           grid.ghost[<<l, f>>][o] = c /\ Unpacked(u, l, token)[c] = token[f][o]
  <2>1. \/ /\ Unpacked(u, l, token)[c] = u[c]
           /\ \A f \in DOMAIN token : \A o \in DOMAIN token[f] : grid.ghost[<<l, f>>][o] # c
        \/ \E f \in DOMAIN token : \E o \in DOMAIN token[f] :
             grid.ghost[<<l, f>>][o] = c /\ Unpacked(u, l, token)[c] = token[f][o]
    BY ONLY c \in grid.cell, UnpackedCell
  <2> QED
    BY <2>1
<1>4. CASE c \in Ghosts(p, l)
  <2>1. PICK f \in Faces : IsGhost(p, l, f, c)
    BY <1>4, GhostsOfBlock
  <2>2. f \in S /\ \E o \in DOMAIN token[f] : c = grid.ghost[<<l, f>>][o]
    BY <1>1, <1>2, <2>1
  <2>3. PICK e \in S : \E o \in DOMAIN token[e] :
           grid.ghost[<<l, e>>][o] = c /\ Unpacked(u, l, token)[c] = token[e][o]
    BY <1>3, <2>2
  <2> QED
    BY <1>1, <1>4, <2>3
<1>5. CASE c \notin Ghosts(p, l)
  <2>1. ~\E f \in S : \E o \in DOMAIN token[f] :
           grid.ghost[<<l, f>>][o] = c /\ Unpacked(u, l, token)[c] = token[f][o]
    BY <1>1, <1>5
  <2> QED
    BY <1>3, <1>5, <2>1
<1> QED
  BY <1>4, <1>5

\* With the right tokens, ghost cells get the values of the next iteration and no other cell changes.
LEMMA UnpackValues ==
  ASSUME IInv, Right, NEW p \in Process, NEW l \in Local, NEW it \in Iteration,
         IsLive(p, <<"Unpack", l, it>>), NEW token,
         DOMAIN token = {f \in Faces : Type(p, l, f) = "REMOTE"},
         \A f \in DOMAIN token : token[f] = unpackBuffer[<<p, l, f>>],
         NEW u, NEW c \in grid.cell
  PROVE  /\ c \in Ghosts(p, l) => Unpacked(u, l, token)[c] = Value(Global(p, c), it + 1)
         /\ c \notin Ghosts(p, l) => Unpacked(u, l, token)[c] = u[c]
<1>1. "Unpack" \in Kind
  BY DEF Kind
<1>2. PICK g : InUse(g)
  BY <1>1, LiveFacts DEF Right
<1>3. \A f \in DOMAIN token :
        token[f] = Message(Neighbor(p, l, f)[1], Neighbor(p, l, f)[2], Opposite(f), it)
  BY TokensThere
<1>4. AllMessages(token, p, l, it)
  BY <1>3 DEF AllMessages
<1> QED
  BY <1>2, <1>4, MessagesFill

\* The messages r to s - 1 of a face, as they are in a channel.
Window(p, l, f, r, s) == [k \in 1..(s - r) |-> Message(p, l, f, r + k - 1)]

\* The messages of a face, over all iterations.
Messages(p, l, f) == {Message(p, l, f, n) : n \in Nat}

\* A window is a sequence of messages.
LEMMA WindowIsSequence ==
  ASSUME NEW p, NEW l, NEW f, NEW r \in Nat, NEW s \in Nat, r <= s
  PROVE  /\ Len(Window(p, l, f, r, s)) = s - r
         /\ Window(p, l, f, r, s) \in Seq(Messages(p, l, f))
<1>1. s - r \in Nat
  OBVIOUS
<1>2. \A k \in 1..(s - r) : r + k - 1 \in Nat
  OBVIOUS
<1>3. \A k \in 1..(s - r) : Message(p, l, f, r + k - 1) \in Messages(p, l, f)
  BY <1>2 DEF Messages
<1> QED
  BY <1>1, <1>3 DEF Window

\* The library states a tail only through its elements.
LEMMA TailIsShift ==
  ASSUME NEW S, NEW w \in Seq(S), w # <<>>
  PROVE  Tail(w) = [k \in 1..(Len(w) - 1) |-> w[k + 1]]
<1> DEFINE v == Tail(w)
<1>1. v \in Seq(S) /\ Len(v) = Len(w) - 1
  OBVIOUS
<1>2. \A k \in 1..(Len(w) - 1) : v[k] = w[k + 1]
  OBVIOUS
<1> HIDE DEF v
<1>3. v = [k \in 1..(Len(w) - 1) |-> v[k]]
  BY <1>1
<1>4. v = [k \in 1..(Len(w) - 1) |-> w[k + 1]]
  BY <1>2, <1>3
<1> QED
  BY <1>4 DEF v

\* What a message sent or freed does to a channel.
Slides(w, p, l, f, r, s) ==
  /\ w # <<>> <=> r < s
  /\ r < s => Head(w) = Message(p, l, f, r) /\ Tail(w) = Window(p, l, f, r + 1, s)
  /\ Append(w, Message(p, l, f, s)) = Window(p, l, f, r, s + 1)

LEMMA WindowSlides ==
  ASSUME NEW p, NEW l, NEW f, NEW r \in Nat, NEW s \in Nat, r <= s, NEW w, w = Window(p, l, f, r, s)
  PROVE  Slides(w, p, l, f, r, s)
<1> DEFINE S == Messages(p, l, f)
<1>1. w \in Seq(S) /\ Len(w) = s - r
  BY WindowIsSequence
<1>2. \A k \in 1..(s - r) : w[k] = Message(p, l, f, r + k - 1)
  BY DEF Window
<1>3. Message(p, l, f, s) \in S
  BY DEF Messages
<1> HIDE DEF S
<1>4. w # <<>> <=> r < s
  BY <1>2, <1>1
<1>5. ASSUME r < s
      PROVE  Head(w) = Message(p, l, f, r) /\ Tail(w) = Window(p, l, f, r + 1, s)
  <2>1. Head(w) = w[1] /\ 1 \in 1..(s - r) /\ r + 1 - 1 = r
    BY <1>2, <1>1, <1>5
  <2>2. Tail(w) = [k \in 1..(s - (r + 1)) |-> w[k + 1]]
    <3>1. Len(w) - 1 = s - (r + 1)
      BY <1>2, <1>1
    <3>2. Tail(w) = [k \in 1..(Len(w) - 1) |-> w[k + 1]]
      BY <1>2, <1>1, <1>4, <1>5, TailIsShift
    <3> QED
      BY <3>1, <3>2
  <2>3. \A k \in 1..(s - (r + 1)) : w[k + 1] = Message(p, l, f, r + 1 + k - 1)
    BY <1>2, <1>1
  <2>4. Tail(w) = Window(p, l, f, r + 1, s)
    BY <2>2, <2>3 DEF Window
  <2> QED
    BY <1>2, <1>1, <2>1, <2>4
<1>6. Append(w, Message(p, l, f, s)) = Window(p, l, f, r, s + 1)
  <2> DEFINE v == Append(w, Message(p, l, f, s))
  <2>1. Len(v) = s + 1 - r /\ v \in Seq(S)
    BY <1>2, <1>1, <1>3
  <2>2. ASSUME NEW k \in 1..(s + 1 - r) PROVE v[k] = Message(p, l, f, r + k - 1)
    <3>1. CASE k = s + 1 - r
      <4>1. v[k] = Message(p, l, f, s) /\ r + k - 1 = s
        BY <1>2, <1>1, <3>1
      <4> QED
        BY <4>1
    <3>2. CASE k # s + 1 - r
      <4>1. k \in 1..(s - r)
        BY <3>2
      <4>2. v[k] = w[k]
        BY <1>2, <1>1, <4>1
      <4> QED
        BY <1>2, <1>1, <4>1, <4>2
    <3> QED
      BY <3>1, <3>2
  <2> HIDE DEF v
  <2>3. v = [k \in 1..(s + 1 - r) |-> v[k]]
    BY <2>1
  <2>4. v = [k \in 1..(s + 1 - r) |-> Message(p, l, f, r + k - 1)]
    BY <2>2, <2>3
  <2> QED
    BY <2>4 DEF v, Window
<1> QED
  BY <1>4, <1>5, <1>6 DEF Slides

-----------------------------------------------------------------------------
\* Send and Receive.

\* Where a Send task is in its list of faces.
LEMMA SendPlace ==
  ASSUME IInv, Right, NEW p \in Process, NEW l \in Local, NEW it \in Iteration,
         IsLive(p, <<"Send", l, it>>), NEW n, n = StepsOf(p, <<"Send", l, it>>)
  PROVE  /\ n \in Nat /\ Len(Remote(p, l)) \in Nat /\ DOMAIN Remote(p, l) = 1..Len(Remote(p, l))
         /\ n < Len(Remote(p, l)) \/ (n = 0 /\ Len(Remote(p, l)) = 0)
         /\ n < Len(Remote(p, l)) => n + 1 \in DOMAIN Remote(p, l)
         /\ \A i \in DOMAIN Remote(p, l) : Past(p, "Send", l, it, i) <=> i <= n
<1> DEFINE t == <<"Send", l, it>>
<1>1. "Send" \in Kind
  BY DEF Kind
<1>2. PICK g : InUse(g)
  BY <1>1, LiveFacts DEF Right
<1>3. DOMAIN Remote(p, l) = 1..Len(Remote(p, l)) /\ Len(Remote(p, l)) \in Nat
  BY <1>2, PlaceOfFace
<1>4. t \in DOMAIN progress[p] => progress[p][t] \in 1..(Len(Remote(p, l)) - 1)
  BY DEF Right, StepsOK
<1>5. n = IF t \in DOMAIN progress[p] THEN progress[p][t] ELSE 0
  BY DEF StepsOf
<1>6. ~Done(p, "Send", l, it)
  <2>1. it \in Nat /\ \A i \in Nat : Done(p, "Send", l, i) <=> i < it
    BY <1>1, LiveFacts DEF Right
  <2> QED
    BY <2>1
<1>7. \A i : Past(p, "Send", l, it, i) <=> t \in DOMAIN progress[p] /\ i <= progress[p][t]
  BY <1>6 DEF Past
<1>8. \A i \in DOMAIN Remote(p, l) : Past(p, "Send", l, it, i) <=> i <= n
  BY <1>3, <1>4, <1>5, <1>7
<1> QED
  BY <1>3, <1>4, <1>5, <1>8

\* Send appends the message of its iteration, and no channel loses one.
LEMMA SendKeepsChannels ==
  ASSUME IInv, Right, NEW p \in Process, NEW l \in Local, NEW it \in Iteration, Send(p, l, it)
  PROVE  /\ ChannelsRight'
         /\ \A c \in Channel : channel[c] # <<>> => channel'[c] # <<>>
<1> DEFINE t == <<"Send", l, it>>
<1> PICK faces, n, f, c : /\ faces = Remote(p, l) /\ n = StepsOf(p, t)
                          /\ f = faces[n + 1] /\ c = ProducerEnd(p, l, f)
  OBVIOUS
<1>1. "Send" \in Kind /\ t[1] = "Send"
  BY DEF Kind
<1>2. TakeStep(p, t, Len(faces)) /\ IsLive(p, t) /\ grid' = grid /\ packBuffer' = packBuffer
  BY DEF Send, TakeStep
<1>3. /\ n < Len(faces) => channel' = [channel EXCEPT ![c] = Append(@, packBuffer[<<p, l, f>>])]
      /\ ~(n < Len(faces)) => channel' = channel
  BY DEF Send
<1>4. /\ n \in Nat /\ Len(faces) \in Nat /\ DOMAIN faces = 1..Len(faces)
      /\ n < Len(faces) \/ (n = 0 /\ Len(faces) = 0)
      /\ n < Len(faces) => n + 1 \in DOMAIN faces
      /\ \A i \in DOMAIN faces : Past(p, "Send", l, it, i) <=> i <= n
  BY <1>2, SendPlace
<1>5. /\ it \in Nat /\ \A i \in Nat : Done(p, "Send", l, i) <=> i < it
      /\ \A u \in Dependencies(p, t) : u \in finished[p]
  BY <1>1, <1>2, LiveFacts DEF Right
<1>6. PICK g : InUse(g)
  BY <1>1, <1>2, LiveFacts DEF Right
<1>7. /\ Others(p, t)
      /\ n + 1 >= Len(faces) => t \in finished'[p]
      /\ ~(n + 1 >= Len(faces)) => t \notin finished'[p] /\ t \in DOMAIN progress'[p] /\ progress'[p][t] = n + 1
  BY <1>2, Effect
<1>8. /\ Process' = Process /\ Local' = Local /\ Iteration' = Iteration
      /\ \A q, m : Remote(q, m)' = Remote(q, m)
      /\ \A q, m, h : Neighbor(q, m, h)' = Neighbor(q, m, h) /\ ProducerEnd(q, m, h)' = ProducerEnd(q, m, h)
      /\ \A q, m, h, j : Message(q, m, h, j)' = Message(q, m, h, j)
  BY <1>2, SameGrid
<1>9. Iteration \subseteq Nat
  BY IterationsAreNat DEF Iteration
\* After this step one more face has been served.
<1>10. ASSUME NEW i \in DOMAIN faces PROVE Past(p, "Send", l, it, i)' <=> i <= n + 1
  <2>1. i \in 1..Len(faces)
    BY <1>4
  <2>2. CASE n + 1 >= Len(faces)
    BY <1>4, <1>7, <2>1, <2>2 DEF Past, Done
  <2>3. CASE ~(n + 1 >= Len(faces))
    BY <1>4, <1>7, <2>1, <2>3 DEF Past, Done
  <2> QED
    BY <2>2, <2>3
<1>11. ASSUME NEW q \in Process, NEW m, NEW j, NEW i, <<q, m, j>> # <<p, l, it>>
       PROVE  Past(q, "Send", m, j, i)' <=> Past(q, "Send", m, j, i)
  <2>1. q # p \/ t # <<"Send", m, j>>
    BY <1>11
  <2> QED
    BY <1>7, <2>1, PastKept
<1>12. ASSUME NEW q \in Process, NEW m, NEW j, NEW i
       PROVE  /\ Past(q, "Unpack", m, j, i)' <=> Past(q, "Unpack", m, j, i)
              /\ Done(q, "Unpack", m, j)' <=> Done(q, "Unpack", m, j)
  <2>1. t # <<"Unpack", m, j>>
    OBVIOUS
  <2> QED
    BY <1>7, <2>1, PastKept
<1>13. ASSUME n < Len(faces)
       PROVE  /\ f \in Faces /\ Type(p, l, f) = "REMOTE" /\ c \in Channel
              /\ packBuffer[<<p, l, f>>] = Message(p, l, f, it)
  <2>1. f \in Faces /\ Type(p, l, f) = "REMOTE" /\ c \in Channel
    BY <1>4, <1>6, <1>13, RemoteFace
  <2>2. Done(p, "Pack", l, it)
    BY <1>5, DependsOn DEF Done
  <2>3. ~Done(p, "Send", l, it) /\ it + 1 \in Nat /\ it < it + 1
    BY <1>5
  <2>4. ~Done(p, "Pack", l, it + 1)
    BY <1>5, <2>3, NotAhead DEF Right
  <2> QED
    BY <2>1, <2>2, <2>4 DEF Right, PacksRight
\* The channel of the face served takes the message of this iteration.
<1>14. ASSUME n < Len(faces)
       PROVE  \E s, r \in Nat : /\ r <= s /\ Holding(p, l, f, n + 1, s, r)'
                                /\ channel'[c] # <<>>
  <2>1. PICK s \in Nat, r \in Nat : r <= s /\ Holding(p, l, f, n + 1, s, r)
    BY <1>4, <1>14 DEF Right, ChannelsRight
  <2> PICK q, m : q = Neighbor(p, l, f)[1] /\ m = Neighbor(p, l, f)[2]
    OBVIOUS
  <2>2. /\ \A j \in Iteration : Past(p, "Send", l, j, n + 1) <=> j < s
        /\ \A j \in Iteration : Done(q, "Unpack", m, j) <=> j < r
        /\ channel[c] = Window(p, l, f, r, s)
    BY <2>1 DEF Holding, Window
  <2>3. q \in Process
    BY <1>4, <1>6, <1>14, RemoteFace
  <2>4. s = it
    <3>1. ~(it < s)
      BY <1>4, <1>14, <2>2
    <3>2. it > 0 => it - 1 \in Iteration /\ Done(p, "Send", l, it - 1)
      BY <1>5, IterationsAreNat DEF Iteration
    <3>3. it > 0 => it - 1 < s
      BY <2>2, <3>2 DEF Past
    <3> QED
      BY <1>5, <3>1, <3>3
  <2>5. \A j \in Iteration : Past(p, "Send", l, j, n + 1)' <=> j < s + 1
    <3>1. Past(p, "Send", l, it, n + 1)'
      BY <1>4, <1>10, <1>14
    <3>2. \A j \in Iteration : j # it => (Past(p, "Send", l, j, n + 1)' <=> Past(p, "Send", l, j, n + 1))
      BY <1>11
    <3> QED
      BY <1>9, <2>2, <2>4, <3>1, <3>2
  <2>6. \A j \in Iteration : Done(q, "Unpack", m, j)' <=> j < r
    BY <1>12, <2>2, <2>3
  <2>7. channel'[c] = Append(channel[c], Message(p, l, f, s))
    <3>1. channel' = [channel EXCEPT ![c] = Append(@, packBuffer[<<p, l, f>>])]
      BY <1>3, <1>14
    <3> QED
      BY <1>13, <1>14, <2>4, <3>1 DEF Right, MemoryOK
  <2>8. channel'[c] = Window(p, l, f, r, s + 1)
    <3>1. PICK w : w = channel[c]
      OBVIOUS
    <3>2. w = Window(p, l, f, r, s) /\ r <= s
      BY <2>1, <2>2, <3>1
    <3>3. Slides(w, p, l, f, r, s)
      BY <3>2, WindowSlides
    <3> QED
      BY <2>7, <3>1, <3>3 DEF Slides
  <2>9. s + 1 \in Nat /\ r <= s + 1 /\ r < s + 1
    BY <2>1
  <2>10. Holding(p, l, f, n + 1, s + 1, r)'
    BY <1>8, <2>5, <2>6, <2>8 DEF Holding, Window
  <2>11. channel'[c] # <<>>
    <3>1. PICK w : w = Window(p, l, f, r, s + 1)
      OBVIOUS
    <3>2. Slides(w, p, l, f, r, s + 1)
      BY <2>9, <3>1, WindowSlides
    <3> QED
      BY <2>8, <2>9, <3>1, <3>2 DEF Slides
  <2> QED
    BY <2>9, <2>10, <2>11
<1>15. ASSUME NEW q \in Process, NEW m \in Local, NEW i \in DOMAIN Remote(q, m),
              <<q, m, i>> # <<p, l, n + 1>> \/ ~(n < Len(faces))
       PROVE  \E s, r \in Nat : r <= s /\ Holding(q, m, Remote(q, m)[i], i, s, r)'
  <2> PICK h, u, v : h = Remote(q, m)[i] /\ u = Neighbor(q, m, h)[1] /\ v = Neighbor(q, m, h)[2]
    OBVIOUS
  <2>1. PICK s \in Nat, r \in Nat : r <= s /\ Holding(q, m, h, i, s, r)
    BY DEF Right, ChannelsRight
  <2>2. /\ \A j \in Iteration : Past(q, "Send", m, j, i) <=> j < s
        /\ \A j \in Iteration : Done(u, "Unpack", v, j) <=> j < r
        /\ channel[ProducerEnd(q, m, h)] = Window(q, m, h, r, s)
    BY <2>1 DEF Holding, Window
  <2>3. h \in Faces /\ u \in Process /\ ProducerEnd(q, m, h) \in Channel
    BY <1>6, RemoteFace
  <2>4. channel'[ProducerEnd(q, m, h)] = channel[ProducerEnd(q, m, h)]
    <3>1. CASE ~(n < Len(faces))
      BY <1>3, <3>1
    <3>2. CASE n < Len(faces)
      <4>1. c # ProducerEnd(q, m, h)
        <5> SUFFICES ASSUME c = ProducerEnd(q, m, h) PROVE FALSE
          OBVIOUS
        <5>1. ProducerEnd(p, l, f) = ProducerEnd(q, m, h)
          OBVIOUS
        <5>2. p = q /\ l = m /\ f = h
          BY <1>6, <5>1, ProducersApart
        <5>3. n + 1 = i
          BY <1>4, <1>6, <3>2, <5>2, PlaceOfFace
        <5> QED
          BY <1>15, <3>2, <5>2, <5>3
      <4>2. channel' = [channel EXCEPT ![c] = Append(@, packBuffer[<<p, l, f>>])]
        BY <1>3, <3>2
      <4> QED
        BY <2>3, <4>1, <4>2 DEF Right, MemoryOK
    <3> QED
      BY <3>1, <3>2
  <2>5. ASSUME NEW j \in Iteration PROVE Past(q, "Send", m, j, i)' <=> Past(q, "Send", m, j, i)
    <3>1. CASE <<q, m, j>> # <<p, l, it>>
      BY <1>11, <3>1
    <3>2. CASE <<q, m, j>> = <<p, l, it>>
      <4>1. i \in DOMAIN faces /\ i \in Nat /\ i >= 1 /\ i <= Len(faces)
        BY <1>4, <3>2
      <4>2. i # n + 1
        BY <1>4, <1>15, <3>2, <4>1
      <4>3. i <= n <=> i <= n + 1
        BY <1>4, <4>1, <4>2
      <4>4. Past(p, "Send", l, it, i)' <=> Past(p, "Send", l, it, i)
        BY <1>4, <1>10, <4>1, <4>3
      <4> QED
        BY <3>2, <4>4
    <3> QED
      BY <3>1, <3>2
  <2>6. \A j \in Iteration : Done(u, "Unpack", v, j)' <=> j < r
    BY <1>12, <2>2, <2>3
  <2>7. Holding(q, m, h, i, s, r)'
    BY <1>8, <2>2, <2>4, <2>5, <2>6 DEF Holding, Window
  <2> QED
    BY <1>8, <2>1, <2>7
<1>16. ChannelsRight'
  <2> SUFFICES ASSUME NEW q \in Process, NEW m \in Local, NEW i \in DOMAIN Remote(q, m)
               PROVE  \E s, r \in Nat : r <= s /\ Holding(q, m, Remote(q, m)[i], i, s, r)'
    BY <1>8 DEF ChannelsRight
  <2>1. CASE <<q, m, i>> = <<p, l, n + 1>> /\ n < Len(faces)
    BY <1>8, <1>14, <2>1
  <2>2. CASE <<q, m, i>> # <<p, l, n + 1>> \/ ~(n < Len(faces))
    BY <1>15, <2>2
  <2> QED
    BY <2>1, <2>2
<1>17. ASSUME NEW d \in Channel, channel[d] # <<>> PROVE channel'[d] # <<>>
  <2>1. CASE ~(n < Len(faces))
    BY <1>3, <1>17, <2>1
  <2>2. CASE n < Len(faces) /\ d = c
    BY <1>14, <2>2
  <2>3. CASE n < Len(faces) /\ d # c
    <3>1. channel' = [channel EXCEPT ![c] = Append(@, packBuffer[<<p, l, f>>])]
      BY <1>3, <2>3
    <3> QED
      BY <1>17, <2>3, <3>1 DEF Right, MemoryOK
  <2> QED
    BY <2>1, <2>2, <2>3
<1> QED
  BY <1>16, <1>17

\* Send leaves everything as it should be,
LEMMA SendKeepsRight ==
  ASSUME IInv, Right, NEW p \in Process, NEW l \in Local, NEW it \in Iteration, Send(p, l, it)
  PROVE  Right'
<1> DEFINE t == <<"Send", l, it>>
<1>1. "Send" \in Kind /\ t[1] = "Send" /\ t[2] = l
  BY DEF Kind
<1>2. /\ TakeStep(p, t, Len(Remote(p, l))) /\ IsLive(p, t) /\ grid' = grid /\ phase' = phase
      /\ array' = array /\ packBuffer' = packBuffer /\ unpackBuffer' = unpackBuffer
  BY DEF Send, TakeStep
<1>3. PICK n : n = StepsOf(p, t)
  OBVIOUS
<1>4. n \in Nat /\ Len(Remote(p, l)) \in Nat
  BY <1>2, <1>3, SendPlace
<1>5. PICK g : InUse(g)
  BY <1>1, <1>2, LiveFacts DEF Right
<1>6. t \in GraphTask /\ t \in AnyTask
  BY <1>1 DEF GraphTask, AnyTask
<1>7. Others(p, t) /\ (t \in Started(p) \/ MayStart(p, t))
  BY <1>2, Effect
<1>8. t \in DOMAIN progress'[p] => progress'[p][t] = n + 1 /\ n + 1 < Len(Remote(p, l))
  BY <1>2, <1>3, <1>4, Effect
<1>9. channel' = [c \in Channel |-> channel'[c]]
  BY DEF Send, Right, MemoryOK
<1>10. MemoryOK'
  <2>1. Process' = Process /\ RemoteFaces' = RemoteFaces /\ Channel' = Channel
    BY <1>2, SameGrid
  <2> QED
    BY <1>2, <1>9, <2>1 DEF Right, MemoryOK
<1>11. PhasesOK'
  BY <1>2, <1>6, <1>7, PhasesKept DEF Right
<1>12. StepsOK'
  <2>1. t \in DOMAIN progress'[p] => progress'[p][t] \in 1..(Len(Remote(p, t[2])) - 1)
    BY <1>1, <1>4, <1>8
  <2> QED
    BY <1>1, <1>2, <1>7, <2>1, StepsKept DEF Right
<1>13. Surrounded' /\ ArraysRight' /\ OnlyRightValues'
  BY <1>1, <1>2, <1>7, ArraysKept DEF Right
<1>14. PacksRight'
  BY <1>1, <1>2, <1>7, PacksKept DEF Right
<1>15. ChannelsRight' /\ \A c \in Channel : channel[c] # <<>> => channel'[c] # <<>>
  BY SendKeepsChannels
<1>16. TokensRight'
  <2>1. /\ Process' = Process /\ Local' = Local /\ Iteration' = Iteration
        /\ \A q, m : Remote(q, m)' = Remote(q, m)
        /\ \A q, m, h : Neighbor(q, m, h)' = Neighbor(q, m, h) /\ ConsumerEnd(q, m, h)' = ConsumerEnd(q, m, h)
        /\ \A q, m, h, j : Message(q, m, h, j)' = Message(q, m, h, j)
    BY <1>2, SameGrid
  <2>2. ASSUME NEW q \in Process, NEW m, NEW k, NEW i
        PROVE  /\ Past(q, "Receive", m, k, i)' <=> Past(q, "Receive", m, k, i)
               /\ Done(q, "Unpack", m, k)' <=> Done(q, "Unpack", m, k)
    <3>1. t # <<"Receive", m, k>> /\ t # <<"Unpack", m, k>>
      BY <1>1
    <3> QED
      BY <1>7, <3>1, PastKept
  <2>3. ASSUME NEW q \in Process, NEW m \in Local, NEW j \in DOMAIN Remote(q, m)
        PROVE  channel[ConsumerEnd(q, m, Remote(q, m)[j])] # <<>>
                 => channel'[ConsumerEnd(q, m, Remote(q, m)[j])] # <<>>
    <3>1. ConsumerEnd(q, m, Remote(q, m)[j]) \in Channel
      BY <1>5, RemoteFace
    <3> QED
      BY <1>15, <3>1
  <2> QED
    BY <1>2, <2>1, <2>2, <2>3 DEF Right, TokensRight
<1> QED
  BY <1>10, <1>11, <1>12, <1>13, <1>14, <1>15, <1>16 DEF Right

\* Where a Receive task is in its list of faces.
LEMMA ReceivePlace ==
  ASSUME IInv, Right, NEW p \in Process, NEW l \in Local, NEW it \in Iteration,
         IsLive(p, <<"Receive", l, it>>), NEW n, n = StepsOf(p, <<"Receive", l, it>>)
  PROVE  /\ n \in Nat /\ Len(Remote(p, l)) \in Nat /\ DOMAIN Remote(p, l) = 1..Len(Remote(p, l))
         /\ n < Len(Remote(p, l)) \/ (n = 0 /\ Len(Remote(p, l)) = 0)
         /\ n < Len(Remote(p, l)) => n + 1 \in DOMAIN Remote(p, l)
         /\ \A i \in DOMAIN Remote(p, l) : Past(p, "Receive", l, it, i) <=> i <= n
<1> DEFINE t == <<"Receive", l, it>>
<1>1. "Receive" \in Kind
  BY DEF Kind
<1>2. PICK g : InUse(g)
  BY <1>1, LiveFacts DEF Right
<1>3. DOMAIN Remote(p, l) = 1..Len(Remote(p, l)) /\ Len(Remote(p, l)) \in Nat
  BY <1>2, PlaceOfFace
<1>4. t \in DOMAIN progress[p] => progress[p][t] \in 1..(Len(Remote(p, l)) - 1)
  <2>1. t \in DOMAIN progress[p] => progress[p][t] # Lost
    BY DEF IsLive, MayStart
  <2> QED
    BY <2>1 DEF Right, StepsOK
<1>5. n = IF t \in DOMAIN progress[p] THEN progress[p][t] ELSE 0
  BY DEF StepsOf
<1>6. ~Done(p, "Receive", l, it)
  <2>1. it \in Nat /\ \A i \in Nat : Done(p, "Receive", l, i) <=> i < it
    BY <1>1, LiveFacts DEF Right
  <2> QED
    BY <2>1
<1>7. \A i : Past(p, "Receive", l, it, i) <=> t \in DOMAIN progress[p] /\ i <= progress[p][t]
  BY <1>6 DEF Past
<1>8. \A i \in DOMAIN Remote(p, l) : Past(p, "Receive", l, it, i) <=> i <= n
  BY <1>3, <1>4, <1>5, <1>7
<1> QED
  BY <1>3, <1>4, <1>5, <1>8

\* The token that it finds is the one of its iteration.
LEMMA ReceivedMessage ==
  ASSUME IInv, Right, NEW p \in Process, NEW l \in Local, NEW it \in Iteration,
         IsLive(p, <<"Receive", l, it>>), NEW f \in Faces, Type(p, l, f) = "REMOTE",
         channel[ConsumerEnd(p, l, f)] # <<>>
  PROVE  Head(channel[ConsumerEnd(p, l, f)])
           = Message(Neighbor(p, l, f)[1], Neighbor(p, l, f)[2], Opposite(f), it)
<1>1. "Receive" \in Kind
  BY DEF Kind
<1>2. /\ it \in Nat /\ \A i \in Nat : Done(p, "Receive", l, i) <=> i < it
      /\ \A u \in Dependencies(p, <<"Receive", l, it>>) : u \in finished[p]
  BY <1>1, LiveFacts DEF Right
<1>3. PICK g : InUse(g)
  BY <1>1, LiveFacts DEF Right
<1>4. PICK q, m, h : q = Neighbor(p, l, f)[1] /\ m = Neighbor(p, l, f)[2] /\ h = Opposite(f)
  OBVIOUS
<1>5. /\ q \in Process /\ m \in Local /\ h \in Faces /\ Type(q, m, h) = "REMOTE"
      /\ Neighbor(q, m, h) = <<p, l>>
  BY <1>3, <1>4, NeighborEnd
<1>6. ConsumerEnd(p, l, f) = ProducerEnd(q, m, h)
  <2>1. Neighbor(q, m, h)[1] = p /\ Neighbor(q, m, h)[2] = l /\ Opposite(h) = f
    BY <1>3, <1>4, <1>5, NeighborEnd
  <2> QED
    BY <1>3, <1>5, <2>1, NeighborEnd
<1>7. PICK i \in DOMAIN Remote(q, m) : Remote(q, m)[i] = h
  BY <1>3, <1>5, PlaceOfFace
<1>8. PICK s \in Nat, r \in Nat : r <= s /\ Holding(q, m, h, i, s, r)
  BY <1>5, <1>7 DEF Right, ChannelsRight
<1>9. /\ \A n \in Iteration : Done(p, "Unpack", l, n) <=> n < r
      /\ channel[ConsumerEnd(p, l, f)] = Window(q, m, h, r, s)
  BY <1>5, <1>6, <1>8 DEF Holding, Window
<1>10. PICK w : w = Window(q, m, h, r, s)
  OBVIOUS
<1>11. Slides(w, q, m, h, r, s)
  BY <1>8, <1>10, WindowSlides
<1>12. Head(w) = Message(q, m, h, r)
  BY <1>9, <1>10, <1>11 DEF Slides
<1>13. r = it
  <2>1. ~Done(p, "Unpack", l, it)
    BY <1>2, NotAhead DEF Right
  <2>2. it > 0 => it - 1 \in Iteration
    BY <1>2, IterationsAreNat DEF Iteration
  <2>3. it > 0 => <<"Unpack", l, it - 1>> \in Dependencies(p, <<"Receive", l, it>>)
    BY DependsOn
  <2>4. it > 0 => Done(p, "Unpack", l, it - 1)
    BY <1>2, <2>3 DEF Done
  <2> QED
    BY <1>2, <1>8, <1>9, <2>1, <2>2, <2>4
<1> QED
  BY <1>4, <1>9, <1>10, <1>12, <1>13

\* Receive takes the first message of the channel: the one of its iteration.
LEMMA ReceiveKeepsTokens ==
  ASSUME IInv, Right, NEW p \in Process, NEW l \in Local, NEW it \in Iteration, Receive(p, l, it)
  PROVE  TokensRight'
<1> DEFINE t == <<"Receive", l, it>>
<1> PICK faces, n, f, c : /\ faces = Remote(p, l) /\ n = StepsOf(p, t)
                          /\ f = faces[n + 1] /\ c = ConsumerEnd(p, l, f)
  OBVIOUS
<1>1. "Receive" \in Kind /\ t[1] = "Receive"
  BY DEF Kind
<1>2. TakeStep(p, t, Len(faces)) /\ IsLive(p, t) /\ grid' = grid /\ channel' = channel
  BY DEF Receive, TakeStep
<1>3. /\ n < Len(faces) => /\ channel[c] # <<>>
                           /\ unpackBuffer' = [unpackBuffer EXCEPT ![<<p, l, f>>] = Head(channel[c])]
      /\ ~(n < Len(faces)) => unpackBuffer' = unpackBuffer
  BY DEF Receive
<1>4. /\ n \in Nat /\ Len(faces) \in Nat /\ DOMAIN faces = 1..Len(faces)
      /\ n < Len(faces) \/ (n = 0 /\ Len(faces) = 0)
      /\ n < Len(faces) => n + 1 \in DOMAIN faces
      /\ \A i \in DOMAIN faces : Past(p, "Receive", l, it, i) <=> i <= n
  BY <1>2, ReceivePlace
<1>5. /\ it \in Nat /\ \A i \in Nat : Done(p, "Receive", l, i) <=> i < it
      /\ \A u \in Dependencies(p, t) : u \in finished[p]
  BY <1>1, <1>2, LiveFacts DEF Right
<1>6. PICK g : InUse(g)
  BY <1>1, <1>2, LiveFacts DEF Right
<1>7. /\ Others(p, t)
      /\ n + 1 >= Len(faces) => t \in finished'[p]
      /\ ~(n + 1 >= Len(faces)) => t \notin finished'[p] /\ t \in DOMAIN progress'[p] /\ progress'[p][t] = n + 1
  BY <1>2, Effect
<1>8. /\ Process' = Process /\ Local' = Local /\ Iteration' = Iteration
      /\ \A q, m : Remote(q, m)' = Remote(q, m)
      /\ \A q, m, h : Neighbor(q, m, h)' = Neighbor(q, m, h) /\ ConsumerEnd(q, m, h)' = ConsumerEnd(q, m, h)
      /\ \A q, m, h, j : Message(q, m, h, j)' = Message(q, m, h, j)
  BY <1>2, SameGrid
\* After this step one more face has been looked at.
<1>9. ASSUME NEW i \in DOMAIN faces PROVE Past(p, "Receive", l, it, i)' <=> i <= n + 1
  <2>1. i \in 1..Len(faces)
    BY <1>4
  <2>2. CASE n + 1 >= Len(faces)
    BY <1>4, <1>7, <2>1, <2>2 DEF Past, Done
  <2>3. CASE ~(n + 1 >= Len(faces))
    BY <1>4, <1>7, <2>1, <2>3 DEF Past, Done
  <2> QED
    BY <2>2, <2>3
<1>10. ASSUME NEW q \in Process, NEW m, NEW j, NEW i, <<q, m, j>> # <<p, l, it>>
       PROVE  Past(q, "Receive", m, j, i)' <=> Past(q, "Receive", m, j, i)
  <2>1. q # p \/ t # <<"Receive", m, j>>
    BY <1>10
  <2> QED
    BY <1>7, <2>1, PastKept
<1>11. ASSUME NEW q \in Process, NEW m, NEW j
       PROVE  Done(q, "Unpack", m, j)' <=> Done(q, "Unpack", m, j)
  BY <1>7 DEF Others, Done
<1> SUFFICES ASSUME NEW q \in Process, NEW m \in Local, NEW j \in DOMAIN Remote(q, m), NEW k \in Iteration,
                    Past(q, "Receive", m, k, j)', ~Done(q, "Unpack", m, k),
                    NEW h, h = Remote(q, m)[j]
             PROVE  /\ channel[ConsumerEnd(q, m, h)] # <<>>
                    /\ unpackBuffer'[<<q, m, h>>]
                         = Message(Neighbor(q, m, h)[1], Neighbor(q, m, h)[2], Opposite(h), k)
  <2>1. \A q \in Process : \A m, k : ~Done(q, "Unpack", m, k)' => ~Done(q, "Unpack", m, k)
    BY <1>11
  <2> QED
    BY <1>2, <1>8, <2>1 DEF TokensRight
<1>12. CASE Past(q, "Receive", m, k, j) /\ ~(<<q, m, j>> = <<p, l, n + 1>> /\ n < Len(faces))
  <2>1. unpackBuffer'[<<q, m, h>>] = unpackBuffer[<<q, m, h>>]
    <3>1. CASE ~(n < Len(faces))
      BY <1>3, <3>1
    <3>2. CASE n < Len(faces)
      <4>1. <<q, m, h>> # <<p, l, f>>
        <5>1. q = p /\ m = l /\ h = f => j = n + 1
          BY <1>4, <1>6, <3>2, PlaceOfFace
        <5> QED
          BY <1>12, <3>2, <5>1
      <4>2. <<q, m, h>> \in RemoteFaces
        <5>1. h \in Faces /\ Type(q, m, h) = "REMOTE"
          BY <1>6, RemoteFace
        <5> QED
          BY <5>1 DEF RemoteFaces, Type
      <4> QED
        BY <1>3, <3>2, <4>1, <4>2 DEF Right, MemoryOK
    <3> QED
      BY <3>1, <3>2
  <2> QED
    BY <1>12, <2>1 DEF Right, TokensRight
<1>13. CASE <<q, m, j>> = <<p, l, n + 1>> /\ n < Len(faces)
  <2>1. k = it
    <3> SUFFICES ASSUME k # it PROVE FALSE
      OBVIOUS
    <3>1. Past(p, "Receive", l, k, n + 1)
      BY <1>10, <1>13
    <3>2. CASE Done(p, "Receive", l, k)
      <4>1. k \in Nat /\ k < it
        BY <1>5, <3>2, IterationsAreNat DEF Iteration
      <4>2. it > 0 /\ it - 1 \in Nat /\ k <= it - 1
        BY <1>5, <4>1
      <4>3. <<"Unpack", l, it - 1>> \in Dependencies(p, t)
        BY <4>2, DependsOn
      <4>4. Done(p, "Unpack", l, it - 1)
        BY <1>5, <4>3 DEF Done
      <4>5. "Unpack" \in Kind
        BY DEF Kind
      <4>6. Done(p, "Unpack", l, k)
        BY <4>1, <4>2, <4>4, <4>5, EarlierToo DEF Right
      <4> QED
        BY <1>13, <4>6
    <3>3. CASE ~Done(p, "Receive", l, k)
      <4>1. <<"Receive", l, k>> \in DOMAIN progress[p] /\ n + 1 <= progress[p][<<"Receive", l, k>>]
        BY <3>1, <3>3 DEF Past
      <4>2. progress[p][<<"Receive", l, k>>] # Lost
        BY <1>4, <4>1 DEF Lost
      <4>3. IsLive(p, <<"Receive", l, k>>)
        BY <4>1, <4>2 DEF IsLive
      <4>4. k \in Nat /\ \A i \in Nat : Done(p, "Receive", l, i) <=> i < k
        BY <1>1, <4>3, LiveFacts DEF Right
      <4> QED
        BY <1>5, <4>4
    <3> QED
      BY <3>2, <3>3
  <2>2. h = f /\ f \in Faces /\ Type(p, l, f) = "REMOTE" /\ <<p, l, f>> \in RemoteFaces
    <3>1. h = f /\ f \in Faces /\ Type(p, l, f) = "REMOTE"
      BY <1>6, <1>13, RemoteFace
    <3> QED
      BY <3>1 DEF RemoteFaces, Type
  <2>3. Head(channel[c]) = Message(Neighbor(p, l, f)[1], Neighbor(p, l, f)[2], Opposite(f), it)
    BY <1>2, <1>3, <1>13, <2>2, ReceivedMessage
  <2>4. unpackBuffer'[<<p, l, f>>] = Head(channel[c])
    BY <1>3, <1>13, <2>2 DEF Right, MemoryOK
  <2> QED
    BY <1>3, <1>13, <2>1, <2>2, <2>3, <2>4
<1>14. Past(q, "Receive", m, k, j) \/ (<<q, m, j>> = <<p, l, n + 1>> /\ n < Len(faces))
  <2>1. CASE <<q, m, k>> # <<p, l, it>>
    BY <1>10, <2>1
  <2>2. CASE <<q, m, k>> = <<p, l, it>>
    <3>1. j \in DOMAIN faces /\ j <= n + 1
      BY <1>9, <2>2
    <3>2. j \in Nat /\ (j = n + 1 => n < Len(faces)) /\ (j # n + 1 => j <= n)
      BY <1>4, <3>1
    <3>3. j <= n => Past(p, "Receive", l, it, j)
      BY <1>4, <3>1
    <3> QED
      BY <2>2, <3>2, <3>3
  <2> QED
    BY <2>1, <2>2
<1> QED
  BY <1>12, <1>13, <1>14

\* What is left of both ways that a Receive task may take a step.
LEMMA ReceivingKeeps ==
  ASSUME IInv, Right, NEW p \in Process, NEW l \in Local, NEW it \in Iteration,
         NEW t, t = <<"Receive", l, it>>, IsLive(p, t), Others(p, t),
         t \in DOMAIN progress'[p] =>
           progress'[p][t] \in {Lost} \cup 1..(Len(Remote(p, l)) - 1),
         grid' = grid, phase' = phase, array' = array, packBuffer' = packBuffer, channel' = channel,
         unpackBuffer' = [r \in RemoteFaces |-> unpackBuffer'[r]], TokensRight'
  PROVE  Right'
<1>1. "Receive" \in Kind /\ t[1] = "Receive" /\ t[2] = l
  BY DEF Kind
<1>2. PICK g : InUse(g)
  BY <1>1, LiveFacts DEF Right
<1>3. t \in AnyTask
  BY <1>1 DEF GraphTask, AnyTask
<1>4. t \in Started(p) \/ MayStart(p, t)
  BY DEF IsLive, Started
<1>5. MemoryOK'
  <2>1. Process' = Process /\ RemoteFaces' = RemoteFaces /\ Channel' = Channel
    BY SameGrid
  <2> QED
    BY <2>1 DEF Right, MemoryOK
<1>6. PhasesOK'
  BY <1>3, <1>4, PhasesKept DEF Right
<1>7. StepsOK'
  BY <1>1, StepsKept DEF Right
<1>8. Surrounded' /\ ArraysRight' /\ OnlyRightValues'
  BY <1>1, ArraysKept DEF Right
<1>9. PacksRight'
  BY <1>1, PacksKept DEF Right
<1>10. ChannelsRight'
  BY <1>1, <1>2, ChannelsKept DEF Right
<1> QED
  BY <1>5, <1>6, <1>7, <1>8, <1>9, <1>10 DEF Right

\* Receive leaves everything as it should be,
LEMMA ReceiveKeepsRight ==
  ASSUME IInv, Right, NEW p \in Process, NEW l \in Local, NEW it \in Iteration, Receive(p, l, it)
  PROVE  Right'
<1> PICK t, n : t = <<"Receive", l, it>> /\ n = StepsOf(p, t)
  OBVIOUS
<1>1. /\ TakeStep(p, t, Len(Remote(p, l))) /\ IsLive(p, t) /\ grid' = grid /\ phase' = phase
      /\ array' = array /\ packBuffer' = packBuffer /\ channel' = channel
  BY DEF Receive, TakeStep
<1>2. n \in Nat /\ Len(Remote(p, l)) \in Nat
  BY <1>1, ReceivePlace
<1>3. Others(p, t) /\ (t \in DOMAIN progress'[p] => progress'[p][t] = n + 1 /\ n + 1 < Len(Remote(p, l)))
  BY <1>1, <1>2, Effect
<1>4. t \in DOMAIN progress'[p] => progress'[p][t] \in {Lost} \cup 1..(Len(Remote(p, l)) - 1)
  BY <1>2, <1>3
<1>5. unpackBuffer' = [r \in RemoteFaces |-> unpackBuffer'[r]]
  BY DEF Receive, Right, MemoryOK
<1>6. TokensRight'
  BY ReceiveKeepsTokens
<1> QED
  BY <1>1, <1>3, <1>4, <1>5, <1>6, ReceivingKeeps

\* also one that never gets its message,
LEMMA LoseReceiveKeepsRight ==
  ASSUME IInv, Right, NEW p \in Process, NEW l \in Local, NEW it \in Iteration, LoseReceive(p, l, it)
  PROVE  Right'
<1> PICK t : t = <<"Receive", l, it>>
  OBVIOUS
<1>1. /\ MayStart(p, t) /\ grid' = grid /\ phase' = phase /\ finished' = finished
      /\ array' = array /\ packBuffer' = packBuffer /\ channel' = channel /\ unpackBuffer' = unpackBuffer
      /\ progress' = [progress EXCEPT ![p] = [u \in DOMAIN @ \cup {t} |-> IF u = t THEN Lost ELSE progress[p][u]]]
  BY DEF LoseReceive
<1>2. IsLive(p, t) /\ t \notin finished[p]
  BY <1>1 DEF IsLive, MayStart
<1>3. /\ progress'[p] = [u \in DOMAIN progress[p] \cup {t} |-> IF u = t THEN Lost ELSE progress[p][u]]
      /\ \A q \in Process : q # p => progress'[q] = progress[q]
  BY <1>1 DEF IInv, TypesOK
<1>4. Others(p, t) /\ progress'[p][t] = Lost
  BY <1>1, <1>3 DEF Others
<1>5. unpackBuffer' = [r \in RemoteFaces |-> unpackBuffer'[r]]
  BY <1>1 DEF Right, MemoryOK
<1>6. TokensRight'
  <2>1. /\ Process' = Process /\ Local' = Local /\ Iteration' = Iteration
        /\ \A q, m : Remote(q, m)' = Remote(q, m)
        /\ \A q, m, h : Neighbor(q, m, h)' = Neighbor(q, m, h) /\ ConsumerEnd(q, m, h)' = ConsumerEnd(q, m, h)
        /\ \A q, m, h, j : Message(q, m, h, j)' = Message(q, m, h, j)
    BY <1>1, SameGrid
  <2>2. \A q, m, k : Done(q, "Unpack", m, k)' <=> Done(q, "Unpack", m, k)
    BY <1>1 DEF Done
  <2>3. PICK g : InUse(g)
    <3>1. "Receive" \in Kind
      BY DEF Kind
    <3> QED
      BY <1>2, <3>1, LiveFacts DEF Right
  <2>4. ASSUME NEW q \in Process, NEW m \in Local, NEW j \in DOMAIN Remote(q, m), NEW k \in Iteration,
               Past(q, "Receive", m, k, j)'
        PROVE  Past(q, "Receive", m, k, j)
    <3>1. q = p /\ <<"Receive", m, k>> = t => FALSE
      <4>1. j \in 1..Len(Remote(q, m))
        BY <2>3, PlaceOfFace
      <4> QED
        BY <1>1, <1>2, <1>4, <2>4, <4>1 DEF Past, Done, Lost
    <3> QED
      BY <1>4, <2>4, <3>1, PastKept
  <2> QED
    BY <1>1, <2>1, <2>2, <2>4 DEF Right, TokensRight
<1> QED
  BY <1>1, <1>2, <1>4, <1>5, <1>6, ReceivingKeeps

-----------------------------------------------------------------------------
\* Unpack frees what it has copied.

\* Unpack frees the tokens that face its own block, and no others.
LEMMA ChannelsOfUnpack ==
  ASSUME IInv, Right, NEW p \in Process, NEW l \in Local, NEW it \in Iteration, Unpack(p, l, it)
  PROVE  /\ \A f \in Faces : Type(p, l, f) = "REMOTE" =>
              channel'[ConsumerEnd(p, l, f)] = Tail(channel[ConsumerEnd(p, l, f)])
         /\ \A q \in Process : \A m \in Local : \A f \in Faces :
              Type(q, m, f) = "REMOTE" /\ <<q, m>> # <<p, l>> =>
                channel'[ConsumerEnd(q, m, f)] = channel[ConsumerEnd(q, m, f)]
         /\ channel' = [c \in Channel |-> channel'[c]]
<1> DEFINE faces == {f \in Faces : Type(p, l, f) = "REMOTE"}
           mine == {ConsumerEnd(p, l, f) : f \in faces}
<1>1. "Unpack" \in Kind
  BY DEF Kind
<1>2. PICK g : InUse(g)
  <2>1. IsLive(p, <<"Unpack", l, it>>)
    BY DEF Unpack, TakeStep
  <2> QED
    BY <1>1, <2>1, LiveFacts DEF Right
<1>3. channel' = [c \in Channel |-> IF c \in mine THEN Tail(channel[c]) ELSE channel[c]]
  BY DEF Unpack, Right, MemoryOK
<1>4. ASSUME NEW q \in Process, NEW m \in Local, NEW f \in Faces, Type(q, m, f) = "REMOTE"
      PROVE  ConsumerEnd(q, m, f) \in Channel
  <2>1. <<q, m, f>> \in RemoteFaces
    BY <1>4 DEF RemoteFaces, Type
  <2> QED
    BY <2>1 DEF Channel
<1>5. ASSUME NEW q \in Process, NEW m \in Local, NEW f \in Faces, <<q, m>> # <<p, l>>
      PROVE  ConsumerEnd(q, m, f) \notin mine
  BY <1>2, <1>5, ConsumersApart
<1>6. \A f \in Faces : Type(p, l, f) = "REMOTE" => ConsumerEnd(p, l, f) \in mine
  OBVIOUS
<1> HIDE DEF mine
<1> QED
  BY <1>3, <1>4, <1>5, <1>6

\* Unpack frees the first message of each channel, the one that was received,
LEMMA UnpackKeepsChannels ==
  ASSUME IInv, Right, NEW p \in Process, NEW l \in Local, NEW it \in Iteration, Unpack(p, l, it),
         Others(p, <<"Unpack", l, it>>), <<"Unpack", l, it>> \in finished'[p]
  PROVE  ChannelsRight'
<1> PICK t : t = <<"Unpack", l, it>>
  OBVIOUS
<1>1. "Unpack" \in Kind /\ t[1] = "Unpack"
  BY DEF Kind
<1>2. IsLive(p, t) /\ grid' = grid
  BY DEF Unpack, TakeStep
<1>3. it \in Nat /\ \A i \in Nat : Done(p, "Unpack", l, i) <=> i < it
  BY <1>1, <1>2, LiveFacts DEF Right
<1>4. PICK g : InUse(g)
  BY <1>1, <1>2, LiveFacts DEF Right
<1>5. /\ Process' = Process /\ Local' = Local /\ Iteration' = Iteration
      /\ \A q, m : Remote(q, m)' = Remote(q, m)
      /\ \A q, m, h : Neighbor(q, m, h)' = Neighbor(q, m, h) /\ ProducerEnd(q, m, h)' = ProducerEnd(q, m, h)
      /\ \A q, m, h, j : Message(q, m, h, j)' = Message(q, m, h, j)
  BY <1>2, SameGrid
<1>6. Iteration \subseteq Nat
  BY IterationsAreNat DEF Iteration
<1>7. \A k \in Iteration : Done(p, "Unpack", l, k)' <=> k < it + 1
  <2> SUFFICES ASSUME NEW k \in Iteration PROVE Done(p, "Unpack", l, k)' <=> k < it + 1
    OBVIOUS
  <2>1. k # it => (Done(p, "Unpack", l, k)' <=> Done(p, "Unpack", l, k))
    BY DEF Others, Done
  <2>2. Done(p, "Unpack", l, it)'
    BY DEF Done
  <2>3. k \in Nat /\ (Done(p, "Unpack", l, k) <=> k < it)
    BY <1>3, <1>6
  <2> QED
    BY <1>3, <2>1, <2>2, <2>3
<1>8. ASSUME NEW q \in Process, NEW m \in Local, NEW i \in DOMAIN Remote(q, m)
      PROVE  \E s, r \in Nat : r <= s /\ Holding(q, m, Remote(q, m)[i], i, s, r)'
  <2> PICK h, u, v, f : /\ h = Remote(q, m)[i] /\ u = Neighbor(q, m, h)[1] /\ v = Neighbor(q, m, h)[2]
                        /\ f = Opposite(h)
    OBVIOUS
  <2>1. PICK s \in Nat, r \in Nat : r <= s /\ Holding(q, m, h, i, s, r)
    BY DEF Right, ChannelsRight
  <2>2. /\ \A k \in Iteration : Past(q, "Send", m, k, i) <=> k < s
        /\ \A k \in Iteration : Done(u, "Unpack", v, k) <=> k < r
        /\ channel[ProducerEnd(q, m, h)] = Window(q, m, h, r, s)
    BY <2>1 DEF Holding, Window
  <2>3. /\ h \in Faces /\ u \in Process /\ v \in Local /\ f \in Faces /\ Type(u, v, f) = "REMOTE"
        /\ Neighbor(u, v, f) = <<q, m>> /\ ProducerEnd(q, m, h) = ConsumerEnd(u, v, f)
    BY <1>4, RemoteFace
  <2>4. \A k \in Iteration : Past(q, "Send", m, k, i)' <=> Past(q, "Send", m, k, i)
    BY DEF Others, Past, Done
  <2>5. CASE <<u, v>> = <<p, l>>
    <3>1. u = p /\ v = l /\ Type(p, l, f) = "REMOTE"
      BY <2>3, <2>5
    <3>2. channel[ConsumerEnd(p, l, f)] # <<>>
      BY <1>2, <2>3, <3>1, TokensThere
    <3>3. PICK w : w = Window(q, m, h, r, s)
      OBVIOUS
    <3>4. Slides(w, q, m, h, r, s)
      BY <2>1, <3>3, WindowSlides
    <3>5. channel[ProducerEnd(q, m, h)] = w /\ w # <<>>
      BY <2>2, <2>3, <2>5, <3>2, <3>3
    <3>6. r < s /\ Tail(w) = Window(q, m, h, r + 1, s)
      BY <3>4, <3>5 DEF Slides
    <3>7. channel'[ProducerEnd(q, m, h)] = Window(q, m, h, r + 1, s)
      <4>1. channel'[ConsumerEnd(p, l, f)] = Tail(channel[ConsumerEnd(p, l, f)])
        BY <2>3, <2>5, ChannelsOfUnpack
      <4> QED
        BY <2>3, <2>5, <3>5, <3>6, <4>1
    <3>8. r = it
      <4>1. ~(it < r)
        BY <1>3, <2>2, <2>5
      <4>2. it > 0 => it - 1 \in Iteration /\ Done(p, "Unpack", l, it - 1)
        <5>1. it > 0 => it - 1 \in Iteration
          BY <1>3, IterationsAreNat DEF Iteration
        <5> QED
          BY <1>3, <1>6, <5>1
      <4> QED
        BY <1>3, <2>2, <2>5, <4>1, <4>2
    <3>9. \A k \in Iteration : Done(u, "Unpack", v, k)' <=> k < r + 1
      BY <1>7, <2>5, <3>8
    <3>10. r + 1 \in Nat /\ r + 1 <= s
      BY <3>6
    <3>11. Holding(q, m, h, i, s, r + 1)'
      BY <1>5, <2>2, <2>4, <3>7, <3>9 DEF Holding, Window
    <3> QED
      BY <1>5, <3>10, <3>11
  <2>6. CASE <<u, v>> # <<p, l>>
    <3>1. \A k \in Iteration : Done(u, "Unpack", v, k)' <=> Done(u, "Unpack", v, k)
      BY <2>3, <2>6 DEF Others, Done
    <3>2. channel'[ProducerEnd(q, m, h)] = channel[ProducerEnd(q, m, h)]
      BY <2>3, <2>6, ChannelsOfUnpack
    <3>3. Holding(q, m, h, i, s, r)'
      BY <1>5, <2>2, <2>4, <3>1, <3>2 DEF Holding, Window
    <3> QED
      BY <1>5, <2>1, <3>3
  <2> QED
    BY <2>5, <2>6
<1> QED
  BY <1>5, <1>8 DEF ChannelsRight

\* and no other token is of that channel.
LEMMA UnpackKeepsTokens ==
  ASSUME IInv, Right, NEW p \in Process, NEW l \in Local, NEW it \in Iteration, Unpack(p, l, it),
         Others(p, <<"Unpack", l, it>>), <<"Unpack", l, it>> \in finished'[p]
  PROVE  TokensRight'
<1> PICK t : t = <<"Unpack", l, it>>
  OBVIOUS
<1>1. "Unpack" \in Kind /\ "Receive" \in Kind /\ t[1] = "Unpack"
  BY DEF Kind
<1>2. IsLive(p, t) /\ grid' = grid /\ unpackBuffer' = unpackBuffer
  BY DEF Unpack, TakeStep
<1>3. it \in Nat /\ \A i \in Nat : Done(p, "Unpack", l, i) <=> i < it
  BY <1>1, <1>2, LiveFacts DEF Right
<1>4. PICK g : InUse(g)
  BY <1>1, <1>2, LiveFacts DEF Right
<1>5. /\ Process' = Process /\ Local' = Local /\ Iteration' = Iteration
      /\ \A q, m : Remote(q, m)' = Remote(q, m)
      /\ \A q, m, h : Neighbor(q, m, h)' = Neighbor(q, m, h) /\ ConsumerEnd(q, m, h)' = ConsumerEnd(q, m, h)
      /\ \A q, m, h, j : Message(q, m, h, j)' = Message(q, m, h, j)
  BY <1>2, SameGrid
<1>6. \A q \in Process : \A m, k, j : Past(q, "Receive", m, k, j)' <=> Past(q, "Receive", m, k, j)
  BY DEF Others, Past, Done
<1>7. \A q \in Process : \A m, k : Done(q, "Unpack", m, k) => Done(q, "Unpack", m, k)'
  BY DEF Others, Done
<1> SUFFICES ASSUME NEW q \in Process, NEW m \in Local, NEW j \in DOMAIN Remote(q, m), NEW k \in Iteration,
                    Past(q, "Receive", m, k, j), ~Done(q, "Unpack", m, k)', NEW h, h = Remote(q, m)[j]
             PROVE  /\ channel'[ConsumerEnd(q, m, h)] # <<>>
                    /\ unpackBuffer[<<q, m, h>>]
                         = Message(Neighbor(q, m, h)[1], Neighbor(q, m, h)[2], Opposite(h), k)
  BY <1>2, <1>5, <1>6 DEF TokensRight
\* No Receive of its block is ahead of it.
<1>8. <<q, m>> # <<p, l>>
  <2> SUFFICES ASSUME q = p, m = l PROVE FALSE
    OBVIOUS
  <2>1. k \in Nat /\ it < k
    <3>1. k \in Nat /\ ~Done(p, "Unpack", l, k) /\ k # it
      BY <1>7, IterationsAreNat DEF Iteration, Done
    <3> QED
      BY <1>3, <3>1
  <2>2. \A u \in Dependencies(p, <<"Receive", l, k>>) : u \in finished[p]
    <3>1. CASE Done(p, "Receive", l, k)
      BY <1>1, <3>1, DoneFacts DEF Right
    <3>2. CASE ~Done(p, "Receive", l, k)
      <4>1. <<"Receive", l, k>> \in DOMAIN progress[p] /\ j <= progress[p][<<"Receive", l, k>>]
        BY <3>2 DEF Past
      <4>2. j \in Nat /\ j >= 1
        BY <1>4, PlaceOfFace
      <4>3. progress[p][<<"Receive", l, k>>] # Lost
        BY <4>1, <4>2 DEF Lost
      <4>4. IsLive(p, <<"Receive", l, k>>)
        BY <4>1, <4>3 DEF IsLive
      <4> QED
        BY <1>1, <4>4, LiveFacts DEF Right
    <3> QED
      BY <3>1, <3>2
  <2>3. <<"Unpack", l, k - 1>> \in Dependencies(p, <<"Receive", l, k>>)
    <3>1. k > 0
      BY <1>3, <2>1
    <3> QED
      BY <3>1, DependsOn
  <2>4. Done(p, "Unpack", l, k - 1) /\ k - 1 \in Nat /\ ~(k - 1 < it)
    BY <1>3, <2>1, <2>2, <2>3 DEF Done
  <2> QED
    BY <1>3, <2>4
<1>9. h \in Faces /\ Type(q, m, h) = "REMOTE"
  BY <1>4, RemoteFace
<1>10. channel'[ConsumerEnd(q, m, h)] = channel[ConsumerEnd(q, m, h)]
  BY <1>8, <1>9, ChannelsOfUnpack
<1> QED
  BY <1>7, <1>10 DEF Right, TokensRight

\* Unpack leaves everything as it should be,
LEMMA UnpackKeepsRight ==
  ASSUME IInv, Right, NEW p \in Process, NEW l \in Local, NEW it \in Iteration, Unpack(p, l, it)
  PROVE  Right'
<1> PICK t, b, token : /\ t = <<"Unpack", l, it>> /\ b = NextArray(it)
                       /\ token = [f \in {f \in Faces : Type(p, l, f) = "REMOTE"} |-> unpackBuffer[<<p, l, f>>]]
  OBVIOUS
<1>1. "Unpack" \in Kind /\ t[1] = "Unpack"
  BY DEF Kind
<1>2. /\ TakeStep(p, t, 1) /\ IsLive(p, t) /\ grid' = grid /\ phase' = phase
      /\ packBuffer' = packBuffer /\ unpackBuffer' = unpackBuffer
      /\ array' = [array EXCEPT ![p][b] = Unpacked(@, l, token)]
  BY DEF Unpack, TakeStep
<1>3. it \in Nat
  BY <1>1, <1>2, LiveFacts DEF Right
<1>4. PICK g : InUse(g)
  BY <1>1, <1>2, LiveFacts DEF Right
<1>5. t \in GraphTask /\ t \in AnyTask
  BY <1>1 DEF GraphTask, AnyTask
<1>6. StepsOf(p, t) + 1 >= 1
  <2>1. t \notin DOMAIN progress[p]
    BY <1>1, <1>5 DEF IInv, InOrder
  <2> QED
    BY <2>1 DEF StepsOf
<1>7. Others(p, t) /\ t \in finished'[p] /\ t \notin DOMAIN progress'[p] /\ (t \in Started(p) \/ MayStart(p, t))
  BY <1>2, <1>6, Effect
<1>8. b \in {0, 1}
  BY <1>3, TwoArrays
<1>9. /\ array'[p] = [array[p] EXCEPT ![b] = Unpacked(@, l, token)]
      /\ \A q \in Process : q # p => array'[q] = array[q]
      /\ array' = [q \in Process |-> array'[q]]
  BY <1>2 DEF Right, MemoryOK
<1>10. /\ array'[p] = [e \in {0, 1} |-> array'[p][e]]
       /\ \A e \in {0, 1} : e # b => array'[p][e] = array[p][e]
       /\ array'[p][b] = Unpacked(array[p][b], l, token)
  BY <1>8, <1>9 DEF Right, MemoryOK
<1>11. MemoryOK'
  <2>1. Process' = Process /\ RemoteFaces' = RemoteFaces /\ Channel' = Channel
    BY <1>2, SameGrid
  <2>2. \A q \in Process : array'[q] = [e \in {0, 1} |-> array'[q][e]]
    BY <1>9, <1>10 DEF Right, MemoryOK
  <2>3. channel' = [c \in Channel |-> channel'[c]]
    BY ChannelsOfUnpack
  <2> QED
    BY <1>2, <1>9, <2>1, <2>2, <2>3 DEF Right, MemoryOK
<1>12. Surrounded' /\ ArraysRight' /\ OnlyRightValues'
  <2>1. CellsOf(p, l, "Unpack") = Ghosts(p, l)
    BY DEF CellsOf
  <2>2. DOMAIN token = {f \in Faces : Type(p, l, f) = "REMOTE"}
        /\ \A f \in DOMAIN token : token[f] = unpackBuffer[<<p, l, f>>]
    OBVIOUS
  <2>3. ASSUME NEW c \in grid.cell
        PROVE  /\ c \in Ghosts(p, l) => array'[p][b][c] = Value(Global(p, c), it + 1)
               /\ c \notin Ghosts(p, l) => array'[p][b][c] = array[p][b][c]
    <3>1. IsLive(p, <<"Unpack", l, it>>)
      BY <1>2
    <3> QED
      BY <1>10, <2>2, <3>1, UnpackValues
  <2>4. ASSUME NEW q \in Process, NEW e \in {0, 1}, NEW c \in grid.cell
        PROVE  array'[q][e][c] = array[q][e][c]
                 \/ (q = p /\ e = NextArray(it) /\ c \in CellsOf(p, l, "Unpack"))
    BY <1>9, <1>10, <2>1, <2>3
  <2>5. ASSUME NEW c \in CellsOf(p, l, "Unpack") PROVE array'[p][NextArray(it)][c] = Value(Global(p, c), it + 1)
    <3>1. c \in grid.cell
      BY <1>4, CellsKnown
    <3> QED
      BY <2>1, <2>3, <3>1
  <2>6. IsLive(p, <<"Unpack", l, it>>) /\ Others(p, <<"Unpack", l, it>>) /\ <<"Unpack", l, it>> \in finished'[p]
    BY <1>2, <1>7
  <2> QED
    BY <1>2, <2>4, <2>5, <2>6, ArraysWritten DEF Right
<1>13. PhasesOK'
  BY <1>2, <1>5, <1>7, PhasesKept DEF Right
<1>14. StepsOK'
  BY <1>2, <1>7, StepsKept DEF Right
<1>15. PacksRight'
  BY <1>1, <1>2, <1>7, PacksKept DEF Right
<1>16. ChannelsRight'
  BY <1>7, UnpackKeepsChannels
<1>17. TokensRight'
  BY <1>7, UnpackKeepsTokens
<1> QED
  BY <1>11, <1>12, <1>13, <1>14, <1>15, <1>16, <1>17 DEF Right

\* and Residual only reads.
LEMMA ResidualKeepsRight ==
  ASSUME IInv, Right, NEW p \in Process, NEW l \in Local, Residual(p, l)
  PROVE  Right'
<1> PICK t : t = <<"Residual", l, nIters>>
  OBVIOUS
<1>1. t[1] = "Residual" /\ t \in ResidualTask /\ t \in AnyTask
  BY DEF ResidualTask, AnyTask
<1>2. /\ TakeStep(p, t, 1) /\ IsLive(p, t) /\ grid' = grid /\ phase' = phase /\ array' = array
      /\ packBuffer' = packBuffer /\ unpackBuffer' = unpackBuffer /\ channel' = channel
  BY DEF Residual, TakeStep
<1>3. Others(p, t) /\ (t \in Started(p) \/ MayStart(p, t))
  BY <1>2, Effect
<1>4. PICK g : InUse(g)
  <2>1. phase[p] \notin Halted
    <3>1. CASE t \in Started(p)
      BY <3>1 DEF Right, PhasesOK
    <3>2. CASE MayStart(p, t)
      BY <1>1, <3>2, PhaseNames DEF MayStart
    <3> QED
      BY <1>3, <3>1, <3>2
  <2> QED
    BY <2>1, SolvingGrid
<1>5. MemoryOK'
  <2>1. Process' = Process /\ RemoteFaces' = RemoteFaces /\ Channel' = Channel
    BY <1>2, SameGrid
  <2> QED
    BY <1>2, <2>1 DEF Right, MemoryOK
<1>6. PhasesOK'
  BY <1>1, <1>2, <1>3, PhasesKept DEF Right
<1>7. StepsOK'
  BY <1>1, <1>2, <1>3, StepsKept DEF Right
<1>8. Surrounded' /\ ArraysRight' /\ OnlyRightValues'
  BY <1>1, <1>2, <1>3, ArraysKept DEF Right
<1>9. PacksRight'
  BY <1>1, <1>2, <1>3, PacksKept DEF Right
<1>10. ChannelsRight'
  BY <1>1, <1>2, <1>3, <1>4, ChannelsKept DEF Right
<1>11. TokensRight'
  BY <1>1, <1>2, <1>3, TokensKept DEF Right
<1> QED
  BY <1>5, <1>6, <1>7, <1>8, <1>9, <1>10, <1>11 DEF Right

-----------------------------------------------------------------------------
\* Reset, the first state and the main threads.

\* Blocks are reset before anything else happens in their process.
LEMMA ResetFirst ==
  ASSUME IInv, Right, NEW p \in Process, NEW l \in Local, IsLive(p, <<"Reset", l, 0>>)
  PROVE  /\ phase[p] = "reset" /\ \A u \in Started(p) : u[1] = "Reset"
         /\ \E g : InUse(g)
         /\ StepsOf(p, <<"Reset", l, 0>>) = IF <<"Reset", l, 0>> \in DOMAIN progress[p] THEN 1 ELSE 0
<1> PICK t : t = <<"Reset", l, 0>>
  OBVIOUS
<1>1. t \notin finished[p]
  BY DEF IsLive, MayStart, IInv, InOrder
<1>2. phase[p] = "reset"
  <2>1. CASE t \in DOMAIN progress[p]
    <3>1. t \in Started(p)
      BY <2>1 DEF Started
    <3> QED
      BY <1>1, <3>1 DEF Right, PhasesOK, Done
  <2>2. CASE MayStart(p, t)
    BY <2>2 DEF MayStart, PhaseOf
  <2> QED
    BY <2>1, <2>2 DEF IsLive
<1>3. \A u \in Started(p) : u[1] = "Reset"
  BY <1>2 DEF Right, PhasesOK
<1>4. \E g : InUse(g)
  <2>1. phase[p] \notin Halted
    BY <1>2 DEF Halted
  <2> QED
    BY <2>1, SolvingGrid
<1>5. StepsOf(p, t) = IF t \in DOMAIN progress[p] THEN 1 ELSE 0
  BY DEF StepsOf, Right, StepsOK
<1> QED
  BY <1>2, <1>3, <1>4, <1>5

\* The first step of a block's reset puts 1.0 all over it, the second 0.0 beyond the domain.
LEMMA ResetStep ==
  ASSUME IInv, Right, NEW p \in Process, NEW l \in Local, Reset(p, l)
  PROVE  /\ Others(p, <<"Reset", l, 0>>) /\ grid' = grid
         /\ array' = [q \in Process |-> array'[q]]
         /\ \A q \in Process : array'[q] = [b \in {0, 1} |-> array'[q][b]]
         /\ \A q \in Process : q # p => array'[q] = array[q]
         /\ \/ /\ <<"Reset", l, 0>> \notin finished'[p]
               /\ <<"Reset", l, 0>> \in DOMAIN progress'[p] /\ progress'[p][<<"Reset", l, 0>>] = 1
               /\ \A b \in {0, 1} : \A c \in grid.cell :
                    array'[p][b][c] = IF c \in grid.halo[l] THEN One ELSE array[p][b][c]
            \/ /\ <<"Reset", l, 0>> \in finished'[p] /\ <<"Reset", l, 0>> \notin DOMAIN progress'[p]
               /\ <<"Reset", l, 0>> \in Started(p)
               /\ \A b \in {0, 1} : \A c \in grid.cell :
                    array'[p][b][c] = IF c \in grid.outside[<<p, l>>] THEN Zero ELSE array[p][b][c]
<1> PICK t, n : t = <<"Reset", l, 0>> /\ n = StepsOf(p, t)
  OBVIOUS
<1>1. /\ TakeStep(p, t, 2) /\ IsLive(p, t) /\ grid' = grid
      /\ array' = [array EXCEPT ![p] = IF n = 0 THEN Filled(@, grid.halo[l], One)
                                                ELSE Filled(@, grid.outside[<<p, l>>], Zero)]
  BY DEF Reset, TakeStep
<1>2. n = IF t \in DOMAIN progress[p] THEN 1 ELSE 0
  BY <1>1, ResetFirst
<1>3. /\ Others(p, t)
      /\ n + 1 >= 2 => t \in finished'[p] /\ t \notin DOMAIN progress'[p]
      /\ ~(n + 1 >= 2) => t \notin finished'[p] /\ t \in DOMAIN progress'[p] /\ progress'[p][t] = n + 1
  BY <1>1, Effect
<1>4. /\ array'[p] = IF n = 0 THEN Filled(array[p], grid.halo[l], One)
                              ELSE Filled(array[p], grid.outside[<<p, l>>], Zero)
      /\ \A q \in Process : q # p => array'[q] = array[q]
      /\ array' = [q \in Process |-> array'[q]]
  BY <1>1 DEF Right, MemoryOK
<1>5. array'[p] = [b \in {0, 1} |-> array'[p][b]]
  BY <1>4 DEF Filled
<1>6. \A q \in Process : array'[q] = [b \in {0, 1} |-> array'[q][b]]
  BY <1>4, <1>5 DEF Right, MemoryOK
<1>7. CASE n = 0
  <2>1. \A b \in {0, 1} : \A c \in grid.cell :
          array'[p][b][c] = IF c \in grid.halo[l] THEN One ELSE array[p][b][c]
    BY <1>4, <1>7 DEF Filled
  <2>2. t \notin finished'[p] /\ t \in DOMAIN progress'[p] /\ progress'[p][t] = 1
    BY <1>3, <1>7
  <2> QED
    BY <1>1, <1>3, <1>4, <1>6, <2>1, <2>2
<1>8. CASE n = 1
  <2>1. \A b \in {0, 1} : \A c \in grid.cell :
          array'[p][b][c] = IF c \in grid.outside[<<p, l>>] THEN Zero ELSE array[p][b][c]
    BY <1>4, <1>8 DEF Filled
  <2>2. t \in Started(p)
    BY <1>2, <1>8 DEF Started
  <2> QED
    BY <1>1, <1>3, <1>4, <1>6, <1>8, <2>1, <2>2
<1> QED
  BY <1>2, <1>7, <1>8

\* Reset leaves everything as it should be: its two loops, one step each.
LEMMA ResetKeepsRight ==
  ASSUME IInv, Right, NEW p \in Process, NEW l \in Local, Reset(p, l)
  PROVE  Right'
<1> PICK t : t = <<"Reset", l, 0>>
  OBVIOUS
<1>1. t[1] = "Reset" /\ t \in AnyTask
  BY DEF AnyTask
<1>2. /\ TakeStep(p, t, 2) /\ IsLive(p, t) /\ grid' = grid /\ phase' = phase
      /\ packBuffer' = packBuffer /\ unpackBuffer' = unpackBuffer /\ channel' = channel
  BY DEF Reset, TakeStep
<1>3. PICK g : InUse(g)
  BY <1>2, ResetFirst
<1> DEFINE One1 == /\ t \notin finished'[p] /\ t \in DOMAIN progress'[p] /\ progress'[p][t] = 1
                   /\ \A b \in {0, 1} : \A c \in grid.cell :
                        array'[p][b][c] = IF c \in grid.halo[l] THEN One ELSE array[p][b][c]
           Two == /\ t \in finished'[p] /\ t \notin DOMAIN progress'[p] /\ t \in Started(p)
                  /\ \A b \in {0, 1} : \A c \in grid.cell :
                        array'[p][b][c] = IF c \in grid.outside[<<p, l>>] THEN Zero ELSE array[p][b][c]
<1>4. /\ Others(p, t) /\ array' = [q \in Process |-> array'[q]]
      /\ \A q \in Process : array'[q] = [b \in {0, 1} |-> array'[q][b]]
      /\ \A q \in Process : q # p => array'[q] = array[q]
      /\ One1 \/ Two
  BY ResetStep
<1>5. /\ Process' = Process /\ Local' = Local /\ nIters' = nIters /\ Domain' = Domain
      /\ \A q, m, k : CellsOf(q, m, k)' = CellsOf(q, m, k)
      /\ \A q, c : Global(q, c)' = Global(q, c)
      /\ RemoteFaces' = RemoteFaces /\ Channel' = Channel
  BY <1>2, SameGrid
<1>6. ASSUME NEW q \in Process, NEW k, NEW m, NEW n, q # p \/ <<k, m, n>> # t
      PROVE  /\ Done(q, k, m, n)' <=> Done(q, k, m, n)
             /\ <<k, m, n>> \in DOMAIN progress'[q] <=> <<k, m, n>> \in DOMAIN progress[q]
             /\ <<k, m, n>> \in Started(q)' <=> <<k, m, n>> \in Started(q)
  BY <1>4, <1>6 DEF Others, Done, Started
<1>7. t \in Started(p) \/ MayStart(p, t)
  BY <1>2, Effect
<1>8. \A d \in grid.halo[l] : d \in grid.outside[<<p, l>>] <=> Global(p, d) \notin Domain
  BY <1>3, HaloKnown
<1>9. Surrounded'
  <2> SUFFICES ASSUME NEW q \in Process, NEW m \in Local, NEW d \in grid.halo[m], NEW b \in {0, 1},
                      Global(q, d) \notin Domain, Done(q, "Reset", m, 0)'
               PROVE  \/ array'[q][b][d] = Zero
                      \/ \E n \in Local : <<"Reset", n, 0>> \in DOMAIN progress'[q] /\ d \in grid.halo[n]
    BY <1>2, <1>5 DEF Surrounded
  <2>1. d \in grid.cell
    BY <1>3, HaloKnown
  <2>2. CASE q # p
    BY <1>4, <1>6, <2>2 DEF Right, Surrounded
  <2>3. CASE q = p /\ d \in grid.halo[l]
    <3>1. One1 => \E n \in Local : <<"Reset", n, 0>> \in DOMAIN progress'[q] /\ d \in grid.halo[n]
      BY <2>3
    <3>2. Two => array'[q][b][d] = Zero
      BY <1>8, <2>1, <2>3
    <3> QED
      BY <1>4, <3>1, <3>2
  <2>4. CASE q = p /\ d \notin grid.halo[l]
    <3>1. m # l /\ Done(p, "Reset", m, 0)
      BY <1>6, <2>4
    <3>2. \/ array[p][b][d] = Zero
          \/ \E n \in Local : <<"Reset", n, 0>> \in DOMAIN progress[p] /\ d \in grid.halo[n]
      BY <2>4, <3>1 DEF Right, Surrounded
    <3>3. \A n \in Local : d \in grid.halo[n] => <<"Reset", n, 0>> # t
      BY <2>4
    <3>4. d \notin grid.outside[<<p, l>>]
      BY <1>3, <2>4, OutsideInHalo
    <3>5. array'[p][b][d] = array[p][b][d]
      BY <1>4, <2>1, <2>4, <3>4
    <3> QED
      BY <1>6, <2>4, <3>2, <3>3, <3>5
  <2> QED
    BY <2>2, <2>3, <2>4
<1>10. ArraysRight'
  <2> SUFFICES ASSUME NEW q \in Process, NEW m \in Local, <<"Reset", m, 0>> \in Started(q)',
                      NEW k \in {"Compute", "Unpack"}, NEW n \in 0..nIters,
                      n = 0 \/ Done(q, k, m, n - 1)', ~Done(q, k, m, n + 1)',
                      NEW c \in CellsOf(q, m, k)
               PROVE  array'[q][ThisArray(n)][c] = Value(Global(q, c), n)
    BY <1>5 DEF ArraysRight, Holds
  <2>1. \A i : Done(q, k, m, i)' <=> Done(q, k, m, i)
    BY <1>1, <1>6
  <2>2. c \in grid.cell /\ c \in grid.halo[m] /\ Global(q, c) \in Domain
    BY <1>3, CellsKnown
  <2>3. ASSUME <<"Reset", m, 0>> \in Started(q)
        PROVE  array[q][ThisArray(n)][c] = Value(Global(q, c), n)
    BY <2>1, <2>3 DEF Right, ArraysRight, Holds
  <2>4. CASE q # p
    BY <1>4, <1>6, <2>3, <2>4
  <2>5. CASE q = p
    <3>1. n = 0
      <4>1. \A u \in Started(p) : u[1] = "Reset"
        BY <1>2, ResetFirst
      <4>2. ~Done(p, k, m, n - 1)
        BY <4>1 DEF Started, Done
      <4> QED
        BY <2>1, <2>5, <4>2
    <3>2. ThisArray(n) \in {0, 1} /\ Value(Global(q, c), n) = One
      BY <3>1 DEF ThisArray, Value
    <3>3. CASE One1 /\ c \in grid.halo[l]
      BY <2>2, <2>5, <3>2, <3>3
    <3>4. CASE One1 /\ c \notin grid.halo[l]
      <4>1. <<"Reset", m, 0>> \in Started(q)
        BY <1>6, <2>2, <2>5, <3>4
      <4> QED
        BY <2>2, <2>3, <2>5, <3>2, <3>4, <4>1
    <3>5. CASE Two
      <4>1. <<"Reset", m, 0>> \in Started(q)
        BY <1>6, <2>5, <3>5
      <4>2. c \notin grid.outside[<<p, l>>]
        BY <1>3, <1>8, <2>2, <2>5, OutsideInHalo
      <4> QED
        BY <2>2, <2>3, <2>5, <3>2, <3>5, <4>1, <4>2
    <3> QED
      BY <1>4, <3>3, <3>4, <3>5
  <2> QED
    BY <2>4, <2>5
<1>11. OnlyRightValues'
  <2> SUFFICES ASSUME NEW q \in Process, NEW m \in Local, NEW b \in {0, 1}, NEW c \in grid.inside[m],
                      NEW v, v = array'[q][b][c]
               PROVE  v \in {One, Unset} \/ v = Value(Global(q, c), IterationOf(v))
    BY <1>2, <1>5 DEF OnlyRightValues
  <2>1. c \in grid.cell /\ Global(q, c) \in Domain
    BY <1>3, InsideKnown
  <2>2. CASE v = array[q][b][c]
    BY <2>2 DEF Right, OnlyRightValues
  <2>3. q # p => v = array[q][b][c]
    BY <1>4
  <2>4. q = p => c \notin grid.outside[<<p, l>>]
    BY <1>3, <1>8, <2>1, OutsideInHalo
  <2>5. v = array[q][b][c] \/ v = One
    BY <1>4, <2>1, <2>3, <2>4
  <2> QED
    BY <2>2, <2>5
<1>12. MemoryOK'
  BY <1>2, <1>4, <1>5 DEF Right, MemoryOK
<1>13. PhasesOK'
  BY <1>1, <1>2, <1>4, <1>7, PhasesKept DEF Right
<1>14. StepsOK'
  BY <1>1, <1>2, <1>4, StepsKept DEF Right
<1>15. PacksRight'
  BY <1>1, <1>2, <1>4, PacksKept DEF Right
<1>16. ChannelsRight'
  BY <1>1, <1>2, <1>3, <1>4, ChannelsKept DEF Right
<1>17. TokensRight'
  BY <1>1, <1>2, <1>4, TokensKept DEF Right
<1> QED
  BY <1>9, <1>10, <1>11, <1>12, <1>13, <1>14, <1>15, <1>16, <1>17 DEF Right

\* The first state is right: nothing has started.
LEMMA InitRight ==
  ASSUME Init
  PROVE  Right
<1>1. PICK g \in Geometries : grid = Initialized(g)
  BY DEF Init, InitGrid
<1>2. /\ phase = [p \in Process |-> "launch"] /\ finished = [p \in Process |-> {}]
      /\ progress = [p \in Process |-> <<>>] /\ channel = [c \in Channel |-> <<>>]
      /\ array = [p \in Process |-> [b \in {0, 1} |-> [c \in grid.cell |-> Unset]]]
      /\ packBuffer = [r \in RemoteFaces |-> NoMessage] /\ unpackBuffer = [r \in RemoteFaces |-> NoMessage]
  BY DEF Init, InitGrid, InitTaskR
<1>3. \A p \in Process : finished[p] = {} /\ DOMAIN progress[p] = {} /\ Started(p) = {}
  BY <1>2 DEF Started
<1>4. \A p \in Process : \A k, l, n, i : ~Done(p, k, l, n) /\ ~Past(p, k, l, n, i)
  BY <1>3 DEF Done, Past
<1>5. PhasesOK
  BY <1>2, <1>3 DEF PhasesOK, Halted
<1>6. StepsOK
  BY <1>3 DEF StepsOK
<1>7. MemoryOK
  BY <1>2 DEF MemoryOK
<1>8. Surrounded
  BY <1>4 DEF Surrounded
<1>9. ArraysRight
  BY <1>3 DEF ArraysRight
<1>10. PacksRight
  BY <1>4 DEF PacksRight
<1>11. TokensRight
  BY <1>4 DEF TokensRight
<1>12. OnlyRightValues
  <2> SUFFICES ASSUME NEW p \in Process, NEW l \in Local, NEW b \in {0, 1}, NEW c \in grid.inside[l]
               PROVE  array[p][b][c] = Unset
    BY DEF OnlyRightValues
  <2>1. c \in grid.cell
    <3>1. l \in D(g)!Local /\ grid.inside[l] = D(g)!Inside(l) /\ grid.cell = D(g)!Cell
      BY <1>1, Fields, MoreFields
    <3> QED
      BY <3>1, InsideInCell
  <2> QED
    BY <1>2, <2>1
<1>13. ChannelsRight
  <2> SUFFICES ASSUME NEW p \in Process, NEW l \in Local, NEW i \in DOMAIN Remote(p, l)
               PROVE  Holding(p, l, Remote(p, l)[i], i, 0, 0)
    BY DEF ChannelsRight
  <2> PICK f, q : f = Remote(p, l)[i] /\ q = Neighbor(p, l, f)[1]
    OBVIOUS
  <2>1. f \in Faces /\ Type(p, l, f) = "REMOTE"
    <3> DEFINE S == {h \in Faces : D(g)!Type(p, l, h) = "REMOTE"}
    <3>1. Remote(p, l) = D(g)!RemoteFaces(p, l) /\ \A h \in Faces : Type(p, l, h) = D(g)!Type(p, l, h)
      BY <1>1, Fields
    <3>2. Listed(Remote(p, l), S)
      BY <3>1, RemoteListed
    <3>3. f \in S
      <4> HIDE DEF S
      <4> QED
        BY <3>2 DEF Listed
    <3> QED
      BY <3>1, <3>3
  <2>2. channel[ProducerEnd(p, l, f)] = <<>>
    <3>1. <<p, l, f>> \in RemoteFaces
      BY <2>1 DEF RemoteFaces, Type
    <3>2. ProducerEnd(p, l, f) \in Channel
      BY <3>1 DEF Channel
    <3> QED
      BY <1>2, <3>2
  <2>3. \A n \in Iteration : ~(n < 0)
    BY IterationsAreNat DEF Iteration
  <2>4. \A n \in Iteration : ~Done(q, "Unpack", Neighbor(p, l, f)[2], n)
    <3> PICK n, h : n = D(g)!NeighborProcess(p, l, f) /\ h = D(g)!NeighborLPos(p, l, f)
      OBVIOUS
    <3>1. /\ Process = D(g)!Process /\ Local = D(g)!Local /\ D(g)!Type(p, l, f) = "REMOTE"
          /\ Neighbor(p, l, f) = <<n, h>>
      BY <1>1, <2>1, Fields
    <3>2. q = n
      BY <3>1
    <3>3. n \in D(g)!Process
      BY <2>1, <3>1, NeighborBack
    <3> QED
      BY <1>4, <3>1, <3>2, <3>3
  <2>5. [k \in 1..(0 - 0) |-> Message(p, l, f, 0 + k - 1)] = <<>>
    OBVIOUS
  <2> QED
    BY <1>4, <2>2, <2>3, <2>4, <2>5 DEF Holding
<1> QED
  BY <1>5, <1>6, <1>7, <1>8, <1>9, <1>10, <1>11, <1>12, <1>13 DEF Right

\* The main threads write no value that a task reads.
LEMMA MainKeepsRight ==
  ASSUME Right, PhasesOK', grid' = grid, array' = array, finished' = finished, progress' = progress,
         packBuffer' = packBuffer, unpackBuffer' = unpackBuffer, channel' = channel
  PROVE  Right'
<1>1. /\ Process' = Process /\ Local' = Local /\ nIters' = nIters /\ Iteration' = Iteration
      /\ Domain' = Domain /\ Channel' = Channel /\ RemoteFaces' = RemoteFaces
      /\ \A p, l : Remote(p, l)' = Remote(p, l)
      /\ \A p, l, f : /\ Type(p, l, f)' = Type(p, l, f) /\ Neighbor(p, l, f)' = Neighbor(p, l, f)
                      /\ ProducerEnd(p, l, f)' = ProducerEnd(p, l, f)
                      /\ ConsumerEnd(p, l, f)' = ConsumerEnd(p, l, f)
      /\ \A p, c : Global(p, c)' = Global(p, c)
      /\ \A p, l, k : CellsOf(p, l, k)' = CellsOf(p, l, k)
      /\ \A p, l, f, n : Message(p, l, f, n)' = Message(p, l, f, n)
  BY SameGrid
<1>2. /\ \A p, k, l, n : Done(p, k, l, n)' <=> Done(p, k, l, n)
      /\ \A p, k, l, n, i : Past(p, k, l, n, i)' <=> Past(p, k, l, n, i)
      /\ \A p : Started(p)' = Started(p)
  BY DEF Done, Past, Started
<1>3. StepsOK'
  BY <1>1 DEF Right, StepsOK
<1>4. MemoryOK'
  BY <1>1 DEF Right, MemoryOK
<1>5. Surrounded'
  BY <1>1, <1>2 DEF Right, Surrounded
<1>6. ArraysRight'
  <2>1. \A p, l, k, n : Holds(p, l, k, n)' <=> Holds(p, l, k, n)
    BY <1>1 DEF Holds
  <2> QED
    BY <1>1, <1>2, <2>1 DEF Right, ArraysRight
<1>7. PacksRight'
  BY <1>1, <1>2 DEF Right, PacksRight
<1>8. ChannelsRight'
  <2>1. ASSUME NEW p \in Process, NEW l \in Local, NEW i \in DOMAIN Remote(p, l), NEW s \in Nat, NEW r \in Nat,
               Holding(p, l, Remote(p, l)[i], i, s, r)
        PROVE  Holding(p, l, Remote(p, l)[i], i, s, r)'
    BY <1>1, <1>2, <2>1 DEF Holding
  <2> QED
    BY <1>1, <2>1 DEF Right, ChannelsRight
<1>9. TokensRight'
  BY <1>1, <1>2 DEF Right, TokensRight
<1>10. OnlyRightValues'
  BY <1>1 DEF Right, OnlyRightValues
<1> QED
  BY <1>3, <1>4, <1>5, <1>6, <1>7, <1>8, <1>9, <1>10 DEF Right

\* A main thread that goes on has been past the reset, or is so now.
LEMMA GotoKeepsPhases ==
  ASSUME IInv, Right, grid' = grid, finished' = finished, progress' = progress,
         NEW p, NEW from, NEW to, Goto(p, from, to),
         from \notin Halted, to \notin Halted \cup {"reset"},
         p \in Process /\ from = "reset" => \A l \in Local : Done(p, "Reset", l, 0)
  PROVE  PhasesOK'
<1>1. /\ Process' = Process /\ Local' = Local /\ Iteration' = Iteration /\ nIters' = nIters
  BY SameGrid
<1>2. /\ \A q, k, l, n : Done(q, k, l, n)' <=> Done(q, k, l, n)
      /\ \A q : Started(q)' = Started(q)
      /\ GraphTask' = GraphTask /\ ResidualTask' = ResidualTask
  BY <1>1 DEF Done, Started, GraphTask, ResidualTask
<1>3. /\ \A q \in Process : q # p => phase'[q] = phase[q]
      /\ p \in Process => phase'[p] = to /\ phase[p] = from
  BY DEF Goto, IInv, TypesOK
<1>4. ASSUME NEW q \in Process
      PROVE  /\ phase'[q] \in Halted => Started(q) = {}
             /\ phase'[q] = "reset" => \A t \in Started(q) : t[1] = "Reset"
             /\ phase'[q] \notin Halted \cup {"reset"} => \A l \in Local : Done(q, "Reset", l, 0)
  <2>1. CASE q = p
    BY <1>3, <2>1 DEF Right, PhasesOK
  <2>2. CASE q # p
    BY <1>3, <2>2 DEF Right, PhasesOK
  <2> QED
    BY <2>1, <2>2
<1>5. \A q \in Process : \A t \in Started(q) :
        t \in {"Reset"} \X Local \X {0} \/ t \in GraphTask \/ t \in ResidualTask
  BY DEF Right, PhasesOK
<1> QED
  BY <1>1, <1>2, <1>4, <1>5 DEF PhasesOK

\* Nor does anything start in a process that waits to be launched, or that is aborted.
LEMMA HaltedKeepsPhases ==
  ASSUME Right, grid' = grid, finished' = finished, progress' = progress,
         \A p \in Process : phase[p] \in Halted /\ phase'[p] \in Halted \cup {"reset"}
  PROVE  PhasesOK'
<1>1. Process' = Process
  BY SameGrid
<1>2. \A p \in Process : Started(p)' = {}
  BY DEF Right, PhasesOK, Started
<1>3. \A p \in Process : phase'[p] \in Halted \cup {"reset"}
  OBVIOUS
<1> QED
  BY <1>1, <1>2, <1>3 DEF PhasesOK

\* All tasks keep what is right,
LEMMA TaskKeepsRight ==
  ASSUME IInv, Right, NEW p \in Process, RunsTask(p)
  PROVE  Right'
<1>1. PICK l \in Local :
        \/ Reset(p, l) \/ Residual(p, l)
        \/ \E it \in Iteration :
             \/ Compute(p, l, it) \/ Pack(p, l, it) \/ Send(p, l, it)
             \/ Receive(p, l, it) \/ LoseReceive(p, l, it) \/ Unpack(p, l, it)
  BY DEF RunsTask
<1>2. CASE Reset(p, l)
  BY <1>2, ResetKeepsRight
<1>3. CASE Residual(p, l)
  BY <1>3, ResidualKeepsRight
<1>4. ASSUME NEW it \in Iteration,
             \/ Compute(p, l, it) \/ Pack(p, l, it) \/ Send(p, l, it)
             \/ Receive(p, l, it) \/ LoseReceive(p, l, it) \/ Unpack(p, l, it)
      PROVE  Right'
  <2>1. CASE Compute(p, l, it)
    BY <2>1, ComputeKeepsRight
  <2>2. CASE Pack(p, l, it)
    BY <2>2, PackKeepsRight
  <2>3. CASE Send(p, l, it)
    BY <2>3, SendKeepsRight
  <2>4. CASE Receive(p, l, it)
    BY <2>4, ReceiveKeepsRight
  <2>5. CASE LoseReceive(p, l, it)
    BY <2>5, LoseReceiveKeepsRight
  <2>6. CASE Unpack(p, l, it)
    BY <2>6, UnpackKeepsRight
  <2> QED
    BY <1>4, <2>1, <2>2, <2>3, <2>4, <2>5, <2>6
<1> QED
  BY <1>1, <1>2, <1>3, <1>4

\* the main thread of a process does,
LEMMA MainThreadKeepsRight ==
  ASSUME IInv, Right, NEW p \in Process, RunsMain(p)
  PROVE  Right'
<1>1. CASE AwaitReset(p)
  <2>1. /\ Goto(p, "reset", "solve") /\ UNCHANGED <<grid, array, taskrVars>>
        /\ \A l \in Local : Done(p, "Reset", l, 0)
    BY <1>1 DEF AwaitReset, Done
  <2>2. PhasesOK'
    BY <2>1, GotoKeepsPhases DEF Halted, taskrVars
  <2> QED
    BY <2>1, <2>2, MainKeepsRight DEF taskrVars
<1>2. CASE AwaitSolution(p)
  <2>1. Goto(p, "solve", "residual") /\ UNCHANGED <<grid, array, taskrVars>>
    BY <1>2 DEF AwaitSolution
  <2>2. PhasesOK'
    BY <2>1, GotoKeepsPhases DEF Halted, taskrVars
  <2> QED
    BY <2>1, <2>2, MainKeepsRight DEF taskrVars
<1>3. CASE AwaitResidual(p)
  <2>1. Goto(p, "residual", "exchange") /\ UNCHANGED <<grid, array, taskrVars>>
    BY <1>3 DEF AwaitResidual
  <2>2. PhasesOK'
    BY <2>1, GotoKeepsPhases DEF Halted, taskrVars
  <2> QED
    BY <2>1, <2>2, MainKeepsRight DEF taskrVars
<1>4. CASE PushResidual(p)
  <2>1. /\ Goto(p, "exchange", "done")
        /\ UNCHANGED <<grid, array, finished, progress, packBuffer, unpackBuffer, channel>>
    BY <1>4 DEF PushResidual
  <2>2. PhasesOK'
    BY <2>1, GotoKeepsPhases DEF Halted
  <2> QED
    BY <2>1, <2>2, MainKeepsRight
<1> QED
  BY <1>1, <1>2, <1>3, <1>4 DEF RunsMain

\* and all steps.
LEMMA NextKeepsRight ==
  ASSUME IInv, Right, [Next]_vars
  PROVE  Right'
<1>1. CASE Initialize
  <2>1. /\ \A p \in Process : phase[p] = "launch"
        /\ phase' = [p \in Process |-> "reset"] /\ UNCHANGED <<grid, array, taskrVars>>
    BY <1>1 DEF Initialize, Collectively
  <2>2. PhasesOK'
    BY <2>1, HaltedKeepsPhases DEF Halted, taskrVars
  <2> QED
    BY <2>1, <2>2, MainKeepsRight DEF taskrVars
<1>2. CASE AbortLaunch
  <2>1. /\ ~WellFormed /\ phase' = [p \in Process |-> "aborted"] /\ UNCHANGED <<grid, array, taskrVars>>
    BY <1>2 DEF AbortLaunch, Abort
  <2>2. \A p \in Process : phase[p] \in Halted
    BY <2>1 DEF IInv, GridOK, Halted
  <2>3. PhasesOK'
    BY <2>1, <2>2, HaltedKeepsPhases DEF Halted, taskrVars
  <2> QED
    BY <2>1, <2>3, MainKeepsRight DEF taskrVars
<1>3. ASSUME NEW p \in Process, RunsTask(p) \/ RunsMain(p) PROVE Right'
  BY <1>3, TaskKeepsRight, MainThreadKeepsRight
<1>4. CASE Report
  <2>1. Goto(Root, "exchange", "done") /\ UNCHANGED <<grid, array, taskrVars>>
    BY <1>4 DEF Report
  <2>2. PhasesOK'
    BY <2>1, GotoKeepsPhases DEF Halted, taskrVars
  <2> QED
    BY <2>1, <2>2, MainKeepsRight DEF taskrVars
<1>5. CASE PopResidual \/ ReadResidual \/ UNCHANGED vars
  <2>1. UNCHANGED <<grid, array, phase, finished, progress, packBuffer, unpackBuffer, channel>>
    BY <1>5 DEF PopResidual, ReadResidual, vars, taskrVars
  <2>2. PhasesOK'
    <3>1. Process' = Process /\ Local' = Local /\ GraphTask' = GraphTask /\ ResidualTask' = ResidualTask
      BY <2>1, SameGraph, SameGrid
    <3> QED
      BY <2>1, <3>1 DEF Right, PhasesOK, Started, Done
  <2> QED
    BY <2>1, <2>2, MainKeepsRight
<1> QED
  BY <1>1, <1>2, <1>3, <1>4, <1>5 DEF Next

(* In every state of every launch the arrays, the pack buffers, the channels and *)
(* the tokens hold what their iteration needs: the inductive invariant of the     *)
(* data, of which the next theorem is a part.                                     *)
THEOREM JacobiValuesRight == Spec => [](IInv /\ Right)
<1>1. Init => IInv /\ Right
  BY InitIInv, InitRight
<1>2. IInv /\ Right /\ [Next]_vars => IInv' /\ Right'
  BY NextKeeps, NextKeepsRight
<1> QED
  BY <1>1, <1>2, PTL DEF Spec

(* Every cell that a task writes is the value of that cell in that iteration: no *)
(* Compute, Pack or Unpack of solve (jacobi3d.hpp:31-166) reads a cell too early, *)
(* too late or from the wrong neighbour, whatever the order of the tasks, for any *)
(* grid, decomposition and number of iterations.                                  *)
THEOREM JacobiOnlyRightValues == Spec => []OnlyRightValues
<1>1. Right => OnlyRightValues
  BY DEF Right
<1> QED
  BY <1>1, JacobiValuesRight, PTL

-----------------------------------------------------------------------------
\* How far each block is.

\* How many iterations each block has computed; no cell of it is further.
Counting(p, l, n) ==
  /\ \A i \in Nat : Done(p, "Compute", l, i) <=> i < n
  /\ \A b \in {0, 1} : \A c \in grid.inside[l] : IterationOf(array[p][b][c]) \in 0..n
Counted == \A p \in Process : \A l \in Local : \E n \in Nat : Counting(p, l, n)

\* The iterations that the cells of a block may have.
LEMMA IterationOfValues ==
  /\ IterationOf(Zero) = 0 /\ IterationOf(One) = 0 /\ IterationOf(Unset) = 0
  /\ \A c : \A n \in Nat : IterationOf(Value(c, n)) = n
<1>1. IterationOf(Zero) = 0 /\ IterationOf(One) = 0 /\ IterationOf(Unset) = 0
  BY DEF IterationOf, Zero, One, Unset
<1>2. ASSUME NEW c, NEW n \in Nat PROVE IterationOf(Value(c, n)) = n
  <2>1. CASE n = 0
    BY <1>1, <2>1 DEF Value
  <2>2. CASE n # 0
    <3>1. Value(c, n) = <<c[1], c[2], c[3], n>>
      BY <2>2 DEF Value
    <3> QED
      BY <3>1 DEF IterationOf
  <2> QED
    BY <2>1, <2>2
<1> QED
  BY <1>1, <1>2

\* The iteration that a block shows is the number of those it has computed.
LEMMA IterationCounts ==
  ASSUME IInv, Right, NEW p \in Process, NEW l \in Local, NEW n \in Nat, Counting(p, l, n)
  PROVE  IterationOfBlock(p, l) = n
<1>1. "Compute" \in Kind
  BY DEF Kind
<1>2. CASE n = 0
  <2>1. \A c \in grid.inside[l] : IterationOf(array[p][0][c]) = 0 /\ IterationOf(array[p][1][c]) = 0
    BY <1>2 DEF Counting
  <2> QED
    BY <1>2, <2>1 DEF IterationOfBlock
<1>3. CASE n > 0
  <2>1. n - 1 \in Nat /\ n \in Nat /\ n + 1 \in Nat /\ ~(n + 1 < n)
    BY <1>3
  <2>2. Done(p, "Compute", l, n - 1) /\ ~Done(p, "Compute", l, n + 1)
    BY <2>1 DEF Counting
  <2>3. n - 1 \in Iteration /\ nIters \in Nat
    BY <1>1, <2>2, DoneFacts, IterationsAreNat DEF Right
  <2>4. n \in 0..nIters
    BY <2>1, <2>3 DEF Iteration
  <2>5. <<"Compute", l, n - 1>> \in Started(p)
    BY <2>2 DEF Done, Started
  <2>6. phase[p] \notin Halted \cup {"reset"}
    BY <2>5 DEF Right, PhasesOK
  <2>7. <<"Reset", l, 0>> \in Started(p)
    BY <2>6 DEF Right, PhasesOK, Started, Done
  <2>8. Holds(p, l, "Compute", n)
    BY <2>2, <2>4, <2>7 DEF Right, ArraysRight
  <2>9. \A c \in grid.inside[l] : IterationOf(array[p][ThisArray(n)][c]) = n
    BY <2>8, IterationOfValues DEF Holds, CellsOf
  <2>10. ThisArray(n) \in {0, 1}
    BY TwoArrays
  <2>11. ASSUME NEW c \in grid.inside[l]
         PROVE  /\ IterationOf(array[p][0][c]) \in 0..n /\ IterationOf(array[p][1][c]) \in 0..n
                /\ IterationOf(array[p][0][c]) = n \/ IterationOf(array[p][1][c]) = n
    BY <2>9, <2>10 DEF Counting
  <2>12. grid.inside[l] # {}
    <3>1. PICK g : InUse(g)
      BY <2>6, SolvingGrid
    <3>2. l \in D(g)!Local /\ grid.inside[l] = D(g)!Inside(l) /\ Decomposed(g)
      BY <3>1, Fields DEF InUse
    <3> QED
      BY <3>2, BlockHasCells
  <2> QED
    BY <2>11, <2>12 DEF IterationOfBlock
<1> QED
  BY <1>2, <1>3

\* At first all are at zero.
LEMMA InitCounted ==
  ASSUME Init
  PROVE  Counted
<1>1. PICK g \in Geometries : grid = Initialized(g)
  BY DEF Init, InitGrid
<1>2. /\ finished = [p \in Process |-> {}]
      /\ array = [p \in Process |-> [b \in {0, 1} |-> [c \in grid.cell |-> Unset]]]
  BY DEF Init, InitGrid, InitTaskR
<1>3. ASSUME NEW p \in Process, NEW l \in Local PROVE Counting(p, l, 0)
  <2>1. \A i \in Nat : ~Done(p, "Compute", l, i) /\ ~(i < 0)
    BY <1>2 DEF Done
  <2>2. ASSUME NEW b \in {0, 1}, NEW c \in grid.inside[l] PROVE IterationOf(array[p][b][c]) = 0
    <3>1. l \in D(g)!Local /\ grid.inside[l] = D(g)!Inside(l) /\ grid.cell = D(g)!Cell
      BY <1>1, Fields, MoreFields
    <3>2. c \in grid.cell
      BY <3>1, InsideInCell
    <3> QED
      BY <1>2, <3>2, IterationOfValues
  <2> QED
    BY <2>1, <2>2 DEF Counting
<1> QED
  BY <1>3 DEF Counted

\* Steps that compute nothing, though they may set cells back.
LEMMA CountedKept ==
  ASSUME Counted, grid' = grid,
         \A p \in Process : \A l \in Local : \A i \in Nat : Done(p, "Compute", l, i)' <=> Done(p, "Compute", l, i),
         \A p \in Process : \A l \in Local : \A b \in {0, 1} : \A c \in grid.inside[l] :
           array'[p][b][c] = array[p][b][c] \/ IterationOf(array'[p][b][c]) = 0
  PROVE  Counted'
<1>1. Process' = Process /\ Local' = Local
  BY SameGrid
<1> SUFFICES ASSUME NEW p \in Process, NEW l \in Local PROVE \E n \in Nat : Counting(p, l, n)'
  BY <1>1 DEF Counted
<1>2. PICK n \in Nat : Counting(p, l, n)
  BY DEF Counted
<1>3. \A i \in Nat : Done(p, "Compute", l, i)' <=> i < n
  BY <1>2 DEF Counting
<1>4. ASSUME NEW b \in {0, 1}, NEW c \in grid.inside[l] PROVE IterationOf(array'[p][b][c]) \in 0..n
  <2>1. IterationOf(array[p][b][c]) \in 0..n
    BY <1>2 DEF Counting
  <2>2. array'[p][b][c] = array[p][b][c] \/ IterationOf(array'[p][b][c]) = 0
    OBVIOUS
  <2>3. CASE array'[p][b][c] = array[p][b][c]
    BY <2>1, <2>3
  <2>4. CASE IterationOf(array'[p][b][c]) = 0
    BY <2>4
  <2> QED
    BY <2>2, <2>3, <2>4
<1>5. \A b \in {0, 1} : \A c \in grid'.inside[l] : IterationOf(array'[p][b][c]) \in 0..n
  BY <1>4
<1>6. Counting(p, l, n)'
  BY <1>3, <1>5 DEF Counting, IterationOf
<1> QED
  BY <1>6

\* Reset keeps the counts,
LEMMA ResetKeepsCounted ==
  ASSUME IInv, Right, Counted, NEW p \in Process, NEW l \in Local, Reset(p, l)
  PROVE  Counted'
<1>1. IsLive(p, <<"Reset", l, 0>>)
  BY DEF Reset, TakeStep
<1>2. PICK g : InUse(g)
  BY <1>1, ResetFirst
<1>3. /\ Others(p, <<"Reset", l, 0>>) /\ grid' = grid
      /\ \A q \in Process : q # p => array'[q] = array[q]
      /\ \/ \A b \in {0, 1} : \A c \in grid.cell :
              array'[p][b][c] = IF c \in grid.halo[l] THEN One ELSE array[p][b][c]
         \/ \A b \in {0, 1} : \A c \in grid.cell :
              array'[p][b][c] = IF c \in grid.outside[<<p, l>>] THEN Zero ELSE array[p][b][c]
  BY ResetStep
<1>4. \A q \in Process : \A m \in Local : \A i \in Nat : Done(q, "Compute", m, i)' <=> Done(q, "Compute", m, i)
  BY <1>3 DEF Others, Done
<1>5. ASSUME NEW m \in Local, NEW b \in {0, 1}, NEW c \in grid.inside[m]
      PROVE  array'[p][b][c] = array[p][b][c] \/ array'[p][b][c] = One \/ array'[p][b][c] = Zero
  <2>1. c \in grid.cell
    BY <1>2, InsideKnown
  <2>2. \/ array'[p][b][c] = IF c \in grid.halo[l] THEN One ELSE array[p][b][c]
        \/ array'[p][b][c] = IF c \in grid.outside[<<p, l>>] THEN Zero ELSE array[p][b][c]
    BY <1>3, <2>1
  <2> QED
    BY <2>2
<1>6. ASSUME NEW q \in Process, NEW m \in Local, NEW b \in {0, 1}, NEW c \in grid.inside[m]
      PROVE  array'[q][b][c] = array[q][b][c] \/ IterationOf(array'[q][b][c]) = 0
  BY <1>3, <1>5, IterationOfValues
<1> QED
  BY <1>3, <1>4, <1>6, CountedKept

\* Unpack does: its values are those of an iteration that is computed here and next door,
LEMMA UnpackKeepsCounted ==
  ASSUME IInv, Right, Counted, NEW p \in Process, NEW l \in Local, NEW it \in Iteration, Unpack(p, l, it)
  PROVE  Counted'
<1> PICK t, b, token : /\ t = <<"Unpack", l, it>> /\ b = NextArray(it)
                       /\ token = [f \in {f \in Faces : Type(p, l, f) = "REMOTE"} |-> unpackBuffer[<<p, l, f>>]]
  OBVIOUS
<1>1. "Unpack" \in Kind /\ t[1] = "Unpack"
  BY DEF Kind
<1>2. /\ TakeStep(p, t, 1) /\ IsLive(p, t) /\ grid' = grid
      /\ array' = [array EXCEPT ![p][b] = Unpacked(@, l, token)]
  BY DEF Unpack, TakeStep
<1>3. it \in Nat
  BY <1>1, <1>2, LiveFacts DEF Right
<1>4. PICK g : InUse(g)
  BY <1>1, <1>2, LiveFacts DEF Right
<1>5. Others(p, t)
  BY <1>2, Effect
<1>6. \A q \in Process : \A m \in Local : \A i \in Nat : Done(q, "Compute", m, i)' <=> Done(q, "Compute", m, i)
  BY <1>1, <1>5 DEF Others, Done
<1>7. b \in {0, 1}
  BY <1>3, TwoArrays
<1>8. /\ array'[p] = [array[p] EXCEPT ![b] = Unpacked(@, l, token)]
      /\ \A q \in Process : q # p => array'[q] = array[q]
  BY <1>2 DEF Right, MemoryOK
<1>9. /\ \A e \in {0, 1} : e # b => array'[p][e] = array[p][e]
      /\ array'[p][b] = Unpacked(array[p][b], l, token)
  BY <1>7, <1>8 DEF Right, MemoryOK
<1>10. DOMAIN token = {f \in Faces : Type(p, l, f) = "REMOTE"}
       /\ \A f \in DOMAIN token : token[f] = unpackBuffer[<<p, l, f>>]
  OBVIOUS
<1>11. ASSUME NEW m \in Local, NEW c \in grid.inside[m] PROVE array'[p][b][c] = array[p][b][c]
  <2>1. c \in grid.cell
    BY <1>4, InsideKnown
  <2>2. c \notin Ghosts(p, l)
    BY <1>4, GhostKnown
  <2>3. IsLive(p, <<"Unpack", l, it>>)
    BY <1>2
  <2> QED
    BY <1>9, <1>10, <2>1, <2>2, <2>3, UnpackValues
<1>12. ASSUME NEW q \in Process, NEW m \in Local, NEW e \in {0, 1}, NEW c \in grid.inside[m]
       PROVE  array'[q][e][c] = array[q][e][c]
  BY <1>8, <1>9, <1>11
<1> QED
  BY <1>2, <1>6, <1>12, CountedKept

\* and Compute is one ahead of the count of its block.
LEMMA ComputeKeepsCounted ==
  ASSUME IInv, Right, Counted, NEW p \in Process, NEW l \in Local, NEW it \in Iteration, Compute(p, l, it)
  PROVE  Counted'
<1> PICK t, a, b : t = <<"Compute", l, it>> /\ a = ThisArray(it) /\ b = NextArray(it)
  OBVIOUS
<1>1. "Compute" \in Kind /\ t \in GraphTask /\ t[1] = "Compute"
  BY DEF Kind, GraphTask
<1>2. /\ TakeStep(p, t, 1) /\ IsLive(p, t) /\ grid' = grid
      /\ array' = [array EXCEPT ![p] = Computed(p, l, a, b, it)]
  BY DEF Compute, TakeStep
<1>3. it \in Nat /\ \A i \in Nat : Done(p, "Compute", l, i) <=> i < it
  BY <1>1, <1>2, LiveFacts DEF Right
<1>4. PICK g : InUse(g)
  BY <1>1, <1>2, LiveFacts DEF Right
<1>5. StepsOf(p, t) + 1 >= 1
  <2>1. t \notin DOMAIN progress[p]
    BY <1>1 DEF IInv, InOrder
  <2> QED
    BY <2>1 DEF StepsOf
<1>6. Others(p, t) /\ t \in finished'[p]
  BY <1>2, <1>5, Effect
<1>7. a \in {0, 1} /\ b \in {0, 1} /\ a # b
  BY <1>3, TwoArrays
<1>8. /\ array'[p] = [array[p] EXCEPT ![b] =
           [c \in grid.cell |-> IF c \in grid.inside[l] THEN Update(p, array[p][a], c, it) ELSE @[c]]]
      /\ \A q \in Process : q # p => array'[q] = array[q]
  BY <1>2 DEF Right, MemoryOK, Computed
<1>9. /\ \A e \in {0, 1} : e # b => array'[p][e] = array[p][e]
      /\ array'[p][b] = [c \in grid.cell |->
           IF c \in grid.inside[l] THEN Update(p, array[p][a], c, it) ELSE array[p][b][c]]
  BY <1>7, <1>8 DEF Right, MemoryOK
<1>10. Process' = Process /\ Local' = Local
  BY <1>2, SameGrid
<1> SUFFICES ASSUME NEW q \in Process, NEW m \in Local PROVE \E n \in Nat : Counting(q, m, n)'
  BY <1>10 DEF Counted
<1>11. PICK n \in Nat : Counting(q, m, n)
  BY DEF Counted
<1>12. CASE q = p /\ m = l
  <2>1. n = it
    <3>1. \A i \in Nat : i < n <=> i < it
      BY <1>3, <1>11, <1>12 DEF Counting
    <3>2. ~(n < it) /\ ~(it < n)
      BY <1>3, <3>1
    <3> QED
      BY <1>3, <3>2
  <2>2. ASSUME NEW i \in Nat PROVE Done(p, "Compute", l, i)' <=> i < it + 1
    <3>1. CASE i = it
      BY <1>6, <3>1 DEF Done
    <3>2. CASE i # it
      <4>1. Done(p, "Compute", l, i)' <=> Done(p, "Compute", l, i)
        BY <1>6, <3>2 DEF Others, Done
      <4> QED
        BY <1>3, <3>2, <4>1
    <3> QED
      BY <3>1, <3>2
  <2>3. ASSUME NEW e \in {0, 1}, NEW c \in grid.inside[l] PROVE IterationOf(array'[p][e][c]) \in 0..(it + 1)
    <3>1. CASE e = b
      <4>1. c \in grid.cell
        BY <1>4, InsideKnown
      <4>2. Update(p, array[p][a], c, it) = Value(Global(p, c), it + 1)
        BY <1>2, ComputeValues
      <4>3. array'[p][e][c] = Value(Global(p, c), it + 1) /\ it + 1 \in Nat
        BY <1>3, <1>9, <3>1, <4>1, <4>2
      <4> QED
        BY <1>3, <4>3, IterationOfValues
    <3>2. CASE e # b
      <4>1. IterationOf(array[p][e][c]) \in 0..it
        BY <1>11, <1>12, <2>1 DEF Counting
      <4> QED
        BY <1>3, <1>9, <3>2, <4>1
    <3> QED
      BY <3>1, <3>2
  <2>4. \A e \in {0, 1} : \A c \in grid'.inside[l] : IterationOf(array'[p][e][c]) \in 0..(it + 1)
    BY <1>2, <2>3
  <2>5. Counting(p, l, it + 1)'
    BY <2>2, <2>4 DEF Counting, IterationOf
  <2> QED
    BY <1>3, <1>12, <2>5
<1>13. CASE ~(q = p /\ m = l)
  <2>1. \A i \in Nat : Done(q, "Compute", m, i)' <=> i < n
    BY <1>6, <1>11, <1>13 DEF Others, Done, Counting
  <2>2. ASSUME NEW e \in {0, 1}, NEW c \in grid.inside[m] PROVE IterationOf(array'[q][e][c]) \in 0..n
    <3>1. array'[q][e][c] = array[q][e][c]
      <4>1. c \in grid.cell
        BY <1>4, InsideKnown
      <4>2. q = p => c \notin grid.inside[l]
        BY <1>4, <1>13, ApartKnown
      <4>3. CASE q # p
        BY <1>8, <4>3
      <4>4. CASE q = p /\ e # b
        BY <1>9, <4>4
      <4>5. CASE q = p /\ e = b
        BY <1>9, <4>1, <4>2, <4>5
      <4> QED
        BY <4>3, <4>4, <4>5
    <3>2. IterationOf(array[q][e][c]) \in 0..n
      BY <1>11 DEF Counting
    <3> QED
      BY <3>1, <3>2
  <2>3. \A e \in {0, 1} : \A c \in grid'.inside[m] : IterationOf(array'[q][e][c]) \in 0..n
    BY <1>2, <2>2
  <2>4. Counting(q, m, n)'
    BY <2>1, <2>3 DEF Counting, IterationOf
  <2> QED
    BY <2>4
<1> QED
  BY <1>12, <1>13

\* Adjacency is mutual, across the faces of a process and within it.
LEMMA AdjacentFaces ==
  ASSUME NEW g \in Geometries, grid = Initialized(g), NEW p \in Process, NEW l \in Local, NEW f \in Faces,
         Type(p, l, f) # "BOUNDARY", NEW q, NEW m, Neighbor(p, l, f) = <<q, m>>, NEW h, h = Opposite(f)
  PROVE  /\ q \in Process /\ m \in Local /\ h \in Faces
         /\ Type(q, m, h) # "BOUNDARY" /\ Neighbor(q, m, h) = <<p, l>>
         /\ Type(p, l, f) = "LOCAL" => q = p /\ m \in LocalNeighbors(p, l)
         /\ Type(p, l, f) \in {"LOCAL", "REMOTE"}
<1>1. /\ Process = D(g)!Process /\ Local = D(g)!Local /\ Type(p, l, f) = D(g)!Type(p, l, f)
      /\ q = D(g)!NeighborProcess(p, l, f) /\ m = D(g)!NeighborLPos(p, l, f)
      /\ \A r \in Process, k \in Local, e \in Faces :
           /\ Type(r, k, e) = D(g)!Type(r, k, e)
           /\ Neighbor(r, k, e) = <<D(g)!NeighborProcess(r, k, e), D(g)!NeighborLPos(r, k, e)>>
  BY Fields
<1>2. Type(p, l, f) \in {"LOCAL", "REMOTE"}
  BY <1>1 DEF D!Type
<1>3. CASE Type(p, l, f) = "REMOTE"
  <2>1. /\ q \in D(g)!Process /\ m \in D(g)!Local /\ h \in Faces
        /\ D(g)!Type(q, m, h) = "REMOTE" /\ D(g)!NeighborProcess(q, m, h) = p
        /\ D(g)!NeighborLPos(q, m, h) = l
    BY <1>1, <1>3, NeighborBack
  <2> QED
    BY <1>1, <1>2, <1>3, <2>1
<1>4. CASE Type(p, l, f) = "LOCAL"
  <2>1. l[f[1]] # D(g)!Edge(g.lt, f)
    BY <1>1, <1>4 DEF D!Type, D!lt
  <2>2. q = p /\ m = D(g)!Shift(l, f, 1)
    BY <1>1, <1>4 DEF D!NeighborProcess, D!NeighborLPos
  <2>3. m \in D(g)!Local /\ h \in Faces /\ m[h[1]] # D(g)!Edge(g.lt, h) /\ D(g)!Shift(m, h, 1) = l
    BY <1>1, <2>1, <2>2, ShiftBack
  <2>4. Type(p, m, h) = "LOCAL"
    BY <1>1, <2>3 DEF D!Type, D!lt
  <2>5. Neighbor(p, m, h) = <<p, l>>
    BY <1>1, <2>3, <2>4 DEF D!NeighborProcess, D!NeighborLPos
  <2>6. m \in LocalNeighbors(p, l)
    <3>1. Neighbor(p, l, f)[2] = m
      OBVIOUS
    <3> QED
      BY <1>4, <3>1 DEF LocalNeighbors
  <2> QED
    BY <1>1, <1>2, <2>2, <2>3, <2>4, <2>5, <2>6
<1> QED
  BY <1>2, <1>3, <1>4

\* All steps keep the counts.
LEMMA NextKeepsCounted ==
  ASSUME IInv, Right, Counted, [Next]_vars
  PROVE  Counted'
<1>1. ASSUME grid' = grid, array' = array, finished' = finished PROVE Counted'
  BY <1>1, CountedKept DEF Done
<1>2. ASSUME NEW p \in Process, NEW t, NEW n, TakeStep(p, t, n), t[1] # "Compute", grid' = grid, array' = array
      PROVE  Counted'
  <2>1. Others(p, t)
    BY <1>2, Effect
  <2>2. \A q \in Process : \A l \in Local : \A i \in Nat : Done(q, "Compute", l, i)' <=> Done(q, "Compute", l, i)
    BY <1>2, <2>1 DEF Others, Done
  <2> QED
    BY <1>2, <2>2, CountedKept
<1>3. ASSUME NEW p \in Process, NEW l \in Local, NEW it \in Iteration,
             \/ Compute(p, l, it) \/ Pack(p, l, it) \/ Send(p, l, it)
             \/ Receive(p, l, it) \/ LoseReceive(p, l, it) \/ Unpack(p, l, it)
      PROVE  Counted'
  <2>1. CASE Compute(p, l, it)
    BY <2>1, ComputeKeepsCounted
  <2>2. CASE Pack(p, l, it)
    BY <1>2, <2>2 DEF Pack
  <2>3. CASE Send(p, l, it)
    <3>1. PICK n : TakeStep(p, <<"Send", l, it>>, n) /\ grid' = grid /\ array' = array
      BY <2>3 DEF Send
    <3> QED
      BY <1>2, <3>1
  <2>4. CASE Receive(p, l, it)
    <3>1. PICK n : TakeStep(p, <<"Receive", l, it>>, n) /\ grid' = grid /\ array' = array
      BY <2>4 DEF Receive
    <3> QED
      BY <1>2, <3>1
  <2>5. CASE LoseReceive(p, l, it)
    BY <1>1, <2>5 DEF LoseReceive
  <2>6. CASE Unpack(p, l, it)
    BY <2>6, UnpackKeepsCounted
  <2> QED
    BY <1>3, <2>1, <2>2, <2>3, <2>4, <2>5, <2>6
<1>4. ASSUME NEW p \in Process, NEW l \in Local, Reset(p, l) \/ Residual(p, l) PROVE Counted'
  <2>1. CASE Reset(p, l)
    BY <2>1, ResetKeepsCounted
  <2>2. CASE Residual(p, l)
    BY <1>2, <2>2 DEF Residual
  <2> QED
    BY <1>4, <2>1, <2>2
<1>5. ASSUME NEW p \in Process, RunsTask(p) PROVE Counted'
  BY <1>3, <1>4, <1>5 DEF RunsTask
<1>6. ASSUME NEW p \in Process, RunsMain(p) PROVE Counted'
  BY <1>1, <1>6 DEF RunsMain, AwaitReset, AwaitSolution, AwaitResidual, PushResidual, taskrVars
<1>7. CASE Initialize \/ AbortLaunch \/ Report
  BY <1>1, <1>7 DEF Initialize, AbortLaunch, Abort, Report, taskrVars
<1>8. CASE PopResidual \/ ReadResidual \/ UNCHANGED vars
  BY <1>1, <1>8 DEF PopResidual, ReadResidual, vars, taskrVars
<1> QED
  BY <1>5, <1>6, <1>7, <1>8 DEF Next

\* Before a block computes an iteration, its neighbours have computed the one
\* before: in the same process because Compute depends on it, across
\* processes because the message unpacked has been sent after that.
LEMMA NeighborsAreThere ==
  ASSUME IInv, Right, NEW p \in Process, NEW l \in Local, NEW it \in Iteration,
         IsLive(p, <<"Compute", l, it>>), it > 0, NEW f \in Faces, Type(p, l, f) # "BOUNDARY"
  PROVE  Done(Neighbor(p, l, f)[1], "Compute", Neighbor(p, l, f)[2], it - 1)
<1>1. "Compute" \in Kind /\ "Unpack" \in Kind /\ "Pack" \in Kind /\ "Send" \in Kind
  BY DEF Kind
<1>2. it \in Nat /\ \A u \in Dependencies(p, <<"Compute", l, it>>) : u \in finished[p]
  BY <1>1, LiveFacts DEF Right
<1>3. PICK g : InUse(g)
  BY <1>1, LiveFacts DEF Right
<1>4. PICK q, m, h : Neighbor(p, l, f) = <<q, m>> /\ h = Opposite(f)
  BY <1>3, Fields DEF InUse
<1>5. /\ q \in Process /\ m \in Local
      /\ Type(p, l, f) = "LOCAL" => q = p /\ m \in LocalNeighbors(p, l)
      /\ Type(p, l, f) \in {"LOCAL", "REMOTE"}
  BY <1>3, <1>4, AdjacentFaces DEF InUse, Decomposed
<1>6. CASE Type(p, l, f) = "LOCAL"
  <2>1. <<"Compute", m, it - 1>> \in Dependencies(p, <<"Compute", l, it>>)
    BY <1>5, <1>6, DependsOn
  <2> QED
    BY <1>2, <1>4, <1>5, <1>6, <2>1 DEF Done
<1>7. CASE Type(p, l, f) = "REMOTE"
  <2> PICK n : n = it - 1
    OBVIOUS
  <2>1. <<"Unpack", l, n>> \in Dependencies(p, <<"Compute", l, it>>)
    BY DependsOn
  <2>2. Done(p, "Unpack", l, n)
    BY <1>2, <2>1 DEF Done
  <2>3. n \in Iteration /\ n \in Nat
    BY <1>1, <2>2, DoneFacts DEF Right
  <2>4. /\ h \in Faces /\ Type(q, m, h) = "REMOTE" /\ Neighbor(q, m, h) = <<p, l>>
    <3>1. q = Neighbor(p, l, f)[1] /\ m = Neighbor(p, l, f)[2]
      BY <1>4
    <3> QED
      BY <1>3, <1>4, <1>7, <3>1, NeighborEnd
  <2>5. PICK i \in DOMAIN Remote(q, m) : Remote(q, m)[i] = h
    BY <1>3, <1>5, <2>4, PlaceOfFace
  <2>6. PICK s \in Nat, r \in Nat : r <= s /\ Holding(q, m, h, i, s, r)
    BY <1>5, <2>5 DEF Right, ChannelsRight
  <2>7. Past(q, "Send", m, n, i)
    <3>1. n < r
      BY <2>2, <2>3, <2>4, <2>6 DEF Holding
    <3> QED
      BY <2>3, <2>6, <3>1 DEF Holding
  <2>8. Done(q, "Pack", m, n)
    <3>1. <<"Send", m, n>> \in Started(q) \cap GraphTask
      BY <1>1, <1>5, <2>3, <2>7 DEF Past, Done, Started, GraphTask
    <3>2. \A u \in Dependencies(q, <<"Send", m, n>>) : u \in finished[q]
      BY <1>5, <3>1 DEF IInv, InOrder, DependenciesDone
    <3>3. <<"Pack", m, n>> \in Dependencies(q, <<"Send", m, n>>)
      BY <1>5, <2>3, DependsOn
    <3> QED
      BY <3>2, <3>3 DEF Done
  <2>9. Done(q, "Compute", m, n)
    <3>1. \A u \in Dependencies(q, <<"Pack", m, n>>) : u \in finished[q]
      BY <1>1, <1>5, <2>8, DoneFacts DEF Right
    <3>2. <<"Compute", m, n>> \in Dependencies(q, <<"Pack", m, n>>)
      BY <1>5, <2>3, DependsOn
    <3> QED
      BY <3>1, <3>2 DEF Done
  <2> QED
    BY <1>4, <2>9
<1> QED
  BY <1>5, <1>6, <1>7

-----------------------------------------------------------------------------
\* The refinement of Stencil.

\* What the number of iterations is, for all blocks at once.
Iterates ==
  \A p \in Process : \A l \in Local : \A n \in Nat : Counting(p, l, n) => IterationOfBlock(p, l) = n

\* No block has computed another iteration.
SameComputes ==
  \A p \in Process : \A l \in Local : \A i \in Nat : Done(p, "Compute", l, i)' <=> Done(p, "Compute", l, i)

\* Nothing but Compute takes a block on.
LEMMA OnlyComputes ==
  ASSUME IInv, [Next]_vars
  PROVE  /\ grid' = grid
         /\ \/ SameComputes
            \/ \E p \in Process : \E l \in Local : \E it \in Iteration : Compute(p, l, it)
<1>1. ASSUME grid' = grid, finished' = finished PROVE grid' = grid /\ SameComputes
  BY <1>1 DEF Done, SameComputes
<1>2. ASSUME NEW p \in Process, NEW t, NEW n, TakeStep(p, t, n), t[1] # "Compute", grid' = grid
      PROVE  grid' = grid /\ SameComputes
  <2>1. Others(p, t)
    BY <1>2, Effect
  <2> QED
    BY <1>2, <2>1 DEF Others, Done, SameComputes
<1>3. ASSUME NEW p \in Process, NEW l \in Local, NEW it \in Iteration,
             Pack(p, l, it) \/ Send(p, l, it) \/ Receive(p, l, it) \/ LoseReceive(p, l, it) \/ Unpack(p, l, it)
      PROVE  grid' = grid /\ SameComputes
  <2>1. CASE Pack(p, l, it)
    BY <1>2, <2>1 DEF Pack
  <2>2. CASE Send(p, l, it)
    <3>1. PICK n : TakeStep(p, <<"Send", l, it>>, n) /\ grid' = grid
      BY <2>2 DEF Send
    <3> QED
      BY <1>2, <3>1
  <2>3. CASE Receive(p, l, it)
    <3>1. PICK n : TakeStep(p, <<"Receive", l, it>>, n) /\ grid' = grid
      BY <2>3 DEF Receive
    <3> QED
      BY <1>2, <3>1
  <2>4. CASE LoseReceive(p, l, it)
    BY <1>1, <2>4 DEF LoseReceive
  <2>5. CASE Unpack(p, l, it)
    BY <1>2, <2>5 DEF Unpack
  <2> QED
    BY <1>3, <2>1, <2>2, <2>3, <2>4, <2>5
<1>4. ASSUME NEW p \in Process, NEW l \in Local, Reset(p, l) \/ Residual(p, l)
      PROVE  grid' = grid /\ SameComputes
  <2>1. CASE Reset(p, l)
    BY <1>2, <2>1 DEF Reset
  <2>2. CASE Residual(p, l)
    BY <1>2, <2>2 DEF Residual
  <2> QED
    BY <1>4, <2>1, <2>2
<1>5. ASSUME NEW p \in Process, RunsMain(p) PROVE grid' = grid /\ SameComputes
  BY <1>1, <1>5 DEF RunsMain, AwaitReset, AwaitSolution, AwaitResidual, PushResidual, taskrVars
<1>6. CASE Initialize \/ AbortLaunch \/ Report
  BY <1>1, <1>6 DEF Initialize, AbortLaunch, Abort, Report, taskrVars
<1>7. CASE PopResidual \/ ReadResidual \/ UNCHANGED vars
  BY <1>1, <1>7 DEF PopResidual, ReadResidual, vars, taskrVars
<1>8. ASSUME NEW p \in Process, NEW l \in Local, NEW it \in Iteration, Compute(p, l, it) PROVE grid' = grid
  BY <1>8 DEF Compute
<1>9. ASSUME NEW p \in Process, RunsTask(p)
      PROVE  /\ grid' = grid
             /\ SameComputes \/ \E l \in Local : \E it \in Iteration : Compute(p, l, it)
  BY <1>3, <1>4, <1>8, <1>9 DEF RunsTask
<1> QED
  BY <1>5, <1>6, <1>7, <1>9 DEF Next

\* The blocks and their neighbours are those of the launch.
LEMMA BlocksOfLaunch ==
  ASSUME GridOK
  PROVE  /\ Block \subseteq AnyBlock
         /\ \A b \in Block : Adjacent(b) \subseteq Block
         /\ \A b, c \in Block : c \in Adjacent(b) => b \in Adjacent(c)
<1>1. PICK g \in Geometries : grid = Initialized(g)
  BY DEF GridOK
<1>2. Block \subseteq AnyBlock
  <2>1. Block = D(g)!Process \X D(g)!Local
    BY <1>1, Fields DEF Block
  <2> QED
    BY <2>1 DEF AnyBlock
<1>3. ASSUME NEW b \in Block, NEW c \in Adjacent(b) PROVE c \in Block /\ b \in Adjacent(c)
  <2> PICK p \in Process, l \in Local : b = <<p, l>>
    BY DEF Block
  <2> PICK f \in Faces : Type(p, l, f) # "BOUNDARY" /\ c = Neighbor(p, l, f)
    BY <1>3 DEF Adjacent
  <2> PICK q, m, h : Neighbor(p, l, f) = <<q, m>> /\ h = Opposite(f)
    BY <1>1, Fields
  <2>1. /\ q \in Process /\ m \in Local /\ h \in Faces /\ Type(q, m, h) # "BOUNDARY"
        /\ Neighbor(q, m, h) = <<p, l>>
    BY <1>1, AdjacentFaces
  <2>2. c = <<q, m>> /\ c[1] = q /\ c[2] = m
    OBVIOUS
  <2> QED
    BY <2>1, <2>2 DEF Adjacent, Block
<1> QED
  BY <1>2, <1>3

\* The first state is one of Stencil.
LEMMA InitImplementsStencil ==
  ASSUME IInv, Counted, Iterates, finished = [p \in Process |-> {}]
  PROVE  Blocks!Init
<1>1. GridOK
  BY DEF IInv
<1> PICK adjacent : adjacent = [b \in AnyBlock |-> IF b \in Block THEN Adjacent(b) ELSE {}]
  OBVIOUS
<1>2. adjacent \in [AnyBlock -> SUBSET AnyBlock]
  BY <1>1, BlocksOfLaunch
<1>3. \A b, c \in AnyBlock : c \in adjacent[b] => b \in adjacent[c]
  <2> SUFFICES ASSUME NEW b \in AnyBlock, NEW c \in AnyBlock, c \in adjacent[b] PROVE b \in adjacent[c]
    OBVIOUS
  <2>1. b \in Block /\ c \in Adjacent(b)
    OBVIOUS
  <2>2. c \in Block /\ b \in Adjacent(c)
    BY <1>1, <2>1, BlocksOfLaunch
  <2> QED
    BY <2>2
<1>4. ASSUME NEW p \in Process, NEW l \in Local PROVE IterationOfBlock(p, l) = 0
  <2>1. PICK n \in Nat : Counting(p, l, n)
    BY DEF Counted
  <2>2. \A i \in Nat : ~Done(p, "Compute", l, i)
    BY DEF Done
  <2>3. n = 0
    <3>1. ~(0 < n)
      BY <2>1, <2>2 DEF Counting
    <3> QED
      BY <3>1
  <2> QED
    BY <2>1, <2>3 DEF Iterates
<1>5. \A b \in Block : IterationOfBlock(b[1], b[2]) = 0
  BY <1>4 DEF Block
<1>6. [b \in AnyBlock |-> IF b \in Block THEN IterationOfBlock(b[1], b[2]) ELSE 0] = [b \in AnyBlock |-> 0]
  BY <1>5
<1> QED
  BY <1>2, <1>3, <1>6 DEF Blocks!Init

\* A block that computes nothing stays in its iteration.
LEMMA SameIteration ==
  ASSUME Counted, Iterates, Counted', Iterates', grid' = grid, NEW p \in Process, NEW l \in Local,
         \A i \in Nat : Done(p, "Compute", l, i)' <=> Done(p, "Compute", l, i)
  PROVE  IterationOfBlock(p, l)' = IterationOfBlock(p, l)
<1>1. Process' = Process /\ Local' = Local
  BY SameGrid
<1>2. PICK n \in Nat : Counting(p, l, n)
  BY DEF Counted
<1>3. PICK m \in Nat : Counting(p, l, m)'
  BY <1>1 DEF Counted
<1>4. \A i \in Nat : i < n <=> i < m
  BY <1>2, <1>3 DEF Counting
<1>5. ~(n < m) /\ ~(m < n)
  BY <1>4
<1>6. n = m
  BY <1>5
<1>7. IterationOfBlock(p, l) = n /\ IterationOfBlock(p, l)' = m
  BY <1>1, <1>2, <1>3 DEF Iterates
<1> QED
  BY <1>6, <1>7

\* The blocks of Stencil stay the same.
LEMMA SameBlocks ==
  ASSUME grid' = grid
  PROVE  /\ Block' = Block /\ AnyBlock' = AnyBlock
         /\ [b \in AnyBlock |-> IF b \in Block THEN Adjacent(b) ELSE {}]'
              = [b \in AnyBlock |-> IF b \in Block THEN Adjacent(b) ELSE {}]
<1>1. Block' = Block
  BY SameGrid DEF Block
<1>2. AnyBlock' = AnyBlock
  BY DEF AnyBlock
<1>3. \A b : Adjacent(b)' = Adjacent(b)
  BY DEF Adjacent, Type, Neighbor
<1> QED
  BY <1>1, <1>2, <1>3

\* Compute is the step of its block in Stencil: no neighbour is behind it or two ahead.
LEMMA ComputeAdvances ==
  ASSUME IInv, Right, Counted, Iterates, Counted', Iterates',
         NEW p \in Process, NEW l \in Local, NEW it \in Iteration, Compute(p, l, it)
  PROVE  Blocks!Next
<1> PICK t, b : t = <<"Compute", l, it>> /\ b = <<p, l>>
  OBVIOUS
<1>1. "Compute" \in Kind /\ t \in GraphTask /\ t[1] = "Compute"
  BY DEF Kind, GraphTask
<1>2. TakeStep(p, t, 1) /\ IsLive(p, t) /\ grid' = grid
  BY DEF Compute, TakeStep
<1>3. it \in Nat /\ \A i \in Nat : Done(p, "Compute", l, i) <=> i < it
  BY <1>1, <1>2, LiveFacts DEF Right
<1>4. GridOK
  BY DEF IInv
<1>5. Process' = Process /\ Local' = Local
  BY <1>2, SameGrid
<1>6. Others(p, t) /\ t \in finished'[p]
  <2>1. t \notin DOMAIN progress[p]
    BY <1>1 DEF IInv, InOrder
  <2>2. StepsOf(p, t) + 1 >= 1
    BY <2>1 DEF StepsOf
  <2> QED
    BY <1>2, <2>2, Effect
<1>7. IterationOfBlock(p, l) = it
  <2>1. PICK n \in Nat : Counting(p, l, n)
    BY DEF Counted
  <2>2. \A i \in Nat : i < n <=> i < it
    BY <1>3, <2>1 DEF Counting
  <2>3. ~(n < it) /\ ~(it < n)
    BY <1>3, <2>2
  <2>4. n = it
    BY <1>3, <2>3
  <2> QED
    BY <2>1, <2>4 DEF Iterates
<1>8. IterationOfBlock(p, l)' = it + 1
  <2>1. PICK n \in Nat : Counting(p, l, n)'
    BY <1>5 DEF Counted
  <2>2. ASSUME NEW i \in Nat PROVE Done(p, "Compute", l, i)' <=> i < it + 1
    <3>1. CASE i = it
      BY <1>3, <1>6, <3>1 DEF Done
    <3>2. CASE i # it
      <4>1. Done(p, "Compute", l, i)' <=> Done(p, "Compute", l, i)
        BY <1>6, <3>2 DEF Others, Done
      <4> QED
        BY <1>3, <3>2, <4>1
    <3> QED
      BY <3>1, <3>2
  <2>3. \A i \in Nat : i < n <=> i < it + 1
    BY <2>1, <2>2 DEF Counting
  <2>4. ~(n < it + 1) /\ ~(it + 1 < n)
    BY <1>3, <2>3
  <2>5. n = it + 1
    BY <1>3, <2>4
  <2> QED
    BY <1>5, <2>1, <2>5 DEF Iterates
<1>9. ASSUME NEW q \in Process, NEW m \in Local, <<q, m>> # b
      PROVE  IterationOfBlock(q, m)' = IterationOfBlock(q, m)
  <2>1. \A i \in Nat : Done(q, "Compute", m, i)' <=> Done(q, "Compute", m, i)
    BY <1>6, <1>9 DEF Others, Done
  <2> QED
    BY <1>2, <2>1, SameIteration
<1>10. ASSUME NEW c \in Adjacent(b) PROVE c \in Block /\ IterationOfBlock(c[1], c[2]) >= it
  <2> PICK f \in Faces : Type(p, l, f) # "BOUNDARY" /\ c = Neighbor(p, l, f)
    BY <1>10 DEF Adjacent
  <2>1. b \in Block
    BY DEF Block
  <2>2. c \in Block
    BY <1>4, <2>1, BlocksOfLaunch
  <2> PICK q \in Process, m \in Local : c = <<q, m>>
    BY <2>2 DEF Block
  <2>3. PICK n \in Nat : Counting(q, m, n)
    BY DEF Counted
  <2>4. IterationOfBlock(q, m) = n
    BY <2>3 DEF Iterates
  <2>5. n >= it
    <3>1. CASE it = 0
      BY <3>1
    <3>2. CASE it > 0
      <4>1. Done(q, "Compute", m, it - 1)
        <5>1. IsLive(p, <<"Compute", l, it>>)
          BY <1>2
        <5>2. Done(Neighbor(p, l, f)[1], "Compute", Neighbor(p, l, f)[2], it - 1)
          BY <3>2, <5>1, NeighborsAreThere
        <5> QED
          BY <5>2
      <4>2. it - 1 \in Nat
        BY <1>3, <3>2
      <4>3. it - 1 < n
        BY <2>3, <4>1, <4>2 DEF Counting
      <4> QED
        BY <1>3, <4>3
    <3> QED
      BY <1>3, <3>1, <3>2
  <2> QED
    BY <2>2, <2>4, <2>5
<1> PICK adjacent, before, after :
      /\ adjacent = [c \in AnyBlock |-> IF c \in Block THEN Adjacent(c) ELSE {}]
      /\ before = [c \in AnyBlock |-> IF c \in Block THEN IterationOfBlock(c[1], c[2]) ELSE 0]
      /\ after = [c \in AnyBlock |-> IF c \in Block THEN IterationOfBlock(c[1], c[2]) ELSE 0]'
  OBVIOUS
<1>11. b \in Block /\ b \in AnyBlock /\ Block \subseteq AnyBlock /\ b[1] = p /\ b[2] = l
  BY <1>4, BlocksOfLaunch DEF Block
<1>12. before[b] = it /\ \A c \in adjacent[b] : before[c] >= before[b]
  <2>1. before[b] = it /\ adjacent[b] = Adjacent(b)
    BY <1>7, <1>11
  <2>2. ASSUME NEW c \in Adjacent(b) PROVE before[c] >= it
    BY <1>10, <1>11
  <2> QED
    BY <2>1, <2>2
<1>13. after = [before EXCEPT ![b] = it + 1]
  <2>1. after = [c \in AnyBlock |-> IF c \in Block THEN IterationOfBlock(c[1], c[2])' ELSE 0]
    BY <1>2, SameBlocks
  <2>2. ASSUME NEW c \in AnyBlock
        PROVE  after[c] = IF c = b THEN it + 1 ELSE before[c]
    <3>1. CASE c \in Block
      <4> PICK q \in Process, m \in Local : c = <<q, m>>
        BY <3>1 DEF Block
      <4>1. after[c] = IterationOfBlock(q, m)' /\ before[c] = IterationOfBlock(q, m)
        BY <2>1, <3>1
      <4> QED
        BY <1>8, <1>9, <4>1
    <3>2. CASE c \notin Block
      BY <1>11, <2>1, <3>2
    <3> QED
      BY <3>1, <3>2
  <2>3. before = [c \in AnyBlock |-> before[c]] /\ after = [c \in AnyBlock |-> after[c]]
    BY <2>1
  <2> QED
    BY <1>11, <2>2, <2>3
<1>14. [c \in AnyBlock |-> IF c \in Block THEN Adjacent(c) ELSE {}]' = adjacent
  BY <1>2, SameBlocks
<1> QED
  BY <1>11, <1>12, <1>13, <1>14 DEF Blocks!Next, Blocks!Advance

\* All other steps stutter.
LEMMA NextImplementsStencil ==
  ASSUME IInv, Right, Counted, Iterates, Counted', Iterates', [Next]_vars
  PROVE  [Blocks!Next]_(Blocks!vars)
<1>1. grid' = grid
  BY OnlyComputes
<1>2. CASE \E p \in Process : \E l \in Local : \E it \in Iteration : Compute(p, l, it)
  BY <1>2, ComputeAdvances
<1>3. CASE SameComputes
  <2>1. \A p \in Process : \A l \in Local : IterationOfBlock(p, l)' = IterationOfBlock(p, l)
    BY <1>1, <1>3, SameIteration DEF SameComputes
  <2>2. \A b \in Block : IterationOfBlock(b[1], b[2])' = IterationOfBlock(b[1], b[2])
    BY <2>1 DEF Block
  <2>3. [b \in AnyBlock |-> IF b \in Block THEN IterationOfBlock(b[1], b[2]) ELSE 0]'
          = [b \in AnyBlock |-> IF b \in Block THEN IterationOfBlock(b[1], b[2]) ELSE 0]
    BY <1>1, <2>2, SameBlocks
  <2>4. UNCHANGED Blocks!vars
    BY <1>1, <2>3, SameBlocks DEF Blocks!vars
  <2> QED
    BY <2>4
<1> QED
  BY <1>2, <1>3, OnlyComputes

(* The solver implements Stencil: a block of any process computes an iteration  *)
(* only when all its neighbours, those of other processes included, have        *)
(* computed the one before. Between processes this is the chain Compute, Pack,  *)
(* Send, Receive, Unpack of jacobi3d.hpp:103-135 through the channels of Grid.  *)
THEOREM JacobiImplementsStencil == Spec => ImplementsStencil
<1> DEFINE I == IInv /\ Right /\ Counted
<1>1. IInv /\ Right => Iterates
  BY IterationCounts DEF Iterates
<1>2. Init => I
  BY InitIInv, InitRight, InitCounted
<1>3. I /\ [Next]_vars => I'
  BY NextKeeps, NextKeepsRight, NextKeepsCounted
<1>4. Init => Blocks!Init
  <2>1. Init => finished = [p \in Process |-> {}]
    BY DEF Init, InitTaskR
  <2> QED
    BY <1>1, <1>2, <2>1, InitImplementsStencil
<1>5. I /\ Iterates /\ I' /\ Iterates' /\ [Next]_vars => [Blocks!Next]_(Blocks!vars)
  BY NextImplementsStencil
<1>6. I => Iterates
  BY <1>1
<1> HIDE DEF I
<1> QED
  BY <1>2, <1>3, <1>4, <1>5, <1>6, PTL DEF Spec, ImplementsStencil, Blocks!Spec

-----------------------------------------------------------------------------
\* The residual.

\* The cells of the domain that a block has, those of a process, and their sum.
Cells(p, l) == {Global(p, c) : c \in grid.inside[l]}
Share(p) == UNION {Cells(p, l) : l \in Local}
TotalOf(S) == [values |-> {Value(c, nIters) : c \in S}, terms |-> Cardinality(S)]

\* Those that the residual tasks of a process have added up.
Summed(p) == UNION {Cells(p, l) : l \in {m \in Local : Done(p, "Residual", m, nIters)}}

\* Residual tasks run when the solution is there, and all of them.
Solved == {"residual", "exchange", "done"}
SolvedOK ==
  \A p \in Process :
    /\ phase[p] \in Solved => \A t \in GraphTask : Added(t) => t \in finished[p]
    /\ phase[p] \in {"exchange", "done"} => ResidualTask \subseteq finished[p]
    /\ phase[p] \notin Solved => \A t \in finished[p] : t[1] # "Residual"

\* Every process but the root has the sum of its cells until it has sent it.
SumsRight ==
  /\ residual = [p \in Process |-> residual[p]]
  /\ \A p \in Process :
       phase[p] = "residual" \/ (phase[p] = "exchange" /\ p # Root) =>
         residual[p] = TotalOf(Summed(p))

\* The processes that have sent their sums, in the order s of their slots.
Pushed == {p \in Process \ {Root} : phase[p] = "done"}
Order(n, s) ==
  /\ n \in Nat /\ s \in [0..(n - 1) -> Pushed] /\ n = Cardinality(Pushed)
  /\ \A i, j \in 0..(n - 1) : s[i] = s[j] => i = j
  /\ \A p \in Pushed : \E i \in 0..(n - 1) : s[i] = p

\* What is in the slots, and what the root has of it.
Gathered(n, s) ==
  /\ gather = [slots |-> gather.slots, head |-> gather.head, count |-> gather.count,
               pointer |-> gather.pointer, received |-> gather.received]
  /\ gather.slots = [i \in 0..(Slots - 1) |-> gather.slots[i]]
  /\ \A i \in 0..(n - 1) : gather.slots[i] = TotalOf(Share(s[i]))
  /\ gather.received \in Nat /\ gather.head \in 0..n /\ gather.count = n - gather.head
  /\ \/ gather.pointer = Lost /\ gather.head = gather.received
     \/ gather.pointer = gather.received /\ gather.head = gather.received + 1
  /\ phase[Root] \notin {"exchange", "done"} => gather.head = 0
  /\ phase[Root] \in {"exchange", "done"} =>
       residual[Root] = TotalOf(Share(Root) \cup UNION {Share(s[i]) : i \in 0..(gather.received - 1)})
  /\ phase[Root] = "done" => gather.received = Cardinality(Process) - 1

\* Which holds for one such order.
GatherRight == \E n \in Nat : \E s \in [0..(n - 1) -> Process] : Order(n, s) /\ Gathered(n, s)

\* The sums are where they should be: in the processes, in the slots or at the root.
Accounted == SolvedOK /\ SumsRight /\ GatherRight

\* Sums of cells that have none in common add up.
LEMMA SumOfParts ==
  ASSUME NEW S, NEW T, IsFiniteSet(S), IsFiniteSet(T), S \cap T = {}
  PROVE  Sum(TotalOf(S), TotalOf(T)) = TotalOf(S \cup T)
<1>1. Cardinality(S \cup T) = Cardinality(S) + Cardinality(T) - Cardinality(S \cap T)
  BY FS_Union
<1>2. Cardinality(S \cap T) = 0 /\ Cardinality(S) \in Nat /\ Cardinality(T) \in Nat
  BY FS_EmptySet, FS_CardinalityType
<1>3. {Value(c, nIters) : c \in S \cup T} = {Value(c, nIters) : c \in S} \cup {Value(c, nIters) : c \in T}
  OBVIOUS
<1>4. Cardinality(S \cup T) = Cardinality(S) + Cardinality(T)
  BY <1>1, <1>2
<1>5. Sum(TotalOf(S), TotalOf(T)) =
        [values |-> {Value(c, nIters) : c \in S} \cup {Value(c, nIters) : c \in T},
         terms  |-> Cardinality(S) + Cardinality(T)]
  BY DEF Sum, TotalOf
<1> QED
  BY <1>3, <1>4, <1>5 DEF TotalOf

\* At first no cell has been added.
LEMMA NoCells == NoResidual = TotalOf({})
BY FS_EmptySet DEF NoResidual, TotalOf

\* The domain is finite: its cells can be numbered like the processes.
LEMMA DomainIsFinite ==
  ASSUME NEW g, InUse(g)
  PROVE  IsFiniteSet(Domain)
<1>1. grid.N = g.N /\ g.N \in Nat \ {0}
  BY MoreFields, GeometryAssumption DEF InUse, Decomposed
<1> DEFINE s == [a \in 1..3 |-> g.N]
           f == [c \in Domain |-> D(g)!Rank(s, c)]
           T == 0..(g.N * g.N * g.N - 1)
<1>2. Shape(s) /\ Domain = Positions(s)
  BY <1>1 DEF Shape, Positions, Domain
<1>3. ASSUME NEW c \in Domain PROVE D(g)!Rank(s, c) \in T
  <2>1. D(g)!Rank(s, c) \in 0..(s[1] * s[2] * s[3] - 1)
    BY <1>2, RankRange
  <2> QED
    BY <2>1
<1>4. ASSUME NEW c \in Domain, NEW d \in Domain, D(g)!Rank(s, c) = D(g)!Rank(s, d) PROVE c = d
  BY <1>2, <1>4, RankInjective
<1>5. IsFiniteSet(T)
  <2>1. g.N * g.N * g.N - 1 \in Int
    BY <1>1
  <2> QED
    BY <2>1, FS_Interval
<1> HIDE DEF T, s
<1>6. f \in Injection(Domain, T)
  BY <1>3, <1>4 DEF Injection, IsInjective
<1> QED
  BY <1>5, <1>6, FS_Injection

\* No two cells of blocks are at the same place of the domain.
LEMMA SamePlaces ==
  ASSUME NEW g, InUse(g), NEW p \in Process, NEW q \in Process, NEW l \in Local, NEW m \in Local,
         NEW c \in grid.inside[l], NEW d \in grid.inside[m], Global(p, c) = Global(q, d)
  PROVE  p = q /\ c = d /\ l = m
<1>1. /\ Decomposed(g) /\ p \in D(g)!Process /\ q \in D(g)!Process /\ l \in D(g)!Local
      /\ m \in D(g)!Local /\ c \in D(g)!Inside(l) /\ d \in D(g)!Inside(m)
  BY Fields DEF InUse
<1>2. c \in Int \X Int \X Int /\ d \in Int \X Int \X Int
  BY <1>1, InsideCell
<1>3. /\ Global(p, c) = <<Coordinate(g, p, c, 1), Coordinate(g, p, c, 2), Coordinate(g, p, c, 3)>>
      /\ Global(q, d) = <<Coordinate(g, q, d, 1), Coordinate(g, q, d, 2), Coordinate(g, q, d, 3)>>
  BY <1>2, GlobalPlace
<1>4. \A a \in 1..3 : Coordinate(g, p, c, a) = Coordinate(g, q, d, a)
  <2> DEFINE x(a) == Coordinate(g, p, c, a)
             y(a) == Coordinate(g, q, d, a)
  <2>1. <<x(1), x(2), x(3)>> = <<y(1), y(2), y(3)>>
    BY <1>3
  <2> HIDE DEF x, y
  <2>2. x(1) = y(1) /\ x(2) = y(2) /\ x(3) = y(3)
    BY <2>1
  <2>3. \A a \in 1..3 : x(a) = y(a)
    BY <2>2
  <2> QED
    BY <2>3 DEF x, y
<1> QED
  BY <1>1, <1>4, DifferentPlaces

\* The processes share the domain among them.
LEMMA DomainShared ==
  ASSUME NEW g, InUse(g)
  PROVE  UNION {Share(p) : p \in Process} = Domain
<1>1. ASSUME NEW p \in Process PROVE Share(p) \subseteq Domain
  BY InsideKnown DEF Share, Cells
<1>2. ASSUME NEW e \in Domain PROVE \E p \in Process : e \in Share(p)
  <2>1. grid.N = g.N /\ Decomposed(g)
    BY MoreFields DEF InUse
  <2>2. e \in (0..(g.N - 1)) \X (0..(g.N - 1)) \X (0..(g.N - 1))
    BY <2>1 DEF Domain
  <2>3. PICK p \in D(g)!Process, l \in D(g)!Local : \E c \in D(g)!Inside(l) :
           c \in Int \X Int \X Int /\ \A a \in 1..3 : Coordinate(g, p, c, a) = e[a]
    BY <2>1, <2>2, EveryPlace
  <2>4. PICK c \in D(g)!Inside(l) :
           c \in Int \X Int \X Int /\ \A a \in 1..3 : Coordinate(g, p, c, a) = e[a]
    BY <2>3
  <2>5. p \in Process /\ l \in Local /\ c \in grid.inside[l]
    BY <2>3, <2>4, Fields DEF InUse
  <2>6. Global(p, c) = <<e[1], e[2], e[3]>>
    BY <2>4, <2>5, GlobalPlace
  <2>7. e = <<e[1], e[2], e[3]>>
    BY <2>2
  <2> QED
    BY <2>5, <2>6, <2>7 DEF Share, Cells
<1> QED
  BY <1>1, <1>2

\* A block has as many cells of the domain as it has of the process.
LEMMA CellsCounted ==
  ASSUME NEW g, InUse(g), NEW p \in Process, NEW l \in Local
  PROVE  /\ Cells(p, l) \subseteq Domain /\ IsFiniteSet(Cells(p, l))
         /\ Cardinality(Cells(p, l)) = Cardinality(grid.inside[l])
<1>1. \A c \in grid.inside[l] : Global(p, c) \in Domain
  BY InsideKnown
<1>2. Cells(p, l) \subseteq Domain
  BY <1>1 DEF Cells
<1>3. IsFiniteSet(Cells(p, l))
  BY <1>2, DomainIsFinite, FS_Subset
<1>4. ASSUME NEW c \in grid.inside[l], NEW d \in grid.inside[l], Global(p, c) = Global(p, d)
      PROVE  c = d
  BY <1>4, SamePlaces
<1> DEFINE f == [c \in grid.inside[l] |-> Global(p, c)]
<1>5. f \in Bijection(grid.inside[l], Cells(p, l))
  <2>1. f \in Injection(grid.inside[l], Cells(p, l))
    BY <1>4 DEF Injection, IsInjective, Cells
  <2>2. f \in Surjection(grid.inside[l], Cells(p, l))
    BY DEF Surjection, Cells
  <2> QED
    BY <2>1, <2>2 DEF Bijection
<1>6. f \in Injection(grid.inside[l], Cells(p, l)) /\ f \in Surjection(grid.inside[l], Cells(p, l))
  BY <1>5 DEF Bijection
<1> HIDE DEF f
<1> QED
  BY <1>2, <1>3, <1>6, FS_Injection

\* No two blocks have a cell of the domain in common.
LEMMA PartsApart ==
  ASSUME NEW g, InUse(g), NEW p \in Process, NEW q \in Process, NEW l \in Local, NEW m \in Local,
         p # q \/ l # m
  PROVE  Cells(p, l) \cap Cells(q, m) = {}
BY SamePlaces DEF Cells

\* No two processes have a cell of the domain in common.
LEMMA SharesApart ==
  ASSUME NEW g, InUse(g), NEW p \in Process
  PROVE  /\ Share(p) \subseteq Domain /\ IsFiniteSet(Share(p))
         /\ \A q \in Process : p # q => Share(p) \cap Share(q) = {}
<1>1. Share(p) \subseteq Domain
  BY CellsCounted DEF Share
<1>2. IsFiniteSet(Share(p))
  BY <1>1, DomainIsFinite, FS_Subset
<1>3. ASSUME NEW q \in Process, p # q PROVE Share(p) \cap Share(q) = {}
  BY <1>3, PartsApart DEF Share
<1> QED
  BY <1>1, <1>2, <1>3

\* What a residual task adds: its cells, with their values after the last iteration.
LEMMA ResidualOfBlock ==
  ASSUME IInv, Right, SolvedOK, NEW p \in Process, phase[p] = "residual", NEW l \in Local
  PROVE  LocalResidual(p, l) = TotalOf(Cells(p, l))
<1>1. PICK g : InUse(g)
  BY SolvingGrid DEF Halted
<1>2. nIters \in Nat
  BY IterationsAreNat
<1>3. <<"Reset", l, 0>> \in Started(p)
  BY DEF Right, PhasesOK, Halted, Done, Started
<1>4. nIters = 0 \/ Done(p, "Compute", l, nIters - 1)
  <2>1. ASSUME nIters # 0 PROVE <<"Compute", l, nIters - 1>> \in GraphTask
    BY <1>2, <2>1 DEF GraphTask, Kind, Iteration
  <2>2. Added(<<"Compute", l, nIters - 1>>)
    BY DEF Added
  <2> QED
    BY <2>1, <2>2 DEF SolvedOK, Solved, Done
<1>5. ~Done(p, "Compute", l, nIters + 1)
  <2>1. SUFFICES ASSUME <<"Compute", l, nIters + 1>> \in Started(p) PROVE FALSE
    BY DEF Done, Started
  <2>2. <<"Compute", l, nIters + 1>> \in GraphTask
    BY <2>1 DEF Right, PhasesOK, ResidualTask
  <2>3. nIters + 1 \in Iteration
    BY <2>2 DEF GraphTask
  <2> QED
    BY <1>2, <2>3 DEF Iteration
<1>6. Holds(p, l, "Compute", nIters)
  <2>1. nIters \in 0..nIters
    BY <1>2
  <2> QED
    BY <1>3, <1>4, <1>5, <2>1 DEF Right, ArraysRight
<1>7. \A c \in grid.inside[l] : array[p][nIters % 2][c] = Value(Global(p, c), nIters)
  BY <1>6 DEF Holds, CellsOf, ThisArray
<1>8. {array[p][nIters % 2][c] : c \in grid.inside[l]} = {Value(c, nIters) : c \in Cells(p, l)}
  <2>1. {array[p][nIters % 2][c] : c \in grid.inside[l]} = {Value(Global(p, c), nIters) : c \in grid.inside[l]}
    BY <1>7
  <2>2. {Value(Global(p, c), nIters) : c \in grid.inside[l]} = {Value(c, nIters) : c \in Cells(p, l)}
    BY DEF Cells
  <2> QED
    BY <2>1, <2>2
<1> QED
  BY <1>1, <1>8, CellsCounted DEF LocalResidual, TotalOf

\* What depends on the grid alone.
LEMMA SameShares ==
  ASSUME grid' = grid
  PROVE  /\ \A p, l : Cells(p, l)' = Cells(p, l)
         /\ \A p : Share(p)' = Share(p)
         /\ \A S : TotalOf(S)' = TotalOf(S)
<1>1. ASSUME NEW p, NEW l PROVE Cells(p, l)' = Cells(p, l)
  BY DEF Cells, Global
<1>2. ASSUME NEW p PROVE Share(p)' = Share(p)
  BY DEF Share, Cells, Global, Local
<1>3. ASSUME NEW S PROVE TotalOf(S)' = TotalOf(S)
  BY DEF TotalOf, Value, nIters
<1> QED
  BY <1>1, <1>2, <1>3

\* Every launch has a root.
LEMMA RootIsProcess ==
  ASSUME NEW g \in Geometries, grid = Initialized(g)
  PROVE  Root \in Process /\ IsFiniteSet(Process)
<1>1. Process = 0..(g.pt[1] * g.pt[2] * g.pt[3] - 1)
  BY Fields, Shapes
<1>2. g.pt[1] * g.pt[2] * g.pt[3] \in Nat \ {0}
  <2>1. g.pt[1] \in Nat \ {0} /\ g.pt[2] \in Nat \ {0} /\ g.pt[3] \in Nat \ {0}
    BY GeometryAssumption
  <2>2. ASSUME NEW x \in Nat \ {0}, NEW y \in Nat \ {0} PROVE x * y \in Nat \ {0}
    BY <2>2
  <2>3. g.pt[1] * g.pt[2] \in Nat \ {0}
    BY <2>1, <2>2
  <2> QED
    BY <2>1, <2>2, <2>3
<1> QED
  BY <1>1, <1>2, FS_Interval DEF Root

\* Nothing is accounted at first.
LEMMA InitAccounted ==
  ASSUME Init
  PROVE  Accounted
<1>1. /\ finished = [p \in Process |-> {}] /\ phase = [p \in Process |-> "launch"]
      /\ residual = [p \in Process |-> NoResidual]
      /\ gather = [slots |-> [i \in 0..(Cardinality(Process) - 1) |-> NoResidual], head |-> 0,
                   count |-> 0, pointer |-> Lost, received |-> 0]
  BY DEF Init, InitGrid, InitTaskR
<1>2. SolvedOK
  BY <1>1 DEF SolvedOK, Solved
<1>3. SumsRight
  BY <1>1 DEF SumsRight
<1>4. GatherRight
  <2>1. Pushed = {} /\ Cardinality(Pushed) = 0
    <3>1. Pushed = {}
      BY <1>1 DEF Pushed
    <3> QED
      BY <3>1, FS_EmptySet
  <2> DEFINE s == [i \in 0..(0 - 1) |-> Root]
  <2>2. 0..(0 - 1) = {}
    OBVIOUS
  <2>3. s \in [0..(0 - 1) -> Process] /\ s \in [0..(0 - 1) -> Pushed]
    BY <2>2
  <2>4. Order(0, s)
    BY <2>1, <2>2, <2>3 DEF Order
  <2>5. phase[Root] \notin {"exchange", "done"}
    <3>1. 0 \in Process
      <4>1. PICK g \in Geometries : grid = Initialized(g)
        BY DEF Init, InitGrid
      <4> QED
        BY <4>1, RootIsProcess DEF Root
    <3> QED
      BY <1>1, <3>1 DEF Root
  <2>6. Gathered(0, s)
    BY <1>1, <2>2, <2>5 DEF Gathered, Slots, Lost
  <2> QED
    BY <2>3, <2>4, <2>6 DEF GatherRight
<1> QED
  BY <1>2, <1>3, <1>4 DEF Accounted

\* Steps that neither send a sum nor read one leave what is gathered as it is,
LEMMA GatherKept ==
  ASSUME GatherRight, grid' = grid, gather' = gather, Pushed' = Pushed,
         phase'[Root] \in {"exchange", "done"} <=> phase[Root] \in {"exchange", "done"},
         phase'[Root] = "done" => phase[Root] = "done",
         phase[Root] \in {"exchange", "done"} => residual'[Root] = residual[Root]
  PROVE  GatherRight'
<1>1. PICK n \in Nat : \E s \in [0..(n - 1) -> Process] : Order(n, s) /\ Gathered(n, s)
  BY DEF GatherRight
<1>2. PICK s \in [0..(n - 1) -> Process] : Order(n, s) /\ Gathered(n, s)
  BY <1>1
<1>3. Process' = Process /\ Slots' = Slots
  BY DEF Process, Slots
<1>4. Order(n, s)'
  BY <1>2 DEF Order
<1>5. Share(Root)' = Share(Root) /\ \A i : Share(s[i])' = Share(s[i])
  BY SameShares
<1>6. \A i \in 0..(n - 1) : gather'.slots[i] = TotalOf(Share(s[i]))'
  <2>1. ASSUME NEW i \in 0..(n - 1) PROVE TotalOf(Share(s[i]))' = TotalOf(Share(s[i]))
    BY <1>5 DEF TotalOf, Value, nIters
  <2> QED
    BY <1>2, <2>1 DEF Gathered
<1>7. ASSUME phase'[Root] \in {"exchange", "done"}
      PROVE  residual'[Root] =
               TotalOf(Share(Root) \cup UNION {Share(s[i]) : i \in 0..(gather.received - 1)})'
  <2>1. TotalOf(Share(Root) \cup UNION {Share(s[i]) : i \in 0..(gather.received - 1)})'
          = TotalOf(Share(Root) \cup UNION {Share(s[i]) : i \in 0..(gather.received - 1)})
    BY <1>5 DEF TotalOf, Value, nIters
  <2> QED
    BY <1>2, <1>7, <2>1 DEF Gathered
<1>8. Gathered(n, s)'
  BY <1>2, <1>3, <1>6, <1>7 DEF Gathered
<1> QED
  BY <1>3, <1>4, <1>8 DEF GatherRight

\* as do those of all tasks but Residual.
LEMMA AccountedKept ==
  ASSUME Accounted, grid' = grid, phase' = phase, residual' = residual, gather' = gather,
         \A q \in Process : finished[q] \subseteq finished'[q],
         \A q \in Process : \A u \in finished'[q] : u \in finished[q] \/ u[1] # "Residual"
  PROVE  Accounted'
<1>1. Process' = Process /\ Local' = Local /\ nIters' = nIters
  BY DEF Process, Local, nIters
<1>2. SolvedOK'
  <2>1. GraphTask' = GraphTask /\ ResidualTask' = ResidualTask /\ \A t : Added(t)' = Added(t)
    BY <1>1 DEF GraphTask, Iteration, ResidualTask, Added
  <2>2. SolvedOK
    BY DEF Accounted
  <2>3. ASSUME NEW p \in Process, phase[p] \in Solved, NEW t \in GraphTask, Added(t) PROVE t \in finished'[p]
    BY <2>2, <2>3 DEF SolvedOK
  <2>4. ASSUME NEW p \in Process, phase[p] \in {"exchange", "done"} PROVE ResidualTask \subseteq finished'[p]
    BY <2>2, <2>4 DEF SolvedOK
  <2>5. ASSUME NEW p \in Process, phase[p] \notin Solved, NEW t \in finished'[p] PROVE t[1] # "Residual"
    BY <2>2, <2>5 DEF SolvedOK
  <2> QED
    BY <1>1, <2>1, <2>3, <2>4, <2>5 DEF SolvedOK
<1>3. SumsRight'
  <2>1. ASSUME NEW p \in Process, NEW l \in Local
        PROVE  Done(p, "Residual", l, nIters)' <=> Done(p, "Residual", l, nIters)
    <3>1. <<"Residual", l, nIters>>[1] = "Residual"
      OBVIOUS
    <3> QED
      BY <1>1, <3>1 DEF Done
  <2>2. ASSUME NEW p \in Process PROVE Summed(p)' = Summed(p)
    <3>1. {m \in Local : Done(p, "Residual", m, nIters)}' = {m \in Local : Done(p, "Residual", m, nIters)}
      BY <1>1, <2>1
    <3> QED
      BY <3>1, SameShares DEF Summed
  <2>3. ASSUME NEW p \in Process PROVE TotalOf(Summed(p))' = TotalOf(Summed(p))
    BY <2>2 DEF TotalOf, Value, nIters
  <2> QED
    BY <1>1, <2>3 DEF Accounted, SumsRight
<1>4. GatherRight'
  <2>1. Pushed' = Pushed
    BY <1>1 DEF Pushed
  <2> QED
    BY <2>1, GatherKept DEF Accounted
<1> QED
  BY <1>2, <1>3, <1>4 DEF Accounted

\* A residual task adds the cells of its block, once.
LEMMA ResidualKeepsAccounted ==
  ASSUME IInv, Right, Accounted, NEW p \in Process, NEW l \in Local, Residual(p, l)
  PROVE  Accounted'
<1> DEFINE t == <<"Residual", l, nIters>>
<1>1. /\ TakeStep(p, t, 1) /\ residual' = [residual EXCEPT ![p] = Sum(@, LocalResidual(p, l))]
      /\ grid' = grid /\ phase' = phase /\ gather' = gather
  BY DEF Residual
<1>2. /\ Others(p, t) /\ t \notin finished[p] /\ t \in finished'[p]
      /\ t \in Started(p) \/ MayStart(p, t)
  <2>1. StepsOf(p, t) + 1 >= 1
    <3>1. t \in ResidualTask
      BY DEF ResidualTask
    <3>2. t \notin DOMAIN progress[p]
      BY <3>1 DEF IInv, InOrder
    <3> QED
      BY <3>2 DEF StepsOf
  <2> QED
    BY <1>1, <2>1, Effect
<1>3. phase[p] = "residual"
  <2>1. t \in ResidualTask
    BY DEF ResidualTask
  <2>2. t \notin DOMAIN progress[p]
    BY <2>1 DEF IInv, InOrder
  <2>3. MayStart(p, t)
    BY <1>2, <2>2 DEF Started
  <2> QED
    BY <2>3 DEF MayStart, PhaseOf
<1>4. finished'[p] = finished[p] \cup {t} /\ \A q \in Process : q # p => finished'[q] = finished[q]
  BY <1>1, <1>2 DEF Others
<1>5. PICK g : InUse(g)
  BY <1>3, SolvingGrid DEF Halted
<1>6. Process' = Process /\ Local' = Local /\ nIters' = nIters
  BY <1>1 DEF Process, Local, nIters
<1> HIDE DEF t
<1>7. SolvedOK'
  <2>1. GraphTask' = GraphTask /\ ResidualTask' = ResidualTask /\ \A u : Added(u)' = Added(u)
    BY <1>6 DEF GraphTask, Iteration, ResidualTask, Added
  <2>2. SolvedOK
    BY DEF Accounted
  <2>3. \A q \in Process : finished[q] \subseteq finished'[q]
    BY <1>4
  <2>4. ASSUME NEW q \in Process, phase[q] \notin Solved PROVE finished'[q] = finished[q]
    BY <1>3, <1>4, <2>4 DEF Solved
  <2> QED
    BY <1>1, <1>6, <2>1, <2>2, <2>3, <2>4 DEF SolvedOK
<1>8. SumsRight'
  <2>1. SumsRight /\ SolvedOK
    BY DEF Accounted
  <2>2. residual'[p] = Sum(residual[p], LocalResidual(p, l))
        /\ \A q \in Process : q # p => residual'[q] = residual[q]
    BY <1>1, <2>1 DEF SumsRight
  <2>3. residual' = [q \in Process |-> residual'[q]]
    BY <1>1, <2>1 DEF SumsRight
  <2>4. ASSUME NEW q \in Process, q # p PROVE TotalOf(Summed(q))' = TotalOf(Summed(q))
    <3>1. \A m : Done(q, "Residual", m, nIters)' <=> Done(q, "Residual", m, nIters)
      BY <1>4, <1>6, <2>4 DEF Done
    <3>2. Summed(q)' = Summed(q)
      BY <1>1, <1>6, <3>1, SameShares DEF Summed
    <3> QED
      BY <1>1, <3>2 DEF TotalOf, Value, nIters
  <2>5. Summed(p)' = Summed(p) \cup Cells(p, l) /\ Summed(p) \cap Cells(p, l) = {}
    <3>1. \A m : Done(p, "Residual", m, nIters)' <=> Done(p, "Residual", m, nIters) \/ m = l
      BY <1>4, <1>6 DEF Done, t
    <3>2. ~Done(p, "Residual", l, nIters)
      BY <1>2 DEF Done, t
    <3>3. \A m : Cells(p, m)' = Cells(p, m)
      BY <1>1, SameShares
    <3>4. \A m \in Local : m # l => Cells(p, m) \cap Cells(p, l) = {}
      BY <1>5, PartsApart
    <3>5. Summed(p)' = Summed(p) \cup Cells(p, l)
      BY <1>6, <3>1, <3>3 DEF Summed
    <3> QED
      BY <3>2, <3>4, <3>5 DEF Summed
  <2>6. IsFiniteSet(Summed(p)) /\ IsFiniteSet(Cells(p, l))
    <3>1. Summed(p) \subseteq Domain
      BY <1>5, CellsCounted DEF Summed
    <3> QED
      BY <1>5, <3>1, CellsCounted, DomainIsFinite, FS_Subset
  <2>7. residual'[p] = TotalOf(Summed(p) \cup Cells(p, l))
    <3>1. residual[p] = TotalOf(Summed(p))
      BY <1>3, <2>1 DEF SumsRight
    <3>2. LocalResidual(p, l) = TotalOf(Cells(p, l))
      BY <1>3, <2>1, ResidualOfBlock
    <3> QED
      BY <2>2, <2>5, <2>6, <3>1, <3>2, SumOfParts
  <2>8. TotalOf(Summed(p))' = TotalOf(Summed(p) \cup Cells(p, l))
    BY <1>1, <2>5 DEF TotalOf, Value, nIters
  <2> QED
    BY <1>1, <1>6, <2>1, <2>2, <2>3, <2>4, <2>7, <2>8 DEF SumsRight
<1>9. GatherRight'
  <2>1. Pushed' = Pushed
    BY <1>1, <1>6 DEF Pushed
  <2>2. phase[Root] \in {"exchange", "done"} => residual'[Root] = residual[Root]
    <3>1. Root \in Process
      BY <1>5, RootIsProcess DEF InUse, Decomposed
    <3> QED
      BY <1>1, <1>3, <3>1 DEF Accounted, SumsRight
  <2> QED
    BY <1>1, <2>1, <2>2, GatherKept DEF Accounted
<1> QED
  BY <1>7, <1>8, <1>9 DEF Accounted

\* There is a root, and the processes are what they were.
LEMMA RootKnown ==
  ASSUME IInv
  PROVE  Root \in Process /\ IsFiniteSet(Process)
BY RootIsProcess DEF IInv, GridOK

\* At the start and at an abort no process has solved anything.
LEMMA LaunchKeepsAccounted ==
  ASSUME IInv, Accounted, Initialize \/ AbortLaunch
  PROVE  Accounted'
<1>1. /\ grid' = grid /\ residual' = residual /\ finished' = finished /\ gather' = gather
      /\ \E x \in {"reset", "aborted"} : phase' = [p \in Process |-> x]
  BY DEF Initialize, AbortLaunch, Abort, Collectively, taskrVars
<1>2. \A p \in Process : phase[p] \in Halted
  BY DEF IInv, GridOK, Halted, Initialize, AbortLaunch, Abort, Collectively
<1>3. Process' = Process /\ Local' = Local /\ nIters' = nIters
  BY <1>1 DEF Process, Local, nIters
<1>4. \A p \in Process : /\ phase[p] \notin Solved /\ phase'[p] \notin Solved
                         /\ phase'[p] # "done" /\ phase[p] # "done"
  BY <1>1, <1>2 DEF Halted, Solved
<1>5. SolvedOK'
  BY <1>1, <1>3, <1>4 DEF Accounted, SolvedOK, Solved
<1>6. SumsRight'
  BY <1>1, <1>3, <1>4 DEF Accounted, SumsRight, Solved
<1>7. GatherRight'
  <2>1. Pushed = {} /\ Pushed' = {}
    BY <1>3, <1>4 DEF Pushed
  <2>2. phase[Root] \notin {"exchange", "done"} /\ phase'[Root] \notin {"exchange", "done"}
    BY <1>4, RootKnown DEF Solved
  <2> QED
    BY <1>1, <2>1, <2>2, GatherKept DEF Accounted
<1> QED
  BY <1>5, <1>6, <1>7 DEF Accounted

\* The main thread of a process waits for the reset, then for the solution,
LEMMA AwaitResetKeepsAccounted ==
  ASSUME IInv, Accounted, NEW p \in Process, AwaitReset(p)
  PROVE  Accounted'
<1>1. /\ grid' = grid /\ residual' = residual /\ finished' = finished /\ gather' = gather
      /\ phase[p] = "reset" /\ phase' = [phase EXCEPT ![p] = "solve"]
  BY DEF AwaitReset, Goto, taskrVars
<1>2. Process' = Process /\ Local' = Local /\ nIters' = nIters
  BY <1>1 DEF Process, Local, nIters
<1>3. DOMAIN phase = Process
  BY DEF IInv, TypesOK
<1>4. phase'[p] = "solve" /\ \A q \in Process : q # p => phase'[q] = phase[q]
  BY <1>1, <1>3
<1>5. SolvedOK'
  <2>1. GraphTask' = GraphTask /\ ResidualTask' = ResidualTask /\ \A u : Added(u)' = Added(u)
    BY <1>2 DEF GraphTask, Iteration, ResidualTask, Added
  <2>2. ASSUME NEW q \in Process
        PROVE  /\ phase'[q] \in Solved => phase[q] \in Solved
               /\ phase'[q] \in {"exchange", "done"} => phase[q] \in {"exchange", "done"}
               /\ phase'[q] \notin Solved => phase[q] \notin Solved
    BY <1>1, <1>4 DEF Solved
  <2> QED
    BY <1>1, <1>2, <2>1, <2>2 DEF Accounted, SolvedOK
<1>6. SumsRight'
  <2>1. ASSUME NEW q \in Process PROVE TotalOf(Summed(q))' = TotalOf(Summed(q))
    <3>1. \A m : Done(q, "Residual", m, nIters)' <=> Done(q, "Residual", m, nIters)
      BY <1>1, <1>2 DEF Done
    <3>2. Summed(q)' = Summed(q)
      BY <1>1, <1>2, <3>1, SameShares DEF Summed
    <3> QED
      BY <1>1, <3>2 DEF TotalOf, Value, nIters
  <2> QED
    BY <1>1, <1>2, <1>4, <2>1 DEF Accounted, SumsRight
<1>7. GatherRight'
  <2>1. Pushed' = Pushed
    BY <1>1, <1>2, <1>4 DEF Pushed
  <2>2. /\ phase'[Root] \in {"exchange", "done"} <=> phase[Root] \in {"exchange", "done"}
        /\ phase'[Root] = "done" => phase[Root] = "done"
    BY <1>1, <1>4, RootKnown
  <2> QED
    BY <1>1, <2>1, <2>2, GatherKept DEF Accounted
<1> QED
  BY <1>5, <1>6, <1>7 DEF Accounted

\* clears the residual,
LEMMA AwaitSolutionKeepsAccounted ==
  ASSUME IInv, Accounted, NEW p \in Process, AwaitSolution(p)
  PROVE  Accounted'
<1>1. /\ grid' = grid /\ finished' = finished /\ gather' = gather
      /\ phase[p] = "solve" /\ phase' = [phase EXCEPT ![p] = "residual"]
      /\ residual' = [residual EXCEPT ![p] = NoResidual]
      /\ \A t \in GraphTask : Added(t) => t \in finished[p]
  BY DEF AwaitSolution, Goto, taskrVars
<1>2. Process' = Process /\ Local' = Local /\ nIters' = nIters
  BY <1>1 DEF Process, Local, nIters
<1>3. DOMAIN phase = Process /\ residual = [q \in Process |-> residual[q]]
  BY DEF IInv, TypesOK, Accounted, SumsRight
<1>4. /\ phase'[p] = "residual" /\ residual'[p] = NoResidual
      /\ \A q \in Process : q # p => phase'[q] = phase[q] /\ residual'[q] = residual[q]
  BY <1>1, <1>3
<1>5. SolvedOK'
  <2>1. GraphTask' = GraphTask /\ ResidualTask' = ResidualTask /\ \A u : Added(u)' = Added(u)
    BY <1>2 DEF GraphTask, Iteration, ResidualTask, Added
  <2>2. ASSUME NEW q \in Process, q # p
        PROVE  phase'[q] = phase[q] /\ finished'[q] = finished[q]
    BY <1>1, <1>4, <2>2
  <2>3. phase'[p] \in Solved /\ phase'[p] \notin {"exchange", "done"}
    BY <1>4 DEF Solved
  <2> QED
    BY <1>1, <1>2, <2>1, <2>2, <2>3 DEF Accounted, SolvedOK
<1>6. SumsRight'
  <2>1. ASSUME NEW q \in Process PROVE TotalOf(Summed(q))' = TotalOf(Summed(q))
    <3>1. \A m : Done(q, "Residual", m, nIters)' <=> Done(q, "Residual", m, nIters)
      BY <1>1, <1>2 DEF Done
    <3>2. Summed(q)' = Summed(q)
      BY <1>1, <1>2, <3>1, SameShares DEF Summed
    <3> QED
      BY <1>1, <3>2 DEF TotalOf, Value, nIters
  <2>2. Summed(p) = {}
    <3>1. phase[p] \notin Solved
      BY <1>1 DEF Solved
    <3>2. ASSUME NEW l PROVE ~Done(p, "Residual", l, nIters)
      BY <3>1 DEF Done, Accounted, SolvedOK
    <3> QED
      BY <3>2 DEF Summed
  <2>3. residual' = [q \in Process |-> residual'[q]]
    BY <1>1, <1>3
  <2> QED
    BY <1>2, <1>4, <2>1, <2>2, <2>3, NoCells DEF Accounted, SumsRight
<1>7. GatherRight'
  <2>1. Pushed' = Pushed
    BY <1>1, <1>2, <1>4 DEF Pushed
  <2>2. /\ phase'[Root] \in {"exchange", "done"} <=> phase[Root] \in {"exchange", "done"}
        /\ phase'[Root] = "done" => phase[Root] = "done"
        /\ phase[Root] \in {"exchange", "done"} => residual'[Root] = residual[Root]
    BY <1>1, <1>4, RootKnown
  <2> QED
    BY <1>1, <2>1, <2>2, GatherKept DEF Accounted
<1> QED
  BY <1>5, <1>6, <1>7 DEF Accounted

\* and waits until all of its blocks have been added.
LEMMA AllSummed ==
  ASSUME NEW p \in Process, ResidualTask \subseteq finished[p]
  PROVE  Summed(p) = Share(p)
BY DEF Summed, Share, ResidualTask, Done

\* so that a process that goes on has the sum of all its cells.
LEMMA AwaitResidualKeepsAccounted ==
  ASSUME IInv, Accounted, NEW p \in Process, AwaitResidual(p)
  PROVE  Accounted'
<1>1. /\ grid' = grid /\ finished' = finished /\ gather' = gather /\ residual' = residual
      /\ phase[p] = "residual" /\ phase' = [phase EXCEPT ![p] = "exchange"]
      /\ ResidualTask \subseteq finished[p]
  BY DEF AwaitResidual, Goto, taskrVars
<1>2. Process' = Process /\ Local' = Local /\ nIters' = nIters
  BY <1>1 DEF Process, Local, nIters
<1>3. DOMAIN phase = Process
  BY DEF IInv, TypesOK
<1>4. phase'[p] = "exchange" /\ \A q \in Process : q # p => phase'[q] = phase[q]
  BY <1>1, <1>3
<1>5. SolvedOK'
  <2>1. GraphTask' = GraphTask /\ ResidualTask' = ResidualTask /\ \A u : Added(u)' = Added(u)
    BY <1>2 DEF GraphTask, Iteration, ResidualTask, Added
  <2>2. ASSUME NEW q \in Process
        PROVE  /\ phase'[q] \in Solved <=> phase[q] \in Solved
               /\ phase'[q] \in {"exchange", "done"} /\ q # p => phase[q] \in {"exchange", "done"}
    BY <1>1, <1>4 DEF Solved
  <2> QED
    BY <1>1, <1>2, <2>1, <2>2 DEF Accounted, SolvedOK
<1>6. SumsRight'
  <2>1. ASSUME NEW q \in Process PROVE TotalOf(Summed(q))' = TotalOf(Summed(q))
    <3>1. \A m : Done(q, "Residual", m, nIters)' <=> Done(q, "Residual", m, nIters)
      BY <1>1, <1>2 DEF Done
    <3>2. Summed(q)' = Summed(q)
      BY <1>1, <1>2, <3>1, SameShares DEF Summed
    <3> QED
      BY <1>1, <3>2 DEF TotalOf, Value, nIters
  <2> QED
    BY <1>1, <1>2, <1>4, <2>1 DEF Accounted, SumsRight
<1>7. CASE p # Root
  <2>1. Pushed' = Pushed
    BY <1>1, <1>2, <1>4 DEF Pushed
  <2>2. phase'[Root] = phase[Root]
    BY <1>4, <1>7, RootKnown
  <2>3. GatherRight'
    BY <1>1, <2>1, <2>2, GatherKept DEF Accounted
  <2> QED
    BY <1>5, <1>6, <2>3 DEF Accounted
<1>8. CASE p = Root
  <2>1. PICK n \in Nat : \E s \in [0..(n - 1) -> Process] : Order(n, s) /\ Gathered(n, s)
    BY DEF Accounted, GatherRight
  <2>2. PICK s \in [0..(n - 1) -> Process] : Order(n, s) /\ Gathered(n, s)
    BY <2>1
  <2>3. Pushed' = Pushed
    BY <1>1, <1>2, <1>4 DEF Pushed
  <2>4. Order(n, s)'
    BY <2>2, <2>3 DEF Order
  <2>5. gather.head = 0 /\ gather.received = 0
    BY <1>1, <1>8, <2>2 DEF Gathered
  <2>6. residual[Root] = TotalOf(Share(Root))
    <3>1. Summed(Root) = Share(Root)
      BY <1>1, <1>8, AllSummed
    <3> QED
      BY <1>1, <1>8, <3>1 DEF Accounted, SumsRight
  <2>7. Share(Root)' = Share(Root) /\ \A i : Share(s[i])' = Share(s[i])
    BY <1>1, SameShares
  <2>8. Share(Root) \cup UNION {Share(s[i]) : i \in 0..(gather.received - 1)} = Share(Root)
    BY <2>5
  <2>9. residual'[Root] = TotalOf(Share(Root) \cup UNION {Share(s[i]) : i \in 0..(gather.received - 1)})'
    BY <1>1, <2>6, <2>7, <2>8 DEF TotalOf, Value, nIters
  <2>10. \A i \in 0..(n - 1) : gather'.slots[i] = TotalOf(Share(s[i]))'
    <3>1. ASSUME NEW i \in 0..(n - 1) PROVE TotalOf(Share(s[i]))' = TotalOf(Share(s[i]))
      BY <1>1, <2>7 DEF TotalOf, Value, nIters
    <3> QED
      BY <1>1, <2>2, <3>1 DEF Gathered
  <2>11. phase'[Root] = "exchange" /\ Slots' = Slots
    BY <1>2, <1>4, <1>8 DEF Slots
  <2>12. Gathered(n, s)'
    BY <1>1, <1>2, <2>2, <2>9, <2>10, <2>11 DEF Gathered
  <2>13. GatherRight'
    BY <1>2, <2>4, <2>12 DEF GatherRight
  <2> QED
    BY <1>5, <1>6, <2>13 DEF Accounted
<1> QED
  BY <1>7, <1>8

\* There is a slot left for the sum of each process: no slot is written twice.
LEMMA PushedBound ==
  ASSUME IInv
  PROVE  /\ IsFiniteSet(Pushed) /\ Cardinality(Process) \in Nat /\ Cardinality(Pushed) \in Nat
         /\ IsFiniteSet(Process \ {Root}) /\ Pushed \subseteq Process \ {Root}
         /\ Cardinality(Process \ {Root}) = Cardinality(Process) - 1
         /\ Cardinality(Pushed) <= Cardinality(Process) - 1
         /\ \A p \in Process \ {Root} : p \notin Pushed => Cardinality(Pushed) < Cardinality(Process) - 1
<1>1. Root \in Process /\ IsFiniteSet(Process)
  BY RootKnown
<1>2. IsFiniteSet(Process \ {Root}) /\ Cardinality(Process \ {Root}) = Cardinality(Process) - 1
  BY <1>1, FS_RemoveElement
<1>3. Pushed \subseteq Process \ {Root}
  BY DEF Pushed
<1>4. /\ IsFiniteSet(Pushed) /\ Cardinality(Pushed) <= Cardinality(Process \ {Root})
      /\ Cardinality(Process \ {Root}) = Cardinality(Pushed) => Process \ {Root} = Pushed
  BY <1>2, <1>3, FS_Subset
<1>5. Cardinality(Process) \in Nat /\ Cardinality(Pushed) \in Nat
  BY <1>1, <1>4, FS_CardinalityType
<1> QED
  BY <1>2, <1>3, <1>4, <1>5

\* A process sends its sum into the slot behind the last one.
LEMMA PushKeepsAccounted ==
  ASSUME IInv, Accounted, NEW p \in Process, PushResidual(p)
  PROVE  Accounted'
<1>1. /\ grid' = grid /\ finished' = finished /\ residual' = residual /\ p # Root
      /\ phase[p] = "exchange" /\ phase' = [phase EXCEPT ![p] = "done"]
      /\ gather' = [gather EXCEPT !.slots[(gather.head + gather.count) % Slots] = residual[p],
                                  !.count = @ + 1]
  BY DEF PushResidual, Goto
<1>2. Process' = Process /\ Local' = Local /\ nIters' = nIters
  BY <1>1 DEF Process, Local, nIters
<1>3. DOMAIN phase = Process
  BY DEF IInv, TypesOK
<1>4. phase'[p] = "done" /\ \A q \in Process : q # p => phase'[q] = phase[q]
  BY <1>1, <1>3
<1>5. SolvedOK'
  <2>1. GraphTask' = GraphTask /\ ResidualTask' = ResidualTask /\ \A u : Added(u)' = Added(u)
    BY <1>2 DEF GraphTask, Iteration, ResidualTask, Added
  <2>2. ASSUME NEW q \in Process
        PROVE  /\ phase'[q] \in Solved <=> phase[q] \in Solved
               /\ phase'[q] \in {"exchange", "done"} <=> phase[q] \in {"exchange", "done"}
    BY <1>1, <1>4 DEF Solved
  <2> QED
    BY <1>1, <1>2, <2>1, <2>2 DEF Accounted, SolvedOK
<1>6. SumsRight'
  <2>1. ASSUME NEW q \in Process PROVE TotalOf(Summed(q))' = TotalOf(Summed(q))
    <3>1. \A m : Done(q, "Residual", m, nIters)' <=> Done(q, "Residual", m, nIters)
      BY <1>1, <1>2 DEF Done
    <3>2. Summed(q)' = Summed(q)
      BY <1>1, <1>2, <3>1, SameShares DEF Summed
    <3> QED
      BY <1>1, <3>2 DEF TotalOf, Value, nIters
  <2> QED
    BY <1>1, <1>2, <1>4, <2>1 DEF Accounted, SumsRight
<1>7. PICK n \in Nat : \E s \in [0..(n - 1) -> Process] : Order(n, s) /\ Gathered(n, s)
  BY DEF Accounted, GatherRight
<1>8. PICK s \in [0..(n - 1) -> Process] : Order(n, s) /\ Gathered(n, s)
  BY <1>7
<1>9. Pushed' = Pushed \cup {p} /\ p \notin Pushed
  BY <1>1, <1>2, <1>4 DEF Pushed
<1>10. n = Cardinality(Pushed) /\ Slots \in Nat /\ n < Slots /\ Cardinality(Pushed') = n + 1
  <2>1. n = Cardinality(Pushed)
    BY <1>8 DEF Order
  <2>2. Cardinality(Pushed) < Cardinality(Process) - 1 /\ Cardinality(Process) \in Nat
    BY <1>1, <1>9, PushedBound
  <2>3. Cardinality(Pushed \cup {p}) = Cardinality(Pushed) + 1
    BY <1>9, PushedBound, FS_AddElement
  <2> QED
    BY <1>9, <2>1, <2>2, <2>3 DEF Slots
<1>11. PICK r : r = [i \in 0..n |-> IF i = n THEN p ELSE s[i]]
  OBVIOUS
<1>12. /\ r \in [0..(n + 1 - 1) -> Process] /\ r[n] = p
       /\ \A i \in 0..(n - 1) : r[i] = s[i]
  BY <1>8, <1>11
<1>13. Order(n + 1, r)'
  <2>1. r \in [0..(n + 1 - 1) -> Pushed']
    BY <1>8, <1>9, <1>11 DEF Order
  <2>2. \A i, j \in 0..(n + 1 - 1) : r[i] = r[j] => i = j
    BY <1>8, <1>9, <1>11 DEF Order
  <2>3. ASSUME NEW q \in Pushed' PROVE \E i \in 0..(n + 1 - 1) : r[i] = q
    <3>1. CASE q = p
      BY <1>12, <3>1
    <3>2. CASE q # p
      <4>1. PICK i \in 0..(n - 1) : s[i] = q
        BY <1>8, <1>9, <3>2 DEF Order
      <4> QED
        BY <1>12, <4>1
    <3> QED
      BY <3>1, <3>2
  <2> QED
    BY <1>10, <2>1, <2>2, <2>3 DEF Order
<1>14. /\ gather = [slots |-> gather.slots, head |-> gather.head, count |-> gather.count,
                    pointer |-> gather.pointer, received |-> gather.received]
       /\ gather.slots = [i \in 0..(Slots - 1) |-> gather.slots[i]]
       /\ gather.received \in Nat /\ gather.head \in 0..n /\ gather.count = n - gather.head
  BY <1>8 DEF Gathered
<1>15. (gather.head + gather.count) % Slots = n
  <2>1. gather.head + gather.count = n
    BY <1>14
  <2> QED
    BY <1>10, <2>1
<1>16. /\ gather' = [slots |-> gather'.slots, head |-> gather.head, count |-> gather.count + 1,
                     pointer |-> gather.pointer, received |-> gather.received]
       /\ gather'.slots = [gather.slots EXCEPT ![n] = residual[p]]
  BY <1>1, <1>14, <1>15
<1>17. gather'.slots = [i \in 0..(Slots - 1) |-> gather'.slots[i]]
       /\ \A i \in 0..(Slots - 1) : gather'.slots[i] = IF i = n THEN residual[p] ELSE gather.slots[i]
  BY <1>14, <1>16
<1>18. \A q : Share(q)' = Share(q)
  BY <1>1, SameShares
<1>19. ASSUME NEW i \in 0..n PROVE gather'.slots[i] = TotalOf(Share(r[i]))'
  <2>1. TotalOf(Share(r[i]))' = TotalOf(Share(r[i]))
    BY <1>1, <1>18 DEF TotalOf, Value, nIters
  <2>2. residual[p] = TotalOf(Share(p))
    <3>1. Summed(p) = Share(p)
      BY <1>1, AllSummed DEF Accounted, SolvedOK
    <3> QED
      BY <1>1, <3>1 DEF Accounted, SumsRight
  <2>3. ASSUME i # n PROVE gather.slots[i] = TotalOf(Share(r[i]))
    <3>1. i \in 0..(n - 1) /\ r[i] = s[i]
      BY <1>12, <2>3
    <3>2. gather.slots[i] = TotalOf(Share(s[i]))
      BY <1>8, <3>1 DEF Gathered
    <3> QED
      BY <3>1, <3>2
  <2> QED
    BY <1>10, <1>12, <1>17, <2>1, <2>2, <2>3
<1>20. ASSUME phase'[Root] \in {"exchange", "done"}
       PROVE  residual'[Root] = TotalOf(Share(Root) \cup UNION {Share(r[i]) : i \in 0..(gather.received - 1)})'
  <2>1. gather.received <= n /\ gather.received \in Nat
    BY <1>8 DEF Gathered
  <2>2. \A i \in 0..(gather.received - 1) : r[i] = s[i]
    BY <1>12, <2>1
  <2>3. {Share(r[i]) : i \in 0..(gather.received - 1)} = {Share(s[i]) : i \in 0..(gather.received - 1)}
    BY <2>2
  <2>4. phase[Root] \in {"exchange", "done"}
    BY <1>1, <1>4, <1>20, RootKnown
  <2>5. residual[Root] = TotalOf(Share(Root) \cup UNION {Share(r[i]) : i \in 0..(gather.received - 1)})
    BY <1>8, <2>3, <2>4 DEF Gathered
  <2>6. gather'.received = gather.received
    BY <1>16
  <2>7. TotalOf(Share(Root) \cup UNION {Share(r[i]) : i \in 0..(gather.received - 1)})'
          = TotalOf(Share(Root) \cup UNION {Share(r[i]) : i \in 0..(gather.received - 1)})
    BY <1>1, <1>18, <2>6 DEF TotalOf, Value, nIters
  <2> QED
    BY <1>1, <2>5, <2>7
<1>21. /\ phase'[Root] = phase[Root] /\ Slots' = Slots
       /\ gather'.head = gather.head /\ gather'.received = gather.received
       /\ gather'.pointer = gather.pointer /\ gather'.count = n + 1 - gather'.head
  BY <1>1, <1>2, <1>4, <1>14, <1>16, RootKnown DEF Slots
<1>22. Gathered(n + 1, r)'
  <2>1. \A i \in 0..(n + 1 - 1) : gather'.slots[i] = TotalOf(Share(r[i]))'
    BY <1>19
  <2>2. gather'.head \in 0..(n + 1)
    BY <1>14, <1>21
  <2> QED
    BY <1>2, <1>8, <1>16, <1>17, <1>20, <1>21, <2>1, <2>2, SMTT(30) DEF Gathered
<1>23. GatherRight'
  <2>1. n + 1 \in Nat
    OBVIOUS
  <2> QED
    BY <1>2, <1>12, <1>13, <1>22, <2>1 DEF GatherRight
<1> QED
  BY <1>5, <1>6, <1>23 DEF Accounted

\* The root takes the first slot that it has not read, and frees it,
LEMMA PopKeepsAccounted ==
  ASSUME IInv, Accounted, PopResidual
  PROVE  Accounted'
<1>1. /\ grid' = grid /\ finished' = finished /\ residual' = residual /\ phase' = phase
      /\ phase[Root] = "exchange" /\ gather.pointer = Lost /\ gather.count > 0
      /\ gather' = [gather EXCEPT !.pointer = gather.head, !.head = (@ + 1) % Slots, !.count = @ - 1]
  BY DEF PopResidual
<1>2. Process' = Process /\ Local' = Local /\ nIters' = nIters /\ Slots' = Slots
  BY <1>1 DEF Process, Local, nIters, Slots
<1>3. SolvedOK' /\ SumsRight'
  <2>1. SolvedOK'
    BY <1>1, <1>2 DEF Accounted, SolvedOK, GraphTask, Iteration, ResidualTask, Added
  <2>2. ASSUME NEW q \in Process PROVE TotalOf(Summed(q))' = TotalOf(Summed(q))
    <3>1. \A m : Done(q, "Residual", m, nIters)' <=> Done(q, "Residual", m, nIters)
      BY <1>1, <1>2 DEF Done
    <3>2. Summed(q)' = Summed(q)
      BY <1>1, <1>2, <3>1, SameShares DEF Summed
    <3> QED
      BY <1>1, <3>2 DEF TotalOf, Value, nIters
  <2> QED
    BY <1>1, <1>2, <2>1, <2>2 DEF Accounted, SumsRight
<1>4. PICK n \in Nat : \E s \in [0..(n - 1) -> Process] : Order(n, s) /\ Gathered(n, s)
  BY DEF Accounted, GatherRight
<1>5. PICK s \in [0..(n - 1) -> Process] : Order(n, s) /\ Gathered(n, s)
  BY <1>4
<1>6. Order(n, s)'
  BY <1>1, <1>2, <1>5 DEF Order, Pushed
<1>7. n < Slots /\ Slots \in Nat
  BY <1>5, PushedBound DEF Order, Slots
<1>8. /\ gather = [slots |-> gather.slots, head |-> gather.head, count |-> gather.count,
                   pointer |-> gather.pointer, received |-> gather.received]
      /\ gather.head \in 0..n /\ gather.count = n - gather.head /\ gather.received \in Nat
      /\ gather.slots = [i \in 0..(Slots - 1) |-> gather.slots[i]]
  BY <1>5 DEF Gathered
<1>9. gather.head = gather.received /\ gather.head < n
  BY <1>1, <1>5, <1>8 DEF Gathered, Lost
<1>10. (gather.head + 1) % Slots = gather.head + 1
  <2>1. PICK k \in 0..n : k = gather.head
    BY <1>8
  <2>2. k + 1 \in 0..(Slots - 1) /\ Slots \in Nat \ {0}
    BY <1>7, <1>9, <2>1
  <2>3. (k + 1) % Slots = k + 1
    BY <2>2
  <2> QED
    BY <2>1, <2>3
<1>11. gather' = [slots |-> gather.slots, head |-> gather.head + 1, count |-> gather.count - 1,
                  pointer |-> gather.received, received |-> gather.received]
  BY <1>1, <1>8, <1>9, <1>10
<1>12. /\ gather'.slots = gather.slots /\ gather'.head = gather.head + 1
       /\ gather'.count = gather.count - 1 /\ gather'.pointer = gather.received
       /\ gather'.received = gather.received
  BY <1>11
<1>13. \A q : Share(q)' = Share(q)
  BY <1>1, SameShares
<1>14. ASSUME NEW i \in 0..(n - 1) PROVE gather'.slots[i] = TotalOf(Share(s[i]))'
  <2>1. TotalOf(Share(s[i]))' = TotalOf(Share(s[i]))
    BY <1>1, <1>13 DEF TotalOf, Value, nIters
  <2> QED
    BY <1>5, <1>12, <2>1 DEF Gathered
<1>15. residual'[Root] = TotalOf(Share(Root) \cup UNION {Share(s[i]) : i \in 0..(gather.received - 1)})'
  <2>1. TotalOf(Share(Root) \cup UNION {Share(s[i]) : i \in 0..(gather.received - 1)})'
          = TotalOf(Share(Root) \cup UNION {Share(s[i]) : i \in 0..(gather.received - 1)})
    BY <1>1, <1>12, <1>13 DEF TotalOf, Value, nIters
  <2> QED
    BY <1>1, <1>5, <2>1 DEF Gathered
<1>16. /\ gather'.head \in 0..n /\ gather'.count = n - gather'.head
       /\ gather'.pointer = gather'.received /\ gather'.head = gather'.received + 1
       /\ phase'[Root] = "exchange" /\ gather'.received \in Nat
  BY <1>1, <1>8, <1>9, <1>12
<1>17. Gathered(n, s)'
  BY <1>2, <1>8, <1>11, <1>12, <1>14, <1>15, <1>16 DEF Gathered
<1> QED
  BY <1>2, <1>3, <1>6, <1>17 DEF Accounted, GatherRight

\* and adds what is in it: nobody has written it since.
LEMMA ReadKeepsAccounted ==
  ASSUME IInv, Accounted, ReadResidual
  PROVE  Accounted'
<1>1. /\ grid' = grid /\ finished' = finished /\ phase' = phase /\ gather.pointer # Lost
      /\ residual' = [residual EXCEPT ![Root] = Sum(@, gather.slots[gather.pointer])]
      /\ gather' = [gather EXCEPT !.pointer = Lost, !.received = @ + 1]
  BY DEF ReadResidual
<1>2. Process' = Process /\ Local' = Local /\ nIters' = nIters /\ Slots' = Slots
  BY <1>1 DEF Process, Local, nIters, Slots
<1>3. PICK n \in Nat : \E s \in [0..(n - 1) -> Process] : Order(n, s) /\ Gathered(n, s)
  BY DEF Accounted, GatherRight
<1>4. PICK s \in [0..(n - 1) -> Process] : Order(n, s) /\ Gathered(n, s)
  BY <1>3
<1>5. /\ gather = [slots |-> gather.slots, head |-> gather.head, count |-> gather.count,
                   pointer |-> gather.pointer, received |-> gather.received]
      /\ gather.head \in 0..n /\ gather.count = n - gather.head /\ gather.received \in Nat
      /\ gather.slots = [i \in 0..(Slots - 1) |-> gather.slots[i]]
      /\ gather.pointer = gather.received /\ gather.head = gather.received + 1
  BY <1>1, <1>4 DEF Gathered
<1>6. PICK k \in 0..(n - 1) : k = gather.received
  BY <1>5
<1>7. phase[Root] = "exchange"
  <2>1. phase[Root] \in {"exchange", "done"}
    BY <1>4, <1>5 DEF Gathered
  <2>2. n <= Cardinality(Process) - 1 /\ Cardinality(Process) \in Nat
    BY <1>4, PushedBound DEF Order
  <2>3. phase[Root] # "done"
    BY <1>4, <1>5, <2>2 DEF Gathered
  <2> QED
    BY <2>1, <2>3
<1>8. Root \in Process /\ residual = [q \in Process |-> residual[q]]
  BY RootKnown DEF Accounted, SumsRight
<1>9. /\ residual'[Root] = Sum(residual[Root], gather.slots[k])
      /\ residual' = [q \in Process |-> residual'[q]]
      /\ \A q \in Process : q # Root => residual'[q] = residual[q]
  BY <1>1, <1>5, <1>6, <1>8
<1>10. SolvedOK' /\ SumsRight'
  <2>1. SolvedOK'
    BY <1>1, <1>2 DEF Accounted, SolvedOK, GraphTask, Iteration, ResidualTask, Added
  <2>2. ASSUME NEW q \in Process PROVE TotalOf(Summed(q))' = TotalOf(Summed(q))
    <3>1. \A m : Done(q, "Residual", m, nIters)' <=> Done(q, "Residual", m, nIters)
      BY <1>1, <1>2 DEF Done
    <3>2. Summed(q)' = Summed(q)
      BY <1>1, <1>2, <3>1, SameShares DEF Summed
    <3> QED
      BY <1>1, <3>2 DEF TotalOf, Value, nIters
  <2> QED
    BY <1>1, <1>2, <1>7, <1>9, <2>1, <2>2 DEF Accounted, SumsRight
<1>11. Order(n, s)'
  BY <1>1, <1>2, <1>4 DEF Order, Pushed
<1>12. /\ gather' = [slots |-> gather.slots, head |-> gather.head, count |-> gather.count,
                     pointer |-> Lost, received |-> k + 1]
  BY <1>1, <1>5, <1>6
<1>13. /\ gather'.slots = gather.slots /\ gather'.head = gather.head
       /\ gather'.count = gather.count /\ gather'.pointer = Lost /\ gather'.received = k + 1
  BY <1>12
<1>14. PICK A : A = Share(Root) \cup UNION {Share(s[i]) : i \in 0..(k - 1)}
  OBVIOUS
<1>15. PICK B : B = Share(s[k])
  OBVIOUS
<1>16. residual[Root] = TotalOf(A) /\ gather.slots[k] = TotalOf(B)
  BY <1>4, <1>6, <1>7, <1>14, <1>15 DEF Gathered
<1>17. IsFiniteSet(A) /\ IsFiniteSet(B) /\ A \cap B = {}
  <2>1. PICK g : InUse(g)
    BY <1>7, <1>8, SolvingGrid DEF Halted
  <2>2. ASSUME NEW i \in 0..(n - 1) PROVE s[i] \in Process /\ s[i] # Root
    BY <1>4 DEF Order, Pushed
  <2>3. \A i \in 0..(k - 1) : i \in 0..(n - 1) /\ s[i] # s[k]
    BY <1>4, <1>6 DEF Order
  <2>4. A \subseteq Domain /\ B \subseteq Domain
    BY <1>8, <1>14, <1>15, <2>1, <2>2, <2>3, SharesApart
  <2>5. A \cap B = {}
    BY <1>8, <1>14, <1>15, <2>1, <2>2, <2>3, SharesApart
  <2> QED
    BY <2>1, <2>4, <2>5, DomainIsFinite, FS_Subset
<1>18. residual'[Root] = TotalOf(A \cup B)
  BY <1>9, <1>16, <1>17, SumOfParts
<1>19. A \cup B = Share(Root) \cup UNION {Share(s[i]) : i \in 0..(k + 1 - 1)}
  <2>1. \A i : i \in 0..(k + 1 - 1) <=> i \in 0..(k - 1) \/ i = k
    OBVIOUS
  <2> QED
    BY <1>14, <1>15, <2>1
<1>20. \A q : Share(q)' = Share(q)
  BY <1>1, SameShares
<1>21. ASSUME NEW i \in 0..(n - 1) PROVE gather'.slots[i] = TotalOf(Share(s[i]))'
  <2>1. TotalOf(Share(s[i]))' = TotalOf(Share(s[i]))
    BY <1>1, <1>20 DEF TotalOf, Value, nIters
  <2> QED
    BY <1>4, <1>13, <2>1 DEF Gathered
<1>22. residual'[Root] = TotalOf(Share(Root) \cup UNION {Share(s[i]) : i \in 0..(gather.received - 1)})'
  <2>1. gather'.received - 1 = k + 1 - 1
    BY <1>13
  <2>2. (Share(Root) \cup UNION {Share(s[i]) : i \in 0..(gather.received - 1)})' = A \cup B
    BY <1>19, <1>20, <2>1
  <2>3. TotalOf(A \cup B)' = TotalOf(A \cup B)
    BY <1>1, SameShares
  <2> QED
    BY <1>18, <2>2, <2>3 DEF TotalOf
<1>23. /\ gather'.head \in 0..n /\ gather'.count = n - gather'.head
       /\ gather'.head = gather'.received
       /\ phase'[Root] = "exchange" /\ gather'.received \in Nat
  BY <1>1, <1>5, <1>6, <1>7, <1>13
<1>24. Gathered(n, s)'
  BY <1>2, <1>5, <1>12, <1>13, <1>21, <1>22, <1>23 DEF Gathered
<1> QED
  BY <1>2, <1>10, <1>11, <1>24 DEF Accounted, GatherRight

\* It reports when it has added the sums of all others.
LEMMA ReportKeepsAccounted ==
  ASSUME IInv, Accounted, Report
  PROVE  Accounted'
<1>1. /\ grid' = grid /\ finished' = finished /\ residual' = residual /\ gather' = gather
      /\ phase[Root] = "exchange" /\ phase' = [phase EXCEPT ![Root] = "done"]
      /\ gather.received = grid.instances - 1
  BY DEF Report, Goto, taskrVars
<1>2. Process' = Process /\ Local' = Local /\ nIters' = nIters /\ Slots' = Slots
  BY <1>1 DEF Process, Local, nIters, Slots
<1>3. DOMAIN phase = Process /\ Root \in Process
  BY RootKnown DEF IInv, TypesOK
<1>4. phase'[Root] = "done" /\ \A q \in Process : q # Root => phase'[q] = phase[q]
  BY <1>1, <1>3
<1>5. gather.received = Cardinality(Process) - 1
  BY <1>1, <1>3 DEF IInv, GridOK, WellFormed
<1>6. SolvedOK'
  <2>1. GraphTask' = GraphTask /\ ResidualTask' = ResidualTask /\ \A u : Added(u)' = Added(u)
    BY <1>2 DEF GraphTask, Iteration, ResidualTask, Added
  <2>2. ASSUME NEW q \in Process
        PROVE  /\ phase'[q] \in Solved <=> phase[q] \in Solved
               /\ phase'[q] \in {"exchange", "done"} <=> phase[q] \in {"exchange", "done"}
    BY <1>1, <1>4 DEF Solved
  <2> QED
    BY <1>1, <1>2, <2>1, <2>2 DEF Accounted, SolvedOK
<1>7. SumsRight'
  <2>1. ASSUME NEW q \in Process PROVE TotalOf(Summed(q))' = TotalOf(Summed(q))
    <3>1. \A m : Done(q, "Residual", m, nIters)' <=> Done(q, "Residual", m, nIters)
      BY <1>1, <1>2 DEF Done
    <3>2. Summed(q)' = Summed(q)
      BY <1>1, <1>2, <3>1, SameShares DEF Summed
    <3> QED
      BY <1>1, <3>2 DEF TotalOf, Value, nIters
  <2> QED
    BY <1>1, <1>2, <1>4, <2>1 DEF Accounted, SumsRight
<1>8. PICK n \in Nat : \E s \in [0..(n - 1) -> Process] : Order(n, s) /\ Gathered(n, s)
  BY DEF Accounted, GatherRight
<1>9. PICK s \in [0..(n - 1) -> Process] : Order(n, s) /\ Gathered(n, s)
  BY <1>8
<1>10. Pushed' = Pushed
  BY <1>1, <1>2, <1>4 DEF Pushed
<1>11. Order(n, s)'
  BY <1>9, <1>10 DEF Order
<1>12. \A q : Share(q)' = Share(q)
  BY <1>1, SameShares
<1>13. ASSUME NEW i \in 0..(n - 1) PROVE gather'.slots[i] = TotalOf(Share(s[i]))'
  <2>1. TotalOf(Share(s[i]))' = TotalOf(Share(s[i]))
    BY <1>1, <1>12 DEF TotalOf, Value, nIters
  <2> QED
    BY <1>1, <1>9, <2>1 DEF Gathered
<1>14. residual'[Root] = TotalOf(Share(Root) \cup UNION {Share(s[i]) : i \in 0..(gather.received - 1)})'
  <2>1. TotalOf(Share(Root) \cup UNION {Share(s[i]) : i \in 0..(gather.received - 1)})'
          = TotalOf(Share(Root) \cup UNION {Share(s[i]) : i \in 0..(gather.received - 1)})
    BY <1>1, <1>12 DEF TotalOf, Value, nIters
  <2> QED
    BY <1>1, <1>9, <2>1 DEF Gathered
<1>15. Gathered(n, s)'
  BY <1>1, <1>2, <1>4, <1>5, <1>9, <1>13, <1>14 DEF Gathered
<1> QED
  BY <1>2, <1>6, <1>7, <1>11, <1>15 DEF Accounted, GatherRight

\* All other tasks leave the residual alone.
LEMMA OtherTaskKeepsAccounted ==
  ASSUME IInv, Accounted, NEW p \in Process, NEW t, NEW n, TakeStep(p, t, n), t[1] # "Residual",
         grid' = grid, phase' = phase, residual' = residual, gather' = gather
  PROVE  Accounted'
<1>1. /\ \A q \in Process : \A u : u # t \/ q # p => (u \in finished'[q] <=> u \in finished[q])
      /\ t \notin finished[p]
  BY Effect DEF Others
<1>2. \A q \in Process : finished[q] \subseteq finished'[q]
  BY <1>1
<1>3. \A q \in Process : \A u \in finished'[q] : u \in finished[q] \/ u[1] # "Residual"
  BY <1>1
<1> QED
  BY <1>2, <1>3, AccountedKept

\* The tasks keep the sums right.
LEMMA TaskKeepsAccounted ==
  ASSUME IInv, Right, Accounted, NEW p \in Process, RunsTask(p)
  PROVE  Accounted'
<1>1. PICK l \in Local :
        \/ Reset(p, l) \/ Residual(p, l)
        \/ \E it \in Iteration :
             \/ Compute(p, l, it) \/ Pack(p, l, it) \/ Send(p, l, it)
             \/ Receive(p, l, it) \/ LoseReceive(p, l, it) \/ Unpack(p, l, it)
  BY DEF RunsTask
<1>2. CASE Reset(p, l)
  <2>1. /\ TakeStep(p, <<"Reset", l, 0>>, 2) /\ <<"Reset", l, 0>>[1] # "Residual"
        /\ UNCHANGED <<grid, phase, residual, gather>>
    BY <1>2 DEF Reset
  <2> QED
    BY <2>1, OtherTaskKeepsAccounted
<1>3. CASE Residual(p, l)
  BY <1>3, ResidualKeepsAccounted
<1>4. ASSUME NEW it \in Iteration,
             \/ Compute(p, l, it) \/ Pack(p, l, it) \/ Send(p, l, it)
             \/ Receive(p, l, it) \/ Unpack(p, l, it)
      PROVE  Accounted'
  <2>1. ASSUME NEW kind \in {"Compute", "Pack", "Send", "Receive", "Unpack"}, NEW n,
               TakeStep(p, <<kind, l, it>>, n), UNCHANGED <<grid, phase, residual, gather>>
        PROVE  Accounted'
    BY <2>1, OtherTaskKeepsAccounted
  <2>2. CASE Compute(p, l, it)
    BY <2>1, <2>2 DEF Compute
  <2>3. CASE Pack(p, l, it)
    BY <2>1, <2>3 DEF Pack
  <2>4. CASE Send(p, l, it)
    <3>1. TakeStep(p, <<"Send", l, it>>, Len(Remote(p, l))) /\ UNCHANGED <<grid, phase, residual, gather>>
      BY <2>4 DEF Send
    <3> QED
      BY <2>1, <3>1
  <2>5. CASE Receive(p, l, it)
    <3>1. TakeStep(p, <<"Receive", l, it>>, Len(Remote(p, l))) /\ UNCHANGED <<grid, phase, residual, gather>>
      BY <2>5 DEF Receive
    <3> QED
      BY <2>1, <3>1
  <2>6. CASE Unpack(p, l, it)
    BY <2>1, <2>6 DEF Unpack
  <2> QED
    BY <1>4, <2>2, <2>3, <2>4, <2>5, <2>6
<1>5. ASSUME NEW it \in Iteration, LoseReceive(p, l, it) PROVE Accounted'
  <2>1. UNCHANGED <<grid, phase, finished, residual, gather>>
    BY <1>5 DEF LoseReceive
  <2> QED
    BY <2>1, AccountedKept
<1> QED
  BY <1>1, <1>2, <1>3, <1>4, <1>5

\* All steps do.
LEMMA NextKeepsAccounted ==
  ASSUME IInv, Right, Accounted, [Next]_vars
  PROVE  Accounted'
<1>1. CASE Initialize \/ AbortLaunch
  BY <1>1, LaunchKeepsAccounted
<1>2. ASSUME NEW p \in Process, RunsTask(p) PROVE Accounted'
  BY <1>2, TaskKeepsAccounted
<1>3. ASSUME NEW p \in Process, RunsMain(p) PROVE Accounted'
  BY <1>3, AwaitResetKeepsAccounted, AwaitSolutionKeepsAccounted, AwaitResidualKeepsAccounted,
     PushKeepsAccounted DEF RunsMain
<1>4. CASE PopResidual
  BY <1>4, PopKeepsAccounted
<1>5. CASE ReadResidual
  BY <1>5, ReadKeepsAccounted
<1>6. CASE Report
  BY <1>6, ReportKeepsAccounted
<1>7. CASE UNCHANGED vars
  <2>1. UNCHANGED <<grid, phase, finished, residual, gather>>
    BY <1>7 DEF vars, taskrVars
  <2> QED
    BY <2>1, AccountedKept
<1> QED
  BY <1>1, <1>2, <1>3, <1>4, <1>5, <1>6, <1>7 DEF Next

\* The root has counted as many sums as there are other processes: it has one
\* of each, since no process sends two.
LEMMA AccountedIsComplete ==
  ASSUME IInv, Accounted
  PROVE  ResidualIsComplete
<1> SUFFICES ASSUME phase[Root] = "done"
             PROVE  residual[Root] = TotalOf(Domain)
  BY DEF ResidualIsComplete, TotalOf
<1>1. PICK n \in Nat : \E s \in [0..(n - 1) -> Process] : Order(n, s) /\ Gathered(n, s)
  BY DEF Accounted, GatherRight
<1>2. PICK s \in [0..(n - 1) -> Process] : Order(n, s) /\ Gathered(n, s)
  BY <1>1
<1>3. Root \in Process
  BY RootKnown
<1>4. PICK g : InUse(g)
  BY <1>3, SolvingGrid DEF Halted
<1>5. n = Cardinality(Process) - 1 /\ n = Cardinality(Pushed) /\ gather.received = n
  <2>1. n = Cardinality(Pushed) /\ gather.received = Cardinality(Process) - 1
    BY <1>2 DEF Order, Gathered
  <2>2. gather.received \in Nat /\ gather.head \in 0..n /\ gather.received <= gather.head
    BY <1>2 DEF Gathered
  <2>3. Cardinality(Pushed) <= Cardinality(Process) - 1 /\ Cardinality(Process) \in Nat
    BY PushedBound
  <2> QED
    BY <2>1, <2>2, <2>3
<1>6. Pushed = Process \ {Root}
  <2>1. \A p \in Process \ {Root} : p \in Pushed
    BY <1>5, PushedBound
  <2> QED
    BY <2>1, PushedBound
<1>7. Share(Root) \cup UNION {Share(s[i]) : i \in 0..(n - 1)} = UNION {Share(p) : p \in Process}
  <2>1. \A i \in 0..(n - 1) : s[i] \in Process
    BY <1>2
  <2>2. \A p \in Process : p = Root \/ \E i \in 0..(n - 1) : s[i] = p
    BY <1>2, <1>6 DEF Order
  <2> QED
    BY <1>3, <2>1, <2>2
<1>8. residual[Root] = TotalOf(Share(Root) \cup UNION {Share(s[i]) : i \in 0..(n - 1)})
  BY <1>2, <1>5 DEF Gathered
<1> QED
  BY <1>4, <1>7, <1>8, DomainShared

(* The root reports the sum over the whole domain: every block of every process *)
(* is added once, with its cells after the last iteration, every process sends  *)
(* its sum once, and the root adds each although it frees a slot before it      *)
(* reads it (jacobi3d.hpp:168-196): the channel has a slot for every process,   *)
(* so that none is written twice.                                               *)
THEOREM JacobiResidualIsComplete == Spec => []ResidualIsComplete
<1> DEFINE I == IInv /\ Right /\ Accounted
<1>1. Init => I
  BY InitIInv, InitRight, InitAccounted
<1>2. I /\ [Next]_vars => I'
  BY NextKeeps, NextKeepsRight, NextKeepsAccounted
<1>3. I => ResidualIsComplete
  BY AccountedIsComplete
<1> HIDE DEF I
<1> QED
  BY <1>1, <1>2, <1>3, PTL DEF Spec
=============================================================================
