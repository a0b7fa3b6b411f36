--------------------------- MODULE JacobiMPIProofs ---------------------------
(***************************************************************************)
(* Proofs about the program that the run of MCJacobi checks, the solver on *)
(* TaskR or the one on MPI, for any grid, decomposition and number of      *)
(* iterations: that it computes only right values, reports a complete      *)
(* residual and implements Stencil, so that neighbours stay in step.       *)
(*                                                                         *)
(* For TaskR this is in JacobiProofs; here is the invariant of JacobiMPI,  *)
(* whose processes have one block each and meet in messages only.          *)
(***************************************************************************)
EXTENDS JacobiProofs

\* The block of a process, its faces to others, and who is behind them.
Here == <<0, 0, 0>>
Sides(p) == {f \in Faces : Type(p, Here, f) = "REMOTE"}
Peer(p, f) == Neighbor(p, Here, f)[1]

\* How many messages a process has sent or received through a face: those of
\* earlier iterations, and the one of this iteration if MPI has completed it.
Completed(p, kind, f) ==
  IF phase[p] = "wait" /\ <<kind, f>> \notin request[p] THEN iter[p] + 1 ELSE iter[p]

\* How many iterations it has computed.
Reach(p) == IF phase[p] = "wait" THEN iter[p] + 1 ELSE iter[p]

-----------------------------------------------------------------------------
(* The parts of the inductive invariant.                                   *)

\* A process has one block.
OneBlock == GridOK /\ grid.lt = <<1, 1, 1>>

\* The processes, arrays, buffers and tags are always the same.
TablesOK ==
  /\ DOMAIN phase = Process /\ array = [p \in Process |-> array[p]]
  /\ \A p \in Process : array[p] = [b \in {0, 1} |-> array[p][b]]
  /\ residual = [p \in Process |-> residual[p]] /\ iter = [p \in Process |-> iter[p]]
  /\ request = [p \in Process |-> request[p]]
  /\ sendBuffer = [r \in RemoteFaces |-> sendBuffer[r]]
  /\ recvBuffer = [r \in RemoteFaces |-> recvBuffer[r]]
  /\ mail = [r \in Process \X Process \X Faces |-> mail[r]]

\* Requests are open only while a process waits, and the last iteration ends the loop.
Starting == Halted \cup {"barrier"}
Finishing == {"reduce", "end", "done"}
StagesOK ==
  \A p \in Process :
    /\ phase[p] \in Starting \cup {"solve", "wait"} \cup Finishing
    /\ iter[p] \in 0..nIters
    /\ phase[p] \in Starting => iter[p] = 0
    /\ phase[p] = "wait" => iter[p] < nIters
    /\ phase[p] \in Finishing => iter[p] = nIters
    /\ request[p] \subseteq {"recv", "send"} \X Sides(p)
    /\ phase[p] # "wait" => request[p] = {}

\* The array that the next iteration reads is complete: own cells, ghosts and zeros
\* around the domain. While a process waits the ghosts of the other are missing.
CellsRight ==
  \A p \in Process : phase[p] \notin Halted =>
    /\ \A d \in grid.halo[Here] : \A b \in {0, 1} : Global(p, d) \notin Domain => array[p][b][d] = Zero
    /\ \A k \in {"Compute", "Unpack"} : Holds(p, Here, k, iter[p])
    /\ phase[p] = "wait" => Holds(p, Here, "Compute", iter[p] + 1)

\* No cell is further than its block.
CellsInReach ==
  \A p \in Process : \A b \in {0, 1} : \A c \in grid.inside[Here] :
    IterationOf(array[p][b][c]) \in 0..Reach(p)

\* What a process has packed stays until all are done, as does what it has received.
BuffersRight ==
  \A p \in Process : \A f \in Sides(p) : phase[p] = "wait" =>
    /\ sendBuffer[<<p, Here, f>>] = Message(p, Here, f, iter[p])
    /\ <<"recv", f>> \notin request[p] =>
         recvBuffer[<<p, Here, f>>] = Message(Peer(p, f), Here, Opposite(f), iter[p])

\* Between two processes are the messages sent and not received, in order.
MailRight ==
  \A p \in Process : \A f \in Sides(p) :
    LET r == Completed(Peer(p, f), "recv", Opposite(f))
        s == Completed(p, "send", f) IN
    r <= s /\ mail[<<p, Peer(p, f), f>>] = Window(p, Here, f, r, s)

\* A process has the sum of its cells once it has left the loop, and the root in the
\* end that of all.
SumsGiven ==
  /\ \A p \in Process : phase[p] \in Finishing /\ (p # Root \/ phase[p] = "reduce") =>
       residual[p] = TotalOf(Cells(p, Here))
  /\ phase[Root] \in {"end", "done"} => residual[Root] = TotalOf(Domain)

MPIInv ==
  /\ OneBlock /\ TablesOK /\ StagesOK /\ CellsRight /\ OnlyRightValues /\ CellsInReach
  /\ WellFormed => BuffersRight /\ MailRight
  /\ SumsGiven

-----------------------------------------------------------------------------
(* What JacobiMPI says of its grid is what JacobiGrid says.                *)

LEMMA SameNames ==
  /\ MPI!Process = Process /\ MPI!nIters = nIters /\ MPI!RemoteFaces = RemoteFaces
  /\ MPI!WellFormed = WellFormed /\ MPI!Here = Here /\ MPI!Root = Root
  /\ \A p : MPI!RemoteFacesOf(p) = Sides(p)
  /\ \A p, f : MPI!NeighborId(p, f) = Peer(p, f)
  /\ \A f : MPI!SendTag(f) = f /\ MPI!RecvTag(f) = Opposite(f)
<1>1. MPI!Process = Process /\ MPI!nIters = nIters
  BY DEF MPI!Process, Process, MPI!nIters, nIters
<1>2. MPI!RemoteFaces = RemoteFaces
  BY DEF MPI!RemoteFaces, RemoteFaces, MPI!Process, Process, MPI!Local, Local, MPI!Faces, Faces
<1>3. MPI!WellFormed = WellFormed
  BY DEF MPI!WellFormed, WellFormed, MPI!Process, Process, MPI!Cardinality, Cardinality
<1>4. MPI!Here = Here /\ MPI!Root = Root
  BY DEF MPI!Here, Here, MPI!Root, Root
<1>5. \A p : MPI!RemoteFacesOf(p) = Sides(p)
  BY DEF MPI!RemoteFacesOf, Sides, MPI!Faces, Faces, MPI!Type, Type, MPI!Here, Here
<1>6. \A p, f : MPI!NeighborId(p, f) = Peer(p, f)
  BY DEF MPI!NeighborId, MPI!Neighbor, Neighbor, MPI!Here, Here, Peer
<1>7. \A f : MPI!SendTag(f) = f /\ MPI!RecvTag(f) = Opposite(f)
  BY DEF MPI!SendTag, MPI!RecvTag, MPI!Opposite, Opposite
<1> QED
  BY <1>1, <1>2, <1>3, <1>4, <1>5, <1>6, <1>7

LEMMA SameValues ==
  /\ \A p, l, from, to, it : MPI!Computed(p, l, from, to, it) = Computed(p, l, from, to, it)
  /\ \A u, l, f : MPI!Packed(u, l, f) = Packed(u, l, f)
  /\ \A u, l, m : MPI!Unpacked(u, l, m) = Unpacked(u, l, m)
  /\ \A u, c, v : MPI!Filled(u, c, v) = Filled(u, c, v)
  /\ \A p, l : MPI!LocalResidual(p, l) = LocalResidual(p, l)
  /\ \A i : MPI!ThisArray(i) = ThisArray(i) /\ MPI!NextArray(i) = NextArray(i)
  /\ MPI!One = One /\ MPI!Zero = Zero
<1>1. \A p, c, it : MPI!Expected(p, c, it) = Expected(p, c, it)
  BY DEF MPI!Expected, Expected, MPI!Global, Global, MPI!Domain, Domain, MPI!Value, Value,
         MPI!Zero, Zero, MPI!One, One
<1>2. \A p, u, c, it : MPI!Update(p, u, c, it) = Update(p, u, c, it)
  BY <1>1 DEF MPI!Update, Update, MPI!Global, Global, MPI!Value, Value, MPI!Wrong, Wrong, MPI!One, One
<1>3. \A p, l, from, to, it : MPI!Computed(p, l, from, to, it) = Computed(p, l, from, to, it)
  BY <1>2 DEF MPI!Computed, Computed
<1>4. \A u, l, f : MPI!Packed(u, l, f) = Packed(u, l, f)
  BY DEF MPI!Packed, Packed
<1>5. \A u, l, m : MPI!Unpacked(u, l, m) = Unpacked(u, l, m)
  BY DEF MPI!Unpacked, Unpacked
<1>6. \A u, c, v : MPI!Filled(u, c, v) = Filled(u, c, v)
  BY DEF MPI!Filled, Filled
<1>7. \A p, l : MPI!LocalResidual(p, l) = LocalResidual(p, l)
  BY DEF MPI!LocalResidual, LocalResidual, MPI!nIters, nIters, MPI!Cardinality, Cardinality
<1>8. \A i : MPI!ThisArray(i) = ThisArray(i) /\ MPI!NextArray(i) = NextArray(i)
  BY DEF MPI!ThisArray, ThisArray, MPI!NextArray, NextArray
<1>9. MPI!One = One /\ MPI!Zero = Zero
  BY DEF MPI!One, One, MPI!Zero, Zero
<1> QED
  BY <1>3, <1>4, <1>5, <1>6, <1>7, <1>8, <1>9

-----------------------------------------------------------------------------
(* The launch.                                                             *)

\* There is one block,
LEMMA OnlyBlock ==
  ASSUME NEW g \in Geometries, grid = Initialized(g), grid.lt = <<1, 1, 1>>
  PROVE  Local = {Here} /\ \A p \in Process : \A f \in Faces : Type(p, Here, f) # "LOCAL"
<1>1. g.lt = <<1, 1, 1>> /\ Local = D(g)!Local
  BY Fields, MoreFields
<1>2. D(g)!Local = Positions(g.lt)
  BY Shapes
<1>3. Local = {Here}
  BY <1>1, <1>2 DEF Positions, Here
<1>4. ASSUME NEW p \in Process, NEW f \in Faces PROVE Type(p, Here, f) # "LOCAL"
  <2>1. Type(p, Here, f) = D(g)!Type(p, Here, f)
    BY <1>3, Fields
  <2>2. f[1] \in 1..3
    BY DEF Faces
  <2>3. Here[f[1]] = 0 /\ g.lt[f[1]] = 1
    BY <1>1, <2>2 DEF Here
  <2>4. Here[f[1]] = D(g)!Edge(D(g)!lt, f)
    BY <2>3 DEF D!Edge, D!lt
  <2> QED
    BY <2>1, <2>4 DEF D!Type
<1> QED
  BY <1>3, <1>4

\* and behind a face is another process, which has this one behind the opposite face.
LEMMA PeerOf ==
  ASSUME NEW g, InUse(g), grid.lt = <<1, 1, 1>>, NEW p \in Process, NEW f \in Sides(p),
         NEW q, q = Peer(p, f), NEW h, h = Opposite(f)
  PROVE  /\ f \in Faces /\ Type(p, Here, f) = "REMOTE" /\ Neighbor(p, Here, f) = <<q, Here>>
         /\ q \in Process /\ h \in Sides(q) /\ Peer(q, h) = p /\ Opposite(h) = f
         /\ Local = {Here}
<1>1. Local = {Here}
  BY OnlyBlock DEF InUse, Decomposed
<1>2. f \in Faces /\ Type(p, Here, f) = "REMOTE"
  BY DEF Sides
<1> DEFINE m == Neighbor(p, Here, f)[2]
<1>3. Neighbor(p, Here, f) = <<q, m>>
  BY <1>1, <1>2, Fields DEF InUse, Peer
<1> HIDE DEF m
<1>4. /\ q \in Process /\ m \in Local /\ h \in Faces /\ Opposite(h) = f
      /\ Type(q, m, h) = "REMOTE" /\ Neighbor(q, m, h) = <<p, Here>>
  BY <1>1, <1>2, <1>3, RemoteNeighbor
<1>5. m = Here
  BY <1>1, <1>4
<1>6. h \in Sides(q) /\ Peer(q, h) = p
  BY <1>4, <1>5 DEF Sides, Peer
<1> QED
  BY <1>1, <1>2, <1>3, <1>4, <1>5, <1>6

\* A process that computes is in a divided grid.
LEMMA RunningGrid ==
  ASSUME GridOK, WellFormed
  PROVE  \E g : InUse(g)
<1>1. PICK g \in Geometries : grid = Initialized(g)
  BY DEF GridOK
<1>2. grid.divisible = D(g)!Divisible
  BY <1>1 DEF Initialized
<1> QED
  BY <1>1, <1>2 DEF WellFormed, InUse, Decomposed

\* All operators on the grid stay what they are.
LEMMA SameLaunch ==
  ASSUME grid' = grid
  PROVE  /\ Process' = Process /\ Local' = Local /\ nIters' = nIters /\ Domain' = Domain
         /\ RemoteFaces' = RemoteFaces /\ WellFormed' = WellFormed
         /\ \A p : Sides(p)' = Sides(p)
         /\ \A p, f : Peer(p, f)' = Peer(p, f)
         /\ \A p, c : Global(p, c)' = Global(p, c)
         /\ \A p, l, k : CellsOf(p, l, k)' = CellsOf(p, l, k)
         /\ \A p, l, f, n : Message(p, l, f, n)' = Message(p, l, f, n)
         /\ \A p, l, f, r, s : Window(p, l, f, r, s)' = Window(p, l, f, r, s)
         /\ \A p, l : Cells(p, l)' = Cells(p, l)
         /\ \A S : TotalOf(S)' = TotalOf(S)
<1>1. /\ Process' = Process /\ Local' = Local /\ nIters' = nIters /\ Domain' = Domain
      /\ RemoteFaces' = RemoteFaces
      /\ \A p, l, f : Type(p, l, f)' = Type(p, l, f) /\ Neighbor(p, l, f)' = Neighbor(p, l, f)
      /\ \A p, c : Global(p, c)' = Global(p, c)
      /\ \A p, l, k : CellsOf(p, l, k)' = CellsOf(p, l, k)
      /\ \A p, l, f, n : Message(p, l, f, n)' = Message(p, l, f, n)
  BY SameGrid
<1>2. WellFormed' = WellFormed
  BY SameGraph
<1>3. /\ \A p : Sides(p)' = Sides(p)
      /\ \A p, f : Peer(p, f)' = Peer(p, f)
  BY <1>1 DEF Sides, Peer
<1>4. \A p, l, f, r, s : Window(p, l, f, r, s)' = Window(p, l, f, r, s)
  BY <1>1 DEF Window
<1>5. /\ \A p, l : Cells(p, l)' = Cells(p, l)
      /\ \A S : TotalOf(S)' = TotalOf(S)
  BY SameShares
<1> QED
  BY <1>1, <1>2, <1>3, <1>4, <1>5

\* What holds of the program in every state, and of a process past the start.
LEMMA AlwaysOne ==
  ASSUME MPIInv
  PROVE  /\ nIters \in Nat /\ Local = {Here} /\ Root \in Process
         /\ \A p \in Process : iter[p] \in Nat /\ iter[p] <= nIters
         /\ \A p \in Process : \A f \in Faces : Type(p, Here, f) # "LOCAL"
<1>1. PICK g \in Geometries : grid = Initialized(g)
  BY DEF MPIInv, OneBlock, GridOK
<1>2. Local = {Here} /\ \A p \in Process : \A f \in Faces : Type(p, Here, f) # "LOCAL"
  BY <1>1, OnlyBlock DEF MPIInv, OneBlock
<1>3. nIters \in Nat
  BY <1>1, Fields, GeometryAssumption
<1>4. Root \in Process
  BY <1>1, RootIsProcess
<1>5. \A p \in Process : iter[p] \in 0..nIters
  BY DEF MPIInv, StagesOK
<1> QED
  BY <1>2, <1>3, <1>4, <1>5

LEMMA PastStart ==
  ASSUME MPIInv, NEW p \in Process, phase[p] \notin Halted
  PROVE  WellFormed /\ \E g : InUse(g)
<1>1. GridOK
  BY DEF MPIInv, OneBlock
<1>2. WellFormed
  BY <1>1 DEF GridOK, Halted
<1> QED
  BY <1>1, <1>2, RunningGrid

\* While no process writes its arrays, and none passes the start, their values stay right.
LEMMA ValuesKept ==
  ASSUME MPIInv, grid' = grid, array' = array, iter' = iter,
         \A p \in Process : phase'[p] \notin Halted => phase[p] \notin Halted,
         \A p \in Process : phase'[p] = "wait" <=> phase[p] = "wait"
  PROVE  CellsRight' /\ OnlyRightValues' /\ CellsInReach'
<1>1. /\ Process' = Process /\ Local' = Local /\ Domain' = Domain
      /\ \A p, c : Global(p, c)' = Global(p, c)
      /\ \A p, l, k : CellsOf(p, l, k)' = CellsOf(p, l, k)
  BY SameLaunch
<1>2. \A p, k, n : Holds(p, Here, k, n)' <=> Holds(p, Here, k, n)
  BY <1>1 DEF Holds
<1>3. CellsRight'
  BY <1>1, <1>2 DEF MPIInv, CellsRight
<1>4. OnlyRightValues'
  BY <1>1 DEF MPIInv, OnlyRightValues
<1>5. ASSUME NEW p \in Process PROVE Reach(p)' = Reach(p)
  BY DEF Reach
<1>6. CellsInReach'
  BY <1>1, <1>5 DEF MPIInv, CellsInReach, IterationOf
<1> QED
  BY <1>3, <1>4, <1>6

\* While no message moves and none is completed, those on the way are the right ones,
LEMMA MailKept ==
  ASSUME MPIInv, WellFormed, grid' = grid, mail' = mail,
         \A p \in Process : \A k \in {"recv", "send"} : \A f \in Sides(p) :
           Completed(p, k, f)' = Completed(p, k, f)
  PROVE  MailRight'
<1>1. PICK g : InUse(g)
  BY RunningGrid DEF MPIInv, OneBlock
<1>2. /\ Process' = Process
      /\ \A p : Sides(p)' = Sides(p)
      /\ \A p, f : Peer(p, f)' = Peer(p, f)
      /\ \A p, l, f, r, s : Window(p, l, f, r, s)' = Window(p, l, f, r, s)
  BY SameLaunch
<1>3. \A p \in Process : \A f \in Sides(p) :
        Peer(p, f) \in Process /\ Opposite(f) \in Sides(Peer(p, f))
  BY <1>1, PeerOf DEF MPIInv, OneBlock
<1> QED
  BY <1>2, <1>3 DEF MPIInv, MailRight

\* and if no process starts or ends an iteration either, so are those in the buffers.
LEMMA MessagesKept ==
  ASSUME MPIInv, WellFormed, grid' = grid, UNCHANGED <<iter, request, sendBuffer, recvBuffer, mail>>,
         \A p \in Process : phase'[p] = "wait" <=> phase[p] = "wait"
  PROVE  BuffersRight' /\ MailRight'
<1>1. /\ Process' = Process
      /\ \A p : Sides(p)' = Sides(p)
      /\ \A p, f : Peer(p, f)' = Peer(p, f)
      /\ \A p, l, f, n : Message(p, l, f, n)' = Message(p, l, f, n)
  BY SameLaunch
<1>2. BuffersRight'
  BY <1>1 DEF MPIInv, BuffersRight
<1>3. ASSUME NEW p \in Process PROVE \A k, f : Completed(p, k, f)' = Completed(p, k, f)
  BY DEF Completed
<1> QED
  BY <1>2, <1>3, MailKept

\* The steps of the main threads outside of an iteration.
Moves(p) ==
  \/ phase'[p] = phase[p]
  \/ phase[p] \in Halted /\ phase'[p] = "aborted"
  \/ phase[p] = "barrier" /\ phase'[p] = "solve"
  \/ phase[p] = "solve" /\ phase'[p] \in {"reduce", "end"} /\ iter[p] = nIters
  \/ phase[p] = "reduce" /\ phase'[p] = "end"
  \/ phase[p] = "end" /\ phase'[p] = "done"

LEMMA MovesKeep ==
  ASSUME MPIInv, grid' = grid, array' = array,
         UNCHANGED <<iter, request, sendBuffer, recvBuffer, mail>>,
         DOMAIN phase' = Process, residual' = [p \in Process |-> residual'[p]],
         \A p \in Process : Moves(p), SumsGiven'
  PROVE  MPIInv'
<1>1. /\ Process' = Process /\ nIters' = nIters /\ RemoteFaces' = RemoteFaces /\ WellFormed' = WellFormed
      /\ \A p : Sides(p)' = Sides(p)
  BY SameLaunch
<1>2. ASSUME NEW p \in Process
      PROVE  /\ phase'[p] \notin Halted => phase[p] \notin Halted
             /\ phase'[p] = "wait" <=> phase[p] = "wait"
  BY DEF Moves, Halted
<1>3. OneBlock'
  <2>1. GridOK'
    BY <1>1, <1>2 DEF MPIInv, OneBlock, GridOK, Halted
  <2> QED
    BY <2>1 DEF MPIInv, OneBlock
<1>4. TablesOK'
  BY <1>1 DEF MPIInv, TablesOK
<1>5. StagesOK'
  <2> SUFFICES ASSUME NEW p \in Process
               PROVE  /\ phase'[p] \in Starting \cup {"solve", "wait"} \cup Finishing
                      /\ phase'[p] \in Starting => iter[p] = 0
                      /\ phase'[p] = "wait" => iter[p] < nIters
                      /\ phase'[p] \in Finishing => iter[p] = nIters
                      /\ phase'[p] # "wait" => request[p] = {}
    BY <1>1 DEF MPIInv, StagesOK, Starting, Finishing, Halted
  <2> QED
    BY DEF Moves, MPIInv, StagesOK, Starting, Finishing, Halted
<1>6. CellsRight' /\ OnlyRightValues' /\ CellsInReach'
  BY <1>2, ValuesKept
<1>7. WellFormed' => BuffersRight' /\ MailRight'
  BY <1>1, <1>2, MessagesKept
<1> QED
  BY <1>3, <1>4, <1>5, <1>6, <1>7 DEF MPIInv

-----------------------------------------------------------------------------
(* The main threads.                                                       *)

\* A launch that is not well-formed has not passed the check,
LEMMA AbortKeeps ==
  ASSUME MPIInv, MPI!AbortLaunch
  PROVE  MPIInv'
<1>1. /\ MPI!Process = Process /\ MPI!WellFormed = WellFormed
  BY SameNames
<1>2. /\ ~WellFormed /\ phase' = [p \in Process |-> "aborted"] /\ UNCHANGED <<grid, array, residual>>
      /\ UNCHANGED <<iter, request, sendBuffer, recvBuffer, mail>>
  BY <1>1 DEF MPI!AbortLaunch, MPI!Abort, MPI!mpiVars
<1>3. \A p \in Process : phase[p] \in Halted
  BY <1>2 DEF MPIInv, OneBlock, GridOK, Halted
<1>4. Process' = Process /\ Root \in Process
  BY <1>2, SameLaunch, AlwaysOne
<1>5. SumsGiven'
  BY <1>2, <1>4 DEF SumsGiven, Finishing, Root
<1>6. residual' = [p \in Process |-> residual'[p]]
  BY <1>2 DEF MPIInv, TablesOK
<1> QED
  BY <1>2, <1>3, <1>5, <1>6, MovesKeep DEF Moves

\* and the barriers move all processes at once.
LEMMA BarrierKeeps ==
  ASSUME MPIInv, MPI!Barrier \/ MPI!EndBarrier
  PROVE  MPIInv'
<1>1. MPI!Process = Process
  BY SameNames
<1>2. /\ UNCHANGED <<grid, array, residual>> /\ UNCHANGED <<iter, request, sendBuffer, recvBuffer, mail>>
      /\ \/ (\A p \in Process : phase[p] = "barrier") /\ phase' = [p \in Process |-> "solve"]
         \/ (\A p \in Process : phase[p] = "end") /\ phase' = [p \in Process |-> "done"]
  BY <1>1 DEF MPI!Barrier, MPI!EndBarrier, MPI!Collectively, MPI!mpiVars
<1>3. Process' = Process /\ Root \in Process /\ Domain' = Domain
      /\ (\A p, l : Cells(p, l)' = Cells(p, l)) /\ (\A S : TotalOf(S)' = TotalOf(S))
  BY <1>2, SameLaunch, AlwaysOne
<1>4. SumsGiven'
  <2>1. CASE \A p \in Process : phase'[p] = "solve"
    BY <1>3, <2>1 DEF SumsGiven, Finishing, Root
  <2>2. CASE \A p \in Process : phase[p] = "end" /\ phase'[p] = "done"
    <3>1. residual[Root] = TotalOf(Domain)
      BY <1>3, <2>2 DEF MPIInv, SumsGiven
    <3>2. \A p \in Process \ {Root} : residual[p] = TotalOf(Cells(p, Here))
      BY <2>2 DEF MPIInv, SumsGiven, Finishing
    <3> QED
      BY <1>2, <1>3, <2>2, <3>1, <3>2 DEF SumsGiven, Root
  <2> QED
    BY <1>2, <2>1, <2>2
<1>5. residual' = [p \in Process |-> residual'[p]]
  BY <1>2 DEF MPIInv, TablesOK
<1>6. DOMAIN phase' = Process /\ \A p \in Process : Moves(p)
  BY <1>2 DEF Moves
<1> QED
  BY <1>2, <1>4, <1>5, <1>6, MovesKeep

\* A process that leaves the loop has the values of the last iteration.
LEMMA GiveKeeps ==
  ASSUME MPIInv, NEW p \in Process, MPI!GiveResidual(p)
  PROVE  MPIInv'
<1>1. /\ MPI!nIters = nIters /\ MPI!Root = Root /\ MPI!Here = Here
      /\ MPI!LocalResidual(p, Here) = LocalResidual(p, Here)
  BY SameNames, SameValues
<1>2. /\ iter[p] = nIters /\ phase[p] = "solve"
      /\ phase' = [phase EXCEPT ![p] = IF p = Root THEN "reduce" ELSE "end"]
      /\ residual' = [residual EXCEPT ![p] = LocalResidual(p, Here)]
      /\ UNCHANGED <<grid, array>> /\ UNCHANGED <<iter, request, sendBuffer, recvBuffer, mail>>
  BY <1>1 DEF MPI!GiveResidual, MPI!Goto, MPI!mpiVars
<1>3. Process' = Process /\ Root \in Process /\ Domain' = Domain
      /\ (\A q, l : Cells(q, l)' = Cells(q, l)) /\ (\A S : TotalOf(S)' = TotalOf(S))
  BY <1>2, SameLaunch, AlwaysOne
<1>4. /\ \A q \in Process : q # p => phase'[q] = phase[q] /\ residual'[q] = residual[q]
      /\ phase'[p] = (IF p = Root THEN "reduce" ELSE "end") /\ residual'[p] = LocalResidual(p, Here)
      /\ DOMAIN phase' = Process /\ residual' = [q \in Process |-> residual'[q]]
  BY <1>2 DEF MPIInv, TablesOK
<1>5. LocalResidual(p, Here) = TotalOf(Cells(p, Here))
  <2>1. PICK g : InUse(g)
    BY <1>2, PastStart DEF Halted
  <2>2. Holds(p, Here, "Compute", nIters)
    BY <1>2 DEF MPIInv, CellsRight, Halted
  <2>3. \A c \in grid.inside[Here] : array[p][nIters % 2][c] = Value(Global(p, c), nIters)
    BY <2>2 DEF Holds, CellsOf, ThisArray
  <2>4. {array[p][nIters % 2][c] : c \in grid.inside[Here]} = {Value(c, nIters) : c \in Cells(p, Here)}
    <3>1. {array[p][nIters % 2][c] : c \in grid.inside[Here]}
            = {Value(Global(p, c), nIters) : c \in grid.inside[Here]}
      BY <2>3
    <3>2. {Value(Global(p, c), nIters) : c \in grid.inside[Here]} = {Value(c, nIters) : c \in Cells(p, Here)}
      BY DEF Cells
    <3> QED
      BY <3>1, <3>2
  <2>5. Here \in Local
    BY AlwaysOne
  <2> QED
    BY <2>1, <2>4, <2>5, CellsCounted DEF LocalResidual, TotalOf
<1>6. SumsGiven'
  <2>1. ASSUME NEW q \in Process, phase'[q] \in Finishing, q # Root \/ phase'[q] = "reduce"
        PROVE  residual'[q] = TotalOf(Cells(q, Here))
    BY <1>4, <1>5, <2>1 DEF MPIInv, SumsGiven
  <2>2. phase'[Root] \in {"end", "done"} => p # Root /\ residual'[Root] = TotalOf(Domain)
    BY <1>3, <1>4 DEF MPIInv, SumsGiven
  <2> QED
    BY <1>3, <2>1, <2>2 DEF SumsGiven, Root
<1>7. \A q \in Process : Moves(q)
  BY <1>2, <1>4 DEF Moves
<1> QED
  BY <1>2, <1>4, <1>6, <1>7, MovesKeep

\* The cells of the blocks are those of the domain, and each block has as many.
LEMMA DomainCounted ==
  ASSUME NEW g, InUse(g), Local = {Here}
  PROVE  /\ UNION {Cells(p, Here) : p \in Process} = Domain
         /\ Cardinality(Process) * Cardinality(grid.inside[Here]) = Cardinality(Domain)
<1>1. Here \in Local /\ \A p : Share(p) = Cells(p, Here)
  BY DEF Share
<1>2. UNION {Cells(p, Here) : p \in Process} = Domain
  BY <1>1, DomainShared
<1>3. Root \in Process /\ IsFiniteSet(Process)
  BY RootIsProcess DEF InUse, Decomposed
<1>4. IsFiniteSet(grid.inside[Here])
  <2> DEFINE f == [c \in grid.inside[Here] |-> Global(Root, c)]
  <2>1. \A c, d \in grid.inside[Here] : Global(Root, c) = Global(Root, d) => c = d
    BY <1>1, <1>3, SamePlaces
  <2>2. \A c \in grid.inside[Here] : Global(Root, c) \in Cells(Root, Here)
    BY DEF Cells
  <2>3. f \in Injection(grid.inside[Here], Cells(Root, Here))
    BY <2>1, <2>2 DEF Injection, IsInjective
  <2>4. IsFiniteSet(Cells(Root, Here))
    BY <1>1, <1>3, CellsCounted
  <2> HIDE DEF f
  <2> QED
    BY <2>3, <2>4, FS_Injection
<1> DEFINE S == Process \X grid.inside[Here]
           f == [s \in S |-> Global(s[1], s[2])]
<1>5. IsFiniteSet(S) /\ Cardinality(S) = Cardinality(Process) * Cardinality(grid.inside[Here])
  BY <1>3, <1>4, FS_Product
<1>6. f \in Injection(S, Domain)
  <2>1. ASSUME NEW s \in S, NEW t \in S, Global(s[1], s[2]) = Global(t[1], t[2]) PROVE s = t
    <3>1. s[1] = t[1] /\ s[2] = t[2]
      BY <1>1, <2>1, SamePlaces
    <3> QED
      BY <3>1
  <2>2. ASSUME NEW s \in S PROVE Global(s[1], s[2]) \in Domain
    BY <1>1, InsideKnown
  <2> QED
    BY <2>1, <2>2 DEF Injection, IsInjective
<1>7. f \in Surjection(S, Domain)
  <2>1. ASSUME NEW e \in Domain PROVE \E s \in S : f[s] = e
    <3>1. PICK p \in Process : e \in Cells(p, Here)
      BY <1>2
    <3>2. PICK c \in grid.inside[Here] : e = Global(p, c)
      BY <3>1 DEF Cells
    <3>3. <<p, c>> \in S /\ f[<<p, c>>] = e
      BY <3>2
    <3> QED
      BY <3>3
  <2>2. f \in [S -> Domain]
    BY <1>6 DEF Injection
  <2> HIDE DEF f, S
  <2> QED
    BY <2>1, <2>2 DEF Surjection
<1> HIDE DEF f, S
<1>8. Cardinality(S) = Cardinality(Domain)
  BY <1>5, <1>6, <1>7, FS_Surjection
<1> QED
  BY <1>2, <1>5, <1>8

\* So the root, which has its own sum and those of all others, gets that of the domain.
LEMMA ReduceKeeps ==
  ASSUME MPIInv, MPI!Reduce
  PROVE  MPIInv'
<1>1. MPI!Process = Process /\ MPI!Root = Root /\ MPI!Here = Here
  BY SameNames
<1>2. /\ \A p \in Process \ {Root} : phase[p] = "end"
      /\ phase[Root] = "reduce" /\ phase' = [phase EXCEPT ![Root] = "end"]
      /\ residual' = [residual EXCEPT ![Root] =
            [values |-> UNION {residual[p].values : p \in Process},
             terms  |-> Cardinality(Process) * Cardinality(grid.inside[Here])]]
      /\ UNCHANGED <<grid, array>> /\ UNCHANGED <<iter, request, sendBuffer, recvBuffer, mail>>
  BY <1>1 DEF MPI!Reduce, MPI!Goto, MPI!mpiVars, MPI!Cardinality, Cardinality
<1>3. Process' = Process /\ Root \in Process /\ Domain' = Domain /\ Local = {Here}
      /\ (\A q, l : Cells(q, l)' = Cells(q, l)) /\ (\A S : TotalOf(S)' = TotalOf(S))
  BY <1>2, SameLaunch, AlwaysOne
<1>4. PICK g : InUse(g)
  BY <1>2, <1>3, PastStart DEF Halted
<1>5. ASSUME NEW p \in Process PROVE residual[p] = TotalOf(Cells(p, Here))
  <2>1. phase[p] \in Finishing /\ (p # Root \/ phase[p] = "reduce")
    BY <1>2 DEF Finishing
  <2> QED
    BY <2>1 DEF MPIInv, SumsGiven
<1>6. UNION {residual[p].values : p \in Process} = {Value(c, nIters) : c \in Domain}
  <2>1. ASSUME NEW p \in Process PROVE residual[p].values = {Value(c, nIters) : c \in Cells(p, Here)}
    <3>1. residual[p] = [values |-> {Value(c, nIters) : c \in Cells(p, Here)},
                         terms  |-> Cardinality(Cells(p, Here))]
      BY <1>5 DEF TotalOf
    <3> QED
      BY <3>1
  <2>2. UNION {Cells(p, Here) : p \in Process} = Domain
    BY <1>3, <1>4, DomainCounted
  <2> QED
    BY <2>1, <2>2
<1>7. /\ \A q \in Process : q # Root => phase'[q] = phase[q] /\ residual'[q] = residual[q]
      /\ phase'[Root] = "end"
      /\ residual'[Root] = [values |-> UNION {residual[p].values : p \in Process},
                            terms  |-> Cardinality(Process) * Cardinality(grid.inside[Here])]
      /\ DOMAIN phase' = Process /\ residual' = [q \in Process |-> residual'[q]]
  BY <1>2, <1>3 DEF MPIInv, TablesOK
<1>8. residual'[Root] = TotalOf(Domain)
  BY <1>3, <1>4, <1>6, <1>7, DomainCounted DEF TotalOf
<1>9. SumsGiven'
  BY <1>3, <1>5, <1>7, <1>8 DEF SumsGiven, Root
<1>10. \A q \in Process : Moves(q)
  BY <1>2, <1>7 DEF Moves
<1> QED
  BY <1>2, <1>7, <1>9, <1>10, MovesKeep

\* A process resets its arrays: 1.0 in all cells of the domain, 0.0 around it.
LEMMA ResetKeeps ==
  ASSUME MPIInv, NEW p \in Process, MPI!Reset(p)
  PROVE  MPIInv'
<1> PICK x : x = Filled(Filled(array[p], grid.halo[Here], One), grid.outside[<<p, Here>>], Zero)
  OBVIOUS
<1>1. /\ MPI!WellFormed = WellFormed /\ MPI!Here = Here
      /\ MPI!Filled(MPI!Filled(array[p], grid.halo[Here], One), grid.outside[<<p, Here>>], Zero) = x
      /\ MPI!One = One /\ MPI!Zero = Zero
  BY SameNames, SameValues
<1>2. /\ WellFormed /\ phase[p] = "launch" /\ phase' = [phase EXCEPT ![p] = "barrier"]
      /\ array' = [array EXCEPT ![p] = x] /\ UNCHANGED <<grid, residual>>
      /\ UNCHANGED <<iter, request, sendBuffer, recvBuffer, mail>>
  BY <1>1 DEF MPI!Reset, MPI!Goto, MPI!mpiVars
<1>3. PICK g : InUse(g)
  BY <1>2, RunningGrid DEF MPIInv, OneBlock
<1>4. /\ Process' = Process /\ Local' = Local /\ nIters' = nIters /\ RemoteFaces' = RemoteFaces
      /\ WellFormed' = WellFormed /\ Domain' = Domain /\ \A q : Sides(q)' = Sides(q)
      /\ \A q, c : Global(q, c)' = Global(q, c)
      /\ \A q, l, k : CellsOf(q, l, k)' = CellsOf(q, l, k)
      /\ (\A q, l : Cells(q, l)' = Cells(q, l)) /\ (\A S : TotalOf(S)' = TotalOf(S))
  BY <1>2, SameLaunch
<1>5. /\ Local = {Here} /\ Here \in Local /\ Root \in Process /\ iter[p] = 0
      /\ \A q \in Process : iter[q] \in Nat
  BY <1>2, AlwaysOne DEF MPIInv, StagesOK, Starting, Halted
<1>6. /\ \A q \in Process : q # p => phase'[q] = phase[q] /\ array'[q] = array[q]
      /\ phase'[p] = "barrier" /\ array'[p] = x
      /\ DOMAIN phase' = Process /\ array' = [q \in Process |-> array'[q]]
  BY <1>2 DEF MPIInv, TablesOK
<1>7. x = [b \in {0, 1} |-> x[b]]
  BY DEF Filled
<1>8. ASSUME NEW b \in {0, 1}, NEW d \in grid.halo[Here]
      PROVE  x[b][d] = IF Global(p, d) \in Domain THEN One ELSE Zero
  <2>1. d \in grid.cell /\ (d \in grid.outside[<<p, Here>>] <=> Global(p, d) \notin Domain)
    BY <1>3, <1>5, HaloKnown
  <2> QED
    BY <2>1 DEF Filled
<1>9. ASSUME NEW q \in Process PROVE phase'[q] = "wait" <=> phase[q] = "wait"
  BY <1>2, <1>6
<1>10. OneBlock' /\ TablesOK'
  <2>1. GridOK'
    BY <1>2, <1>4 DEF MPIInv, OneBlock, GridOK
  <2>2. \A q \in Process : array'[q] = [b \in {0, 1} |-> array'[q][b]]
    BY <1>6, <1>7 DEF MPIInv, TablesOK
  <2>3. array' = [q \in Process |-> array'[q]] /\ DOMAIN phase' = Process
    BY <1>6
  <2>4. TablesOK'
    <3>1. TablesOK
      BY DEF MPIInv
    <3> HIDE DEF MPIInv
    <3> QED
      BY <1>2, <1>4, <2>2, <2>3, <3>1 DEF TablesOK
  <2> QED
    BY <1>2, <2>1, <2>4 DEF MPIInv, OneBlock
<1>11. StagesOK'
  BY <1>2, <1>4, <1>5, <1>6 DEF MPIInv, StagesOK, Starting, Finishing, Halted
<1>12. CellsRight'
  <2>1. ASSUME NEW k \in {"Compute", "Unpack"} PROVE Holds(p, Here, k, 0)'
    <3>1. ASSUME NEW c \in CellsOf(p, Here, k) PROVE x[ThisArray(0)][c] = Value(Global(p, c), 0)
      <4>1. Global(p, c) \in Domain /\ c \in grid.halo[Here]
        BY <1>3, <1>5, CellsKnown
      <4> QED
        BY <1>8, <4>1, TwoArrays DEF Value
    <3> QED
      BY <1>4, <1>6, <3>1 DEF Holds
  <2>2. ASSUME NEW q \in Process, q # p, NEW k, NEW n, Holds(q, Here, k, n) PROVE Holds(q, Here, k, n)'
    BY <1>4, <1>6, <2>2 DEF Holds
  <2>3. ASSUME NEW q \in Process, phase'[q] \notin Halted
        PROVE  /\ \A d \in grid.halo[Here] : \A b \in {0, 1} :
                    Global(q, d) \notin Domain => array'[q][b][d] = Zero
               /\ \A k \in {"Compute", "Unpack"} : Holds(q, Here, k, iter[q])'
               /\ phase'[q] = "wait" => Holds(q, Here, "Compute", iter[q] + 1)'
    <3>1. CASE q = p
      <4>1. \A d \in grid.halo[Here] : \A b \in {0, 1} : Global(q, d) \notin Domain => array'[q][b][d] = Zero
        BY <1>6, <1>8, <3>1
      <4> QED
        BY <1>2, <1>5, <1>6, <2>1, <3>1, <4>1
    <3>2. CASE q # p
      BY <1>2, <1>6, <2>2, <2>3, <3>2 DEF MPIInv, CellsRight
    <3> QED
      BY <3>1, <3>2
  <2>4. /\ grid' = grid /\ Process' = Process /\ Domain' = Domain
        /\ \A q, c : Global(q, c)' = Global(q, c)
    BY <1>2, <1>4
  <2> QED
    BY ONLY <2>3, <2>4 DEF CellsRight
<1>13. ASSUME NEW q \in Process, NEW b \in {0, 1}, NEW c \in grid.inside[Here]
       PROVE  array'[q][b][c] = array[q][b][c] \/ array'[q][b][c] = One
  <2>1. Global(p, c) \in Domain /\ c \in grid.halo[Here]
    BY <1>3, <1>5, InsideKnown
  <2> QED
    BY <1>6, <1>8, <2>1
<1>14. OnlyRightValues'
  <2> SUFFICES ASSUME NEW q \in Process, NEW b \in {0, 1}, NEW c \in grid.inside[Here],
                      NEW v, v = array'[q][b][c]
               PROVE  v \in {One, Unset} \/ v = Value(Global(q, c), IterationOf(v))
    BY <1>2, <1>4, <1>5 DEF OnlyRightValues
  <2> QED
    BY <1>5, <1>13 DEF MPIInv, OnlyRightValues
<1>15. CellsInReach'
  <2>1. ASSUME NEW q \in Process PROVE Reach(q)' = Reach(q) /\ Reach(q) \in Nat
    BY <1>2, <1>5, <1>9 DEF Reach
  <2>2. ASSUME NEW q \in Process, NEW b \in {0, 1}, NEW c \in grid.inside[Here]
        PROVE  IterationOf(array'[q][b][c]) \in 0..Reach(q)
    <3>1. IterationOf(array[q][b][c]) \in 0..Reach(q)
      BY DEF MPIInv, CellsInReach
    <3>2. IterationOf(One) \in 0..Reach(q)
      BY <2>1, IterationOfValues
    <3> QED
      BY <1>13, <3>1, <3>2
  <2>3. grid' = grid /\ Process' = Process
    BY <1>2, <1>4
  <2> QED
    BY ONLY <2>1, <2>2, <2>3 DEF CellsInReach, IterationOf
<1>16. BuffersRight' /\ MailRight'
  BY <1>2, <1>9, MessagesKept
<1>17. SumsGiven'
  <2>1. ASSUME NEW q \in Process, phase'[q] \in Finishing, q # Root \/ phase'[q] = "reduce"
        PROVE  residual'[q] = TotalOf(Cells(q, Here))
    BY <1>2, <1>6, <2>1 DEF MPIInv, SumsGiven, Finishing
  <2>2. phase'[Root] \in {"end", "done"} => residual'[Root] = TotalOf(Domain)
    BY <1>2, <1>5, <1>6 DEF MPIInv, SumsGiven
  <2> QED
    BY <1>4, <2>1, <2>2 DEF SumsGiven, Root
<1> QED
  BY <1>10, <1>11, <1>12, <1>14, <1>15, <1>16, <1>17 DEF MPIInv

-----------------------------------------------------------------------------
(* An iteration.                                                           *)

\* What a process that computes or unpacks does to the arrays: cells of kind k get their
\* values of the next iteration.
WritesNext(p, k, it) ==
  /\ \A q \in Process : \A b \in {0, 1} : \A c \in grid.cell :
       \/ array'[q][b][c] = array[q][b][c]
       \/ q = p /\ b = NextArray(it) /\ c \in CellsOf(p, Here, k)
  /\ \A c \in CellsOf(p, Here, k) : array'[p][NextArray(it)][c] = Value(Global(p, c), it + 1)

LEMMA CellsWritten ==
  ASSUME MPIInv, NEW g, InUse(g), grid' = grid, NEW p \in Process, NEW k \in {"Compute", "Unpack"},
         NEW it \in Nat, WritesNext(p, k, it)
  PROVE  /\ \A q \in Process : \A d \in grid.halo[Here] : \A b \in {0, 1} :
              Global(q, d) \notin Domain => array'[q][b][d] = array[q][b][d]
         /\ \A q \in Process : \A h \in {"Compute", "Unpack"} : \A n \in Nat :
              (q # p \/ h # k \/ n = it) /\ Holds(q, Here, h, n) => Holds(q, Here, h, n)'
         /\ Holds(p, Here, k, it + 1)'
         /\ OnlyRightValues'
         /\ \A q \in Process : \A b \in {0, 1} : \A c \in grid.inside[Here] :
              \/ array'[q][b][c] = array[q][b][c]
              \/ q = p /\ k = "Compute" /\ IterationOf(array'[q][b][c]) = it + 1
<1>1. Local = {Here} /\ Here \in Local
  BY AlwaysOne
<1>2. /\ Process' = Process /\ Local' = Local
      /\ \A q, c : Global(q, c)' = Global(q, c)
      /\ \A q, l, h : CellsOf(q, l, h)' = CellsOf(q, l, h)
  BY SameLaunch
<1>3. ASSUME NEW q \in Process, NEW d \in grid.halo[Here], NEW b \in {0, 1}, Global(q, d) \notin Domain
      PROVE  array'[q][b][d] = array[q][b][d]
  <2>1. d \in grid.cell
    BY <1>1, HaloKnown
  <2>2. q # p \/ d \notin CellsOf(p, Here, k)
    BY <1>1, <1>3, CellsKnown
  <2> QED
    BY <2>1, <2>2 DEF WritesNext
<1>4. ASSUME NEW q \in Process, NEW h \in {"Compute", "Unpack"}, NEW n \in Nat,
             q # p \/ h # k \/ n = it, Holds(q, Here, h, n)
      PROVE  Holds(q, Here, h, n)'
  <2>1. ASSUME NEW c \in CellsOf(q, Here, h) PROVE array'[q][ThisArray(n)][c] = array[q][ThisArray(n)][c]
    <3>1. c \in grid.cell /\ ThisArray(n) \in {0, 1} /\ ThisArray(it) # NextArray(it)
      BY <1>1, CellsKnown, TwoArrays
    <3>2. q # p \/ c \notin CellsOf(p, Here, k) \/ ThisArray(n) # NextArray(it)
      <4>1. CASE q # p \/ n = it
        BY <3>1, <4>1
      <4>2. CASE q = p /\ h # k
        BY <1>1, <4>2, CellsApart
      <4> QED
        BY <1>4, <4>1, <4>2
    <3> QED
      BY <3>1, <3>2 DEF WritesNext
  <2> QED
    BY <1>2, <1>4, <2>1 DEF Holds
<1>5. Holds(p, Here, k, it + 1)'
  <2>1. NextArray(it) = ThisArray(it + 1)
    BY TwoArrays
  <2> QED
    BY <1>2, <2>1 DEF WritesNext, Holds
<1>6. ASSUME NEW q \in Process, NEW b \in {0, 1}, NEW c \in grid.inside[Here]
      PROVE  \/ array'[q][b][c] = array[q][b][c]
             \/ q = p /\ k = "Compute" /\ array'[q][b][c] = Value(Global(p, c), it + 1)
  <2>1. c \in grid.cell /\ c \in CellsOf(p, Here, "Compute")
    BY <1>1, InsideKnown DEF CellsOf
  <2>2. k = "Unpack" => c \notin CellsOf(p, Here, k)
    BY <1>1, <2>1, CellsApart
  <2> QED
    BY <2>1, <2>2 DEF WritesNext
<1>7. OnlyRightValues'
  <2> SUFFICES ASSUME NEW q \in Process, NEW b \in {0, 1}, NEW c \in grid.inside[Here],
                      NEW v, v = array'[q][b][c]
               PROVE  v \in {One, Unset} \/ v = Value(Global(q, c), IterationOf(v))
    BY <1>1, <1>2 DEF OnlyRightValues
  <2>1. CASE v = array[q][b][c]
    BY <1>1, <2>1 DEF MPIInv, OnlyRightValues
  <2>2. CASE q = p /\ v = Value(Global(p, c), it + 1)
    <3>1. it + 1 \in Nat
      OBVIOUS
    <3> QED
      BY <2>2, <3>1, ValueOfIteration
  <2> QED
    BY <1>6, <2>1, <2>2
<1>8. ASSUME NEW q \in Process, NEW b \in {0, 1}, NEW c \in grid.inside[Here]
      PROVE  \/ array'[q][b][c] = array[q][b][c]
             \/ q = p /\ k = "Compute" /\ IterationOf(array'[q][b][c]) = it + 1
  <2>1. it + 1 \in Nat
    OBVIOUS
  <2> QED
    BY <1>6, <2>1, IterationOfValues
<1> QED
  BY <1>3, <1>4, <1>5, <1>7, <1>8

\* All that an update reads is in the array of this iteration.
LEMMA NextValue ==
  ASSUME MPIInv, NEW g, InUse(g), NEW p \in Process, phase[p] \notin Halted, NEW c \in grid.inside[Here]
  PROVE  Update(p, array[p][ThisArray(iter[p])], c, iter[p]) = Value(Global(p, c), iter[p] + 1)
<1>1. Local = {Here} /\ Here \in Local /\ iter[p] \in Nat
  BY AlwaysOne
<1>2. ThisArray(iter[p]) \in {0, 1}
  BY <1>1, TwoArrays
<1> SUFFICES ASSUME NEW d \in grid.stencil[c]
             PROVE  array[p][ThisArray(iter[p])][d] = Expected(p, d, iter[p])
  BY DEF Update
<1>3. /\ d \in grid.halo[Here]
      /\ Global(p, d) \notin Domain \/ d \in CellsOf(p, Here, "Unpack") \/ d \in CellsOf(p, Here, "Compute")
  <2>1. /\ d \in grid.halo[Here]
        /\ \/ Global(p, d) \notin Domain
           \/ d \in Ghosts(p, Here)
           \/ \E m \in Local : /\ d \in grid.inside[m]
                               /\ \/ m = Here
                                  \/ m \in LocalNeighbors(p, Here) /\ Here \in LocalNeighbors(p, m)
    BY <1>1, StencilKnown
  <2> QED
    BY <1>1, <2>1 DEF CellsOf
<1>4. CASE Global(p, d) \notin Domain
  <2>1. array[p][ThisArray(iter[p])][d] = Zero
    BY <1>2, <1>3, <1>4 DEF MPIInv, CellsRight
  <2> QED
    BY <1>4, <2>1 DEF Expected
<1>5. ASSUME NEW k \in {"Compute", "Unpack"}, d \in CellsOf(p, Here, k)
      PROVE  array[p][ThisArray(iter[p])][d] = Expected(p, d, iter[p])
  <2>1. Holds(p, Here, k, iter[p])
    BY DEF MPIInv, CellsRight
  <2>2. Global(p, d) \in Domain
    BY <1>1, <1>5, CellsKnown
  <2> QED
    BY <1>5, <2>1, <2>2 DEF Holds, Expected
<1> QED
  BY <1>3, <1>4, <1>5

\* The sweep, and the faces packed.
LEMMA ComputeKeeps ==
  ASSUME MPIInv, NEW p \in Process, MPI!ComputeAndPost(p)
  PROVE  MPIInv'
<1> PICK it, a, b, new : /\ it = iter[p] /\ a = ThisArray(it) /\ b = NextArray(it)
                         /\ new = Computed(p, Here, a, b, it)
  OBVIOUS
<1>1. /\ MPI!nIters = nIters /\ MPI!Here = Here /\ MPI!RemoteFaces = RemoteFaces
      /\ MPI!RemoteFacesOf(p) = Sides(p) /\ MPI!ThisArray(it) = a /\ MPI!NextArray(it) = b
      /\ MPI!Computed(p, Here, a, b, it) = new
      /\ \A u, l, f : MPI!Packed(u, l, f) = Packed(u, l, f)
  BY SameNames, SameValues
<1>2. /\ phase[p] = "solve" /\ it < nIters /\ phase' = [phase EXCEPT ![p] = "wait"]
      /\ array' = [array EXCEPT ![p] = new]
      /\ sendBuffer' = [r \in RemoteFaces |->
            IF r[1] = p THEN Packed(new[b], Here, r[3]) ELSE sendBuffer[r]]
      /\ request' = [request EXCEPT ![p] = {"recv", "send"} \X Sides(p)]
      /\ UNCHANGED <<grid, residual, iter, recvBuffer, mail>>
  BY <1>1 DEF MPI!ComputeAndPost
<1>3. WellFormed /\ \E g : InUse(g)
  BY <1>2, PastStart DEF Halted
<1> PICK g : InUse(g)
  BY <1>3
<1>4. /\ Process' = Process /\ Local' = Local /\ nIters' = nIters /\ RemoteFaces' = RemoteFaces
      /\ WellFormed' = WellFormed /\ Domain' = Domain /\ \A q : Sides(q)' = Sides(q)
      /\ \A q, f : Peer(q, f)' = Peer(q, f)
      /\ \A q, c : Global(q, c)' = Global(q, c)
      /\ \A q, l, f, n : Message(q, l, f, n)' = Message(q, l, f, n)
      /\ (\A q, l : Cells(q, l)' = Cells(q, l)) /\ (\A S : TotalOf(S)' = TotalOf(S))
  BY <1>2, SameLaunch
<1>5. /\ Local = {Here} /\ Here \in Local /\ Root \in Process /\ it \in Nat /\ nIters \in Nat
      /\ \A q \in Process : iter[q] \in Nat
  BY AlwaysOne
<1>6. /\ \A q \in Process : q # p => phase'[q] = phase[q] /\ array'[q] = array[q] /\ request'[q] = request[q]
      /\ phase'[p] = "wait" /\ array'[p] = new /\ request'[p] = {"recv", "send"} \X Sides(p)
      /\ DOMAIN phase' = Process /\ array' = [q \in Process |-> array'[q]]
      /\ request' = [q \in Process |-> request'[q]]
  BY <1>2 DEF MPIInv, TablesOK
<1>7. a \in {0, 1} /\ b \in {0, 1} /\ a # b
  BY <1>5, TwoArrays
<1>8. /\ new = [e \in {0, 1} |-> new[e]]
      /\ \A e \in {0, 1} : e # b => new[e] = array[p][e]
      /\ new[b] = [c \in grid.cell |->
                     IF c \in grid.inside[Here] THEN Update(p, array[p][a], c, it) ELSE array[p][b][c]]
  <2>1. array[p] = [e \in {0, 1} |-> array[p][e]]
    BY DEF MPIInv, TablesOK
  <2> QED
    BY <1>7, <2>1 DEF Computed
<1>9. \A c \in grid.inside[Here] : c \in grid.cell /\ new[b][c] = Value(Global(p, c), it + 1)
  <2>1. ASSUME NEW c \in grid.inside[Here]
        PROVE  c \in grid.cell /\ Update(p, array[p][a], c, it) = Value(Global(p, c), it + 1)
    BY <1>2, <1>5, InsideKnown, NextValue DEF Halted
  <2> QED
    BY <1>8, <2>1
<1>10. WritesNext(p, "Compute", it)
  <2>1. CellsOf(p, Here, "Compute") = grid.inside[Here]
    BY DEF CellsOf
  <2> QED
    BY <1>6, <1>8, <1>9, <2>1 DEF WritesNext
<1>11. /\ \A q \in Process : \A d \in grid.halo[Here] : \A e \in {0, 1} :
             Global(q, d) \notin Domain => array'[q][e][d] = array[q][e][d]
       /\ \A q \in Process : \A h \in {"Compute", "Unpack"} : \A n \in Nat :
             (q # p \/ h # "Compute" \/ n = it) /\ Holds(q, Here, h, n) => Holds(q, Here, h, n)'
       /\ Holds(p, Here, "Compute", it + 1)'
       /\ OnlyRightValues'
       /\ \A q \in Process : \A e \in {0, 1} : \A c \in grid.inside[Here] :
             \/ array'[q][e][c] = array[q][e][c]
             \/ q = p /\ IterationOf(array'[q][e][c]) = it + 1
  <2>1. grid' = grid
    BY <1>2
  <2> QED
    BY <1>5, <1>10, <2>1, CellsWritten
<1>12. OneBlock' /\ TablesOK'
  <2>1. GridOK'
    BY <1>2, <1>3, <1>4 DEF MPIInv, OneBlock, GridOK
  <2>2. \A q \in Process : array'[q] = [e \in {0, 1} |-> array'[q][e]]
    BY <1>6, <1>8 DEF MPIInv, TablesOK
  <2>3. sendBuffer' = [r \in RemoteFaces |-> sendBuffer'[r]]
    BY <1>2
  <2>4. TablesOK'
    <3>1. TablesOK
      BY DEF MPIInv
    <3> HIDE DEF MPIInv
    <3> QED
      BY <1>2, <1>4, <1>6, <2>2, <2>3, <3>1 DEF TablesOK
  <2> QED
    BY <1>2, <2>1, <2>4 DEF MPIInv, OneBlock
<1>13. StagesOK'
  BY <1>2, <1>4, <1>6 DEF MPIInv, StagesOK, Starting, Finishing, Halted
<1>14. CellsRight'
  <2>1. ASSUME NEW q \in Process, phase'[q] \notin Halted
        PROVE  /\ \A d \in grid.halo[Here] : \A e \in {0, 1} :
                    Global(q, d) \notin Domain => array'[q][e][d] = Zero
               /\ \A k \in {"Compute", "Unpack"} : Holds(q, Here, k, iter[q])'
               /\ phase'[q] = "wait" => Holds(q, Here, "Compute", iter[q] + 1)'
    <3>1. phase[q] \notin Halted
      BY <1>2, <1>6, <2>1 DEF Halted
    <3>2. \A d \in grid.halo[Here] : \A e \in {0, 1} : Global(q, d) \notin Domain => array'[q][e][d] = Zero
      BY <1>11, <3>1 DEF MPIInv, CellsRight
    <3>3. \A k \in {"Compute", "Unpack"} : Holds(q, Here, k, iter[q])'
      <4>1. ASSUME NEW k \in {"Compute", "Unpack"} PROVE Holds(q, Here, k, iter[q])'
        <5> PICK n : n = iter[q]
          OBVIOUS
        <5>1. Holds(q, Here, k, n) /\ n \in Nat /\ (q = p => n = it) /\ n = iter'[q]
          BY <1>2, <1>5, <3>1 DEF MPIInv, CellsRight
        <5> QED
          BY <1>11, <5>1
      <4> QED
        BY <4>1
    <3>4. ASSUME phase'[q] = "wait" PROVE Holds(q, Here, "Compute", iter[q] + 1)'
      <4>1. CASE q = p
        BY <1>2, <1>11, <4>1
      <4>2. CASE q # p
        <5> PICK n : n = iter[q] + 1
          OBVIOUS
        <5>1. Holds(q, Here, "Compute", n) /\ n \in Nat /\ n = iter'[q] + 1
          BY <1>2, <1>5, <1>6, <3>1, <3>4, <4>2 DEF MPIInv, CellsRight
        <5> QED
          BY <1>11, <4>2, <5>1
      <4> QED
        BY <4>1, <4>2
    <3> QED
      BY <3>2, <3>3, <3>4
  <2>2. /\ grid' = grid /\ Process' = Process /\ Domain' = Domain
        /\ \A q, c : Global(q, c)' = Global(q, c)
    BY <1>2, <1>4
  <2> QED
    BY ONLY <2>1, <2>2 DEF CellsRight
<1>15. CellsInReach'
  <2>1. ASSUME NEW q \in Process
        PROVE  Reach(q) \in Nat /\ (q # p => Reach(q)' = Reach(q)) /\ (q = p => Reach(q) = it /\ Reach(q)' = it + 1)
    BY <1>2, <1>5, <1>6 DEF Reach
  <2>2. ASSUME NEW q \in Process, NEW e \in {0, 1}, NEW c \in grid.inside[Here]
        PROVE  IterationOf(array'[q][e][c]) \in 0..Reach(q)'
    <3>1. IterationOf(array[q][e][c]) \in 0..Reach(q)
      BY DEF MPIInv, CellsInReach
    <3>2. CASE q = p
      BY <1>5, <1>11, <2>1, <3>1, <3>2
    <3>3. CASE q # p
      BY <1>11, <2>1, <3>1, <3>3
    <3> QED
      BY <3>2, <3>3
  <2> QED
    BY <1>2, <1>4, <2>2 DEF CellsInReach, IterationOf
<1>16. BuffersRight'
  <2>1. ASSUME NEW q \in Process, NEW f \in Sides(q), phase'[q] = "wait"
        PROVE  /\ sendBuffer'[<<q, Here, f>>] = Message(q, Here, f, iter[q])
               /\ <<"recv", f>> \notin request'[q] =>
                    recvBuffer[<<q, Here, f>>] = Message(Peer(q, f), Here, Opposite(f), iter[q])
    <3>1. f \in Faces /\ Type(q, Here, f) = "REMOTE"
      BY DEF Sides
    <3>2. <<q, Here, f>> \in RemoteFaces
      BY <1>5, <3>1 DEF RemoteFaces, Type
    <3>3. CASE q = p
      <4>1. sendBuffer'[<<p, Here, f>>] = Packed(new[b], Here, f)
        BY <1>2, <3>2, <3>3
      <4>2. ASSUME NEW o \in DOMAIN grid.own[<<Here, f>>] PROVE grid.own[<<Here, f>>][o] \in grid.inside[Here]
        <5>1. PICK i \in DOMAIN Remote(p, Here) : Remote(p, Here)[i] = f
          BY <1>5, <3>1, <3>3, PlaceOfFace
        <5> QED
          BY <1>5, <5>1, LayerCells
      <4>3. Packed(new[b], Here, f) = Message(p, Here, f, it)
        BY <1>9, <4>2 DEF Packed, Message
      <4>4. <<"recv", f>> \in request'[p]
        BY <1>6, <3>3
      <4> QED
        BY <3>3, <4>1, <4>3, <4>4
    <3>4. CASE q # p
      <4>1. sendBuffer'[<<q, Here, f>>] = sendBuffer[<<q, Here, f>>]
        BY <1>2, <3>2, <3>4
      <4> QED
        BY <1>3, <1>6, <2>1, <3>4, <4>1 DEF MPIInv, BuffersRight
    <3> QED
      BY <3>3, <3>4
  <2> QED
    BY <1>2, <1>4, <2>1 DEF BuffersRight
<1>17. MailRight'
  <2>1. ASSUME NEW q \in Process, NEW k \in {"recv", "send"}, NEW f \in Sides(q)
        PROVE  Completed(q, k, f)' = Completed(q, k, f)
    <3>1. q = p => <<k, f>> \in request'[p]
      BY <1>6
    <3> QED
      BY <1>2, <1>6, <3>1 DEF Completed
  <2> QED
    BY <1>2, <1>3, <2>1, MailKept
<1>18. SumsGiven'
  <2>1. ASSUME NEW q \in Process, phase'[q] \in Finishing, q # Root \/ phase'[q] = "reduce"
        PROVE  residual'[q] = TotalOf(Cells(q, Here))
    BY <1>2, <1>6, <2>1 DEF MPIInv, SumsGiven, Finishing
  <2>2. phase'[Root] \in {"end", "done"} => residual'[Root] = TotalOf(Domain)
    BY <1>2, <1>5, <1>6 DEF MPIInv, SumsGiven
  <2> QED
    BY <1>4, <2>1, <2>2 DEF SumsGiven, Root
<1> QED
  BY <1>11, <1>12, <1>13, <1>14, <1>15, <1>16, <1>17, <1>18 DEF MPIInv

\* The wait, which ends when all messages are there, and the ghost cells filled.
LEMMA WaitKeeps ==
  ASSUME MPIInv, NEW p \in Process, MPI!WaitAndUnpack(p)
  PROVE  MPIInv'
<1> PICK it, b, token, u : /\ it = iter[p] /\ b = NextArray(it)
                           /\ token = [f \in Sides(p) |-> recvBuffer[<<p, Here, f>>]]
                           /\ u = Unpacked(array[p][b], Here, token)
  OBVIOUS
<1>1. /\ MPI!Here = Here /\ MPI!RemoteFacesOf(p) = Sides(p) /\ MPI!NextArray(it) = b
      /\ MPI!Unpacked(array[p][b], Here, token) = u
  BY SameNames, SameValues
<1>2. /\ phase[p] = "wait" /\ request[p] = {} /\ phase' = [phase EXCEPT ![p] = "solve"]
      /\ array' = [array EXCEPT ![p][b] = u] /\ iter' = [iter EXCEPT ![p] = it + 1]
      /\ UNCHANGED <<grid, residual, request, sendBuffer, recvBuffer, mail>>
  BY <1>1 DEF MPI!WaitAndUnpack
<1>3. WellFormed /\ \E g : InUse(g)
  BY <1>2, PastStart DEF Halted
<1> PICK g : InUse(g)
  BY <1>3
<1>4. /\ Process' = Process /\ Local' = Local /\ nIters' = nIters /\ RemoteFaces' = RemoteFaces
      /\ WellFormed' = WellFormed /\ Domain' = Domain /\ \A q : Sides(q)' = Sides(q)
      /\ \A q, f : Peer(q, f)' = Peer(q, f)
      /\ \A q, c : Global(q, c)' = Global(q, c)
      /\ \A q, l, f, n : Message(q, l, f, n)' = Message(q, l, f, n)
      /\ (\A q, l : Cells(q, l)' = Cells(q, l)) /\ (\A S : TotalOf(S)' = TotalOf(S))
  BY <1>2, SameLaunch
<1>5. /\ Local = {Here} /\ Here \in Local /\ Root \in Process /\ it \in Nat /\ nIters \in Nat /\ it < nIters
      /\ \A q \in Process : iter[q] \in Nat
  BY <1>2, AlwaysOne DEF MPIInv, StagesOK
<1>6. b \in {0, 1}
  BY <1>5, TwoArrays
<1>7. /\ \A q \in Process : q # p => phase'[q] = phase[q] /\ array'[q] = array[q] /\ iter'[q] = iter[q]
      /\ phase'[p] = "solve" /\ array'[p] = [array[p] EXCEPT ![b] = u] /\ iter'[p] = it + 1
      /\ DOMAIN phase' = Process /\ array' = [q \in Process |-> array'[q]]
      /\ iter' = [q \in Process |-> iter'[q]]
  BY <1>2 DEF MPIInv, TablesOK
<1>8. /\ array'[p] = [e \in {0, 1} |-> array'[p][e]] /\ array'[p][b] = u
      /\ \A e \in {0, 1} : e # b => array'[p][e] = array[p][e]
  <2>1. array[p] = [e \in {0, 1} |-> array[p][e]]
    BY DEF MPIInv, TablesOK
  <2> QED
    BY <1>6, <1>7, <2>1
<1>9. AllMessages(token, p, Here, it)
  <2>1. Sides(p) = {f \in Faces : Type(p, Here, f) = "REMOTE"} /\ DOMAIN token = Sides(p)
    BY DEF Sides
  <2>2. ASSUME NEW f \in Sides(p)
        PROVE  token[f] = Message(Neighbor(p, Here, f)[1], Neighbor(p, Here, f)[2], Opposite(f), it)
    <3> PICK q, h : q = Peer(p, f) /\ h = Opposite(f)
      OBVIOUS
    <3>1. Neighbor(p, Here, f) = <<q, Here>>
      BY PeerOf DEF MPIInv, OneBlock
    <3>2. token[f] = Message(q, Here, h, it)
      BY <1>2, <1>3 DEF MPIInv, BuffersRight
    <3> QED
      BY <3>1, <3>2
  <2> QED
    BY <2>1, <2>2 DEF AllMessages
<1>10. WritesNext(p, "Unpack", it)
  <2>1. CellsOf(p, Here, "Unpack") = Ghosts(p, Here)
    BY DEF CellsOf
  <2>2. ASSUME NEW c \in grid.cell
        PROVE  /\ c \in Ghosts(p, Here) => u[c] = Value(Global(p, c), it + 1)
               /\ c \notin Ghosts(p, Here) => u[c] = array[p][b][c]
    BY <1>5, <1>9, MessagesFill
  <2>3. \A c \in Ghosts(p, Here) : c \in grid.cell
    BY <1>5, GhostKnown
  <2> QED
    BY <1>7, <1>8, <2>1, <2>2, <2>3 DEF WritesNext
<1>11. /\ \A q \in Process : \A d \in grid.halo[Here] : \A e \in {0, 1} :
             Global(q, d) \notin Domain => array'[q][e][d] = array[q][e][d]
       /\ \A q \in Process : \A h \in {"Compute", "Unpack"} : \A n \in Nat :
             (q # p \/ h # "Unpack" \/ n = it) /\ Holds(q, Here, h, n) => Holds(q, Here, h, n)'
       /\ Holds(p, Here, "Unpack", it + 1)'
       /\ OnlyRightValues'
       /\ \A q \in Process : \A e \in {0, 1} : \A c \in grid.inside[Here] : array'[q][e][c] = array[q][e][c]
  <2>1. grid' = grid
    BY <1>2
  <2> QED
    BY <1>5, <1>10, <2>1, CellsWritten
<1>12. OneBlock' /\ TablesOK'
  <2>1. GridOK'
    BY <1>2, <1>3, <1>4 DEF MPIInv, OneBlock, GridOK
  <2>2. \A q \in Process : array'[q] = [e \in {0, 1} |-> array'[q][e]]
    BY <1>7, <1>8 DEF MPIInv, TablesOK
  <2>3. TablesOK'
    <3>1. TablesOK
      BY DEF MPIInv
    <3> HIDE DEF MPIInv
    <3> QED
      BY <1>2, <1>4, <1>7, <2>2, <3>1 DEF TablesOK
  <2> QED
    BY <1>2, <2>1, <2>3 DEF MPIInv, OneBlock
<1>13. StagesOK'
  <2>1. it + 1 \in 0..nIters
    BY <1>5
  <2> QED
    BY <1>2, <1>4, <1>7, <2>1 DEF MPIInv, StagesOK, Starting, Finishing, Halted
<1>14. CellsRight'
  <2>1. ASSUME NEW q \in Process, phase'[q] \notin Halted
        PROVE  /\ \A d \in grid.halo[Here] : \A e \in {0, 1} :
                    Global(q, d) \notin Domain => array'[q][e][d] = Zero
               /\ \A k \in {"Compute", "Unpack"} : Holds(q, Here, k, iter[q])'
               /\ phase'[q] = "wait" => Holds(q, Here, "Compute", iter[q] + 1)'
    <3>1. phase[q] \notin Halted
      BY <1>2, <1>7, <2>1 DEF Halted
    <3>2. \A d \in grid.halo[Here] : \A e \in {0, 1} : Global(q, d) \notin Domain => array'[q][e][d] = Zero
      BY <1>11, <3>1 DEF MPIInv, CellsRight
    <3> PICK n : n = iter'[q]
      OBVIOUS
    <3>3. ASSUME q = p PROVE \A k \in {"Compute", "Unpack"} : Holds(q, Here, k, iter[q])'
      <4>1. n = it + 1 /\ n \in Nat /\ Holds(p, Here, "Compute", n)
        BY <1>2, <1>5, <1>7, <3>1, <3>3 DEF MPIInv, CellsRight
      <4>2. Holds(p, Here, "Compute", n)' /\ Holds(p, Here, "Unpack", n)'
        BY <1>11, <4>1
      <4> QED
        BY <3>3, <4>2
    <3>4. ASSUME q # p
          PROVE  /\ \A k \in {"Compute", "Unpack"} : Holds(q, Here, k, iter[q])'
                 /\ phase'[q] = "wait" => Holds(q, Here, "Compute", iter[q] + 1)'
      <4> PICK m : m = n + 1
        OBVIOUS
      <4>1. /\ n = iter[q] /\ n \in Nat /\ m \in Nat /\ phase'[q] = phase[q]
            /\ \A k \in {"Compute", "Unpack"} : Holds(q, Here, k, n)
            /\ phase[q] = "wait" => Holds(q, Here, "Compute", m)
        BY <1>5, <1>7, <3>1, <3>4 DEF MPIInv, CellsRight
      <4>2. /\ \A k \in {"Compute", "Unpack"} : Holds(q, Here, k, n)'
            /\ phase'[q] = "wait" => Holds(q, Here, "Compute", m)'
        BY <1>11, <3>4, <4>1
      <4> QED
        BY <4>2
    <3> QED
      BY <1>7, <3>2, <3>3, <3>4
  <2>2. /\ grid' = grid /\ Process' = Process /\ Domain' = Domain
        /\ \A q, c : Global(q, c)' = Global(q, c)
    BY <1>2, <1>4
  <2> QED
    BY ONLY <2>1, <2>2 DEF CellsRight
<1>15. CellsInReach'
  <2>1. ASSUME NEW q \in Process PROVE Reach(q)' = Reach(q)
    BY <1>2, <1>7 DEF Reach
  <2> QED
    BY <1>2, <1>4, <1>11, <2>1 DEF MPIInv, CellsInReach, IterationOf
<1>16. BuffersRight'
  <2>1. ASSUME NEW q \in Process, NEW f \in Sides(q), phase'[q] = "wait"
        PROVE  /\ sendBuffer'[<<q, Here, f>>] = Message(q, Here, f, iter'[q])
               /\ <<"recv", f>> \notin request'[q] =>
                    recvBuffer'[<<q, Here, f>>] = Message(Peer(q, f), Here, Opposite(f), iter'[q])
    <3>1. q # p /\ phase[q] = "wait" /\ iter'[q] = iter[q]
      BY <1>7, <2>1
    <3> QED
      BY <1>2, <1>3, <3>1 DEF MPIInv, BuffersRight
  <2> QED
    BY <1>4, <2>1 DEF BuffersRight
<1>17. MailRight'
  <2>1. ASSUME NEW q \in Process, NEW k \in {"recv", "send"}, NEW f \in Sides(q)
        PROVE  Completed(q, k, f)' = Completed(q, k, f)
    BY <1>2, <1>7 DEF Completed
  <2> QED
    BY <1>2, <1>3, <2>1, MailKept
<1>18. SumsGiven'
  <2>1. ASSUME NEW q \in Process, phase'[q] \in Finishing, q # Root \/ phase'[q] = "reduce"
        PROVE  residual'[q] = TotalOf(Cells(q, Here))
    BY <1>2, <1>7, <2>1 DEF MPIInv, SumsGiven, Finishing
  <2>2. phase'[Root] \in {"end", "done"} => residual'[Root] = TotalOf(Domain)
    BY <1>2, <1>5, <1>7 DEF MPIInv, SumsGiven
  <2> QED
    BY <1>4, <2>1, <2>2 DEF SumsGiven, Root
<1> QED
  BY <1>11, <1>12, <1>13, <1>14, <1>15, <1>16, <1>17, <1>18 DEF MPIInv

-----------------------------------------------------------------------------
(* The messages.                                                           *)

\* A process with an open request waits.
LEMMA OpenRequest ==
  ASSUME MPIInv, NEW p \in Process, NEW k, NEW f, <<k, f>> \in request[p]
  PROVE  phase[p] = "wait" /\ k \in {"recv", "send"} /\ f \in Sides(p) /\ Completed(p, k, f) = iter[p]
<1>1. phase[p] = "wait" /\ <<k, f>> \in {"recv", "send"} \X Sides(p)
  BY DEF MPIInv, StagesOK
<1> QED
  BY <1>1 DEF Completed

\* What is on the way from a process to the one behind a face.
LEMMA MailBetween ==
  ASSUME MPIInv, WellFormed, NEW p \in Process, NEW f \in Sides(p), NEW q, q = Peer(p, f),
         NEW r, r = Completed(q, "recv", Opposite(f)), NEW s, s = Completed(p, "send", f),
         NEW w, w = mail[<<p, q, f>>]
  PROVE  r \in Nat /\ s \in Nat /\ r <= s /\ w = Window(p, Here, f, r, s) /\ Slides(w, p, Here, f, r, s)
<1>1. \E g : InUse(g)
  BY RunningGrid DEF MPIInv, OneBlock
<1>2. q \in Process
  BY <1>1, PeerOf DEF MPIInv, OneBlock
<1>3. r \in Nat /\ s \in Nat
  <2>1. iter[p] \in Nat /\ iter[q] \in Nat
    BY <1>2, AlwaysOne
  <2> QED
    BY <2>1 DEF Completed
<1>4. r <= s /\ w = Window(p, Here, f, r, s)
  BY DEF MPIInv, MailRight
<1> QED
  BY <1>3, <1>4, WindowSlides

\* A step of MPI keeps all but the messages, once they are right.
LEMMA MessageMoves ==
  ASSUME MPIInv, WellFormed, UNCHANGED <<grid, array, phase, residual, iter, sendBuffer>>,
         request' = [p \in Process |-> request'[p]],
         recvBuffer' = [r \in RemoteFaces |-> recvBuffer'[r]],
         mail' = [r \in Process \X Process \X Faces |-> mail'[r]],
         \A p \in Process : request'[p] \subseteq request[p],
         \A p \in Process : \A f \in Sides(p) : phase[p] = "wait" /\ <<"recv", f>> \notin request'[p] =>
           recvBuffer'[<<p, Here, f>>] = Message(Peer(p, f), Here, Opposite(f), iter[p]),
         MailRight'
  PROVE  MPIInv'
<1>1. /\ Process' = Process /\ nIters' = nIters /\ RemoteFaces' = RemoteFaces /\ WellFormed' = WellFormed
      /\ Domain' = Domain /\ \A p : Sides(p)' = Sides(p)
      /\ \A p, f : Peer(p, f)' = Peer(p, f)
      /\ \A p, l, f, n : Message(p, l, f, n)' = Message(p, l, f, n)
      /\ (\A p, l : Cells(p, l)' = Cells(p, l)) /\ (\A S : TotalOf(S)' = TotalOf(S))
  BY SameLaunch
<1>2. OneBlock'
  <2>1. GridOK'
    BY <1>1 DEF MPIInv, OneBlock, GridOK
  <2> QED
    BY <2>1 DEF MPIInv, OneBlock
<1>3. TablesOK'
  <2>1. TablesOK
    BY DEF MPIInv
  <2> HIDE DEF MPIInv
  <2> QED
    BY <1>1, <2>1 DEF TablesOK
<1>4. StagesOK'
  <2> SUFFICES ASSUME NEW p \in Process
               PROVE  /\ request'[p] \subseteq {"recv", "send"} \X Sides(p)
                      /\ phase[p] # "wait" => request'[p] = {}
    BY <1>1 DEF MPIInv, StagesOK, Starting, Finishing, Halted
  <2> QED
    BY DEF MPIInv, StagesOK
<1>5. CellsRight' /\ OnlyRightValues' /\ CellsInReach'
  BY ValuesKept
<1>6. BuffersRight'
  BY <1>1 DEF MPIInv, BuffersRight
<1>7. SumsGiven'
  BY <1>1 DEF MPIInv, SumsGiven, Root
<1> QED
  BY <1>2, <1>3, <1>4, <1>5, <1>6, <1>7 DEF MPIInv

\* A message buffered is the last on its way.
LEMMA BufferKeeps ==
  ASSUME MPIInv, NEW p \in Process, NEW f \in MPI!RemoteFacesOf(p), MPI!Buffer(p, f)
  PROVE  MPIInv'
<1> PICK q, h, w : q = Peer(p, f) /\ h = Opposite(f) /\ w = mail[<<p, q, f>>]
  OBVIOUS
<1>1. /\ MPI!Here = Here /\ f \in Sides(p) /\ MPI!NeighborId(p, f) = q /\ MPI!SendTag(f) = f
  BY SameNames
<1> PICK token : token = sendBuffer[<<p, Here, f>>]
  OBVIOUS
<1>2. /\ <<"send", f>> \in request[p] /\ request' = [request EXCEPT ![p] = @ \ {<<"send", f>>}]
      /\ mail' = [mail EXCEPT ![<<p, q, f>>] = Append(w, token)]
      /\ UNCHANGED <<grid, array, phase, residual, iter, sendBuffer, recvBuffer>>
  BY <1>1 DEF MPI!Buffer
<1>3. phase[p] = "wait" /\ Completed(p, "send", f) = iter[p]
  BY <1>2, OpenRequest
<1>4. WellFormed /\ \E g : InUse(g)
  BY <1>3, PastStart DEF Halted
<1> PICK g : InUse(g)
  BY <1>4
<1>5. f \in Faces /\ q \in Process /\ token = Message(p, Here, f, iter[p])
  BY <1>1, <1>3, <1>4, PeerOf DEF MPIInv, OneBlock, BuffersRight
<1>6. /\ \A u \in Process : u # p => request'[u] = request[u]
      /\ request'[p] = request[p] \ {<<"send", f>>}
      /\ request' = [u \in Process |-> request'[u]]
      /\ \A t \in Process \X Process \X Faces : t # <<p, q, f>> => mail'[t] = mail[t]
      /\ mail'[<<p, q, f>>] = Append(w, token)
      /\ mail' = [t \in Process \X Process \X Faces |-> mail'[t]]
  BY <1>2, <1>5 DEF MPIInv, TablesOK
<1>7. \A u \in Process : request'[u] \subseteq request[u]
  BY <1>6
<1>8. ASSUME NEW u \in Process, NEW k \in {"recv", "send"}, NEW e, k = "recv" \/ u # p \/ e # f
      PROVE  Completed(u, k, e)' = Completed(u, k, e)
  <2>1. <<k, e>> \in request'[u] <=> <<k, e>> \in request[u]
    BY <1>6, <1>8
  <2> QED
    BY <1>2, <2>1 DEF Completed
<1>9. Completed(p, "send", f)' = iter[p] + 1
  BY <1>2, <1>3, <1>6 DEF Completed
<1>10. MailRight'
  <2>1. ASSUME NEW u \in Process, NEW e \in Sides(u), NEW v, v = Peer(u, e), NEW d, d = Opposite(e)
        PROVE  LET r == Completed(v, "recv", d)'
                   s == Completed(u, "send", e)' IN
               r <= s /\ mail'[<<u, v, e>>] = Window(u, Here, e, r, s)
    <3> PICK r, s : r = Completed(v, "recv", d) /\ s = Completed(u, "send", e)
      OBVIOUS
    <3>1. v \in Process /\ d \in Sides(v) /\ e \in Faces
      BY <2>1, PeerOf DEF MPIInv, OneBlock
    <3>2. /\ r \in Nat /\ s \in Nat /\ r <= s /\ mail[<<u, v, e>>] = Window(u, Here, e, r, s)
          /\ Slides(mail[<<u, v, e>>], u, Here, e, r, s)
      BY <1>4, <2>1, MailBetween
    <3>3. Completed(v, "recv", d)' = r
      BY <1>8, <3>1
    <3>4. CASE u = p /\ e = f
      <4>1. s = iter[p] /\ v = q
        BY <1>3, <2>1, <3>4
      <4>2. Append(w, token) = Window(u, Here, e, r, s + 1)
        BY <1>5, <3>2, <3>4, <4>1 DEF Slides
      <4>3. Completed(u, "send", e)' = s + 1 /\ mail'[<<u, v, e>>] = Append(w, token)
        BY <1>6, <1>9, <3>4, <4>1
      <4>4. r <= s + 1
        BY <3>2
      <4> QED
        BY <3>3, <4>2, <4>3, <4>4
    <3>5. CASE u # p \/ e # f
      <4>1. Completed(u, "send", e)' = s
        BY <1>8, <3>5
      <4>2. <<u, v, e>> # <<p, q, f>> /\ <<u, v, e>> \in Process \X Process \X Faces
        BY <3>1, <3>5
      <4>3. mail'[<<u, v, e>>] = mail[<<u, v, e>>]
        BY <1>6, <4>2
      <4> QED
        BY <3>2, <3>3, <4>1, <4>3
    <3> QED
      BY <3>4, <3>5
  <2>2. /\ Process' = Process /\ \A u : Sides(u)' = Sides(u)
        /\ \A u, e : Peer(u, e)' = Peer(u, e)
        /\ \A u, l, e, r, s : Window(u, l, e, r, s)' = Window(u, l, e, r, s)
    BY <1>2, SameLaunch
  <2> QED
    BY <2>1, <2>2 DEF MailRight
<1>11. \A u \in Process : \A e \in Sides(u) : phase[u] = "wait" /\ <<"recv", e>> \notin request'[u] =>
         recvBuffer'[<<u, Here, e>>] = Message(Peer(u, e), Here, Opposite(e), iter[u])
  <2>1. \A u \in Process : \A e : <<"recv", e>> \in request'[u] <=> <<"recv", e>> \in request[u]
    BY <1>6
  <2> QED
    BY <1>2, <1>4, <2>1 DEF MPIInv, BuffersRight
<1>12. recvBuffer' = [r \in RemoteFaces |-> recvBuffer'[r]]
  BY <1>2 DEF MPIInv, TablesOK
<1> QED
  BY <1>2, <1>4, <1>6, <1>7, <1>10, <1>11, <1>12, MessageMoves

\* A process is never its own neighbour.
LEMMA AnotherProcess ==
  ASSUME NEW g, InUse(g), grid.lt = <<1, 1, 1>>, NEW p \in Process, NEW f \in Sides(p)
  PROVE  Peer(p, f) # p
<1> PICK q, h, a, x : q = D(g)!NeighborProcess(p, Here, f) /\ h = Opposite(f) /\ a = f[1] /\ x = D(g)!pPos(p)
  OBVIOUS
<1>1. /\ g \in Geometries /\ f \in Faces /\ Here \in Local /\ p \in D(g)!Process /\ Here \in D(g)!Local
      /\ D(g)!Type(p, Here, f) = "REMOTE" /\ Peer(p, f) = q
  BY OnlyBlock, Fields DEF InUse, Decomposed, Sides, Peer
<1>2. a \in 1..3 /\ x[a] \in Int
  <2>1. x \in Positions(g.pt) /\ a \in 1..3 /\ Shape(g.pt)
    BY <1>1, ProcessPosition, Shapes DEF Faces
  <2> QED
    BY <2>1 DEF Positions
<1>3. D(g)!pPos(q)[a] = IF f[2] = 0 THEN x[a] - 1 ELSE x[a] + 1
  BY <1>1, <1>2, NeighborBack
<1> QED
  BY <1>1, <1>2, <1>3

\* A message received is the oldest on its way, and that of the receiver's iteration.
LEMMA DeliverKeeps ==
  ASSUME MPIInv, NEW p \in Process, NEW f \in MPI!RemoteFacesOf(p), MPI!Deliver(p, f)
  PROVE  MPIInv'
<1> PICK q, h, w : q = Peer(p, f) /\ h = Opposite(f) /\ w = mail[<<q, p, h>>]
  OBVIOUS
<1>1. /\ MPI!Here = Here /\ f \in Sides(p) /\ MPI!NeighborId(p, f) = q /\ MPI!RecvTag(f) = h
  BY SameNames
<1>2. /\ <<"recv", f>> \in request[p] /\ w # <<>>
      /\ request' = [request EXCEPT ![p] = @ \ {<<"recv", f>>}]
      /\ recvBuffer' = [recvBuffer EXCEPT ![<<p, Here, f>>] = Head(w)]
      /\ mail' = [mail EXCEPT ![<<q, p, h>>] = Tail(w)]
      /\ UNCHANGED <<grid, array, phase, residual, iter, sendBuffer>>
  BY <1>1 DEF MPI!Deliver
<1>3. phase[p] = "wait" /\ Completed(p, "recv", f) = iter[p]
  BY <1>2, OpenRequest
<1>4. WellFormed /\ \E g : InUse(g)
  BY <1>3, PastStart DEF Halted
<1> PICK g : InUse(g)
  BY <1>4
<1>5. /\ f \in Faces /\ q \in Process /\ h \in Sides(q) /\ h \in Faces /\ Peer(q, h) = p
      /\ Opposite(h) = f /\ <<p, Here, f>> \in RemoteFaces
  <2>1. /\ f \in Faces /\ Type(p, Here, f) = "REMOTE" /\ Local = {Here}
        /\ q \in Process /\ h \in Sides(q) /\ Peer(q, h) = p /\ Opposite(h) = f
    BY <1>1, PeerOf DEF MPIInv, OneBlock
  <2> QED
    BY <2>1 DEF Sides, RemoteFaces, Type
<1>6. Head(w) = Message(q, Here, h, iter[p]) /\ Tail(w) = Window(q, Here, h, iter[p] + 1, Completed(q, "send", h))
      /\ iter[p] \in Nat /\ iter[p] < Completed(q, "send", h) /\ Completed(q, "send", h) \in Nat
  <2> PICK s, r : s = Completed(q, "send", h) /\ r = Completed(p, "recv", f)
    OBVIOUS
  <2>1. r \in Nat /\ s \in Nat /\ Slides(w, q, Here, h, r, s)
    BY <1>4, <1>5, MailBetween
  <2> QED
    BY <1>2, <1>3, <2>1 DEF Slides
<1>7. /\ \A u \in Process : u # p => request'[u] = request[u]
      /\ request'[p] = request[p] \ {<<"recv", f>>}
      /\ request' = [u \in Process |-> request'[u]]
      /\ \A t \in Process \X Process \X Faces : t # <<q, p, h>> => mail'[t] = mail[t]
      /\ mail'[<<q, p, h>>] = Tail(w)
      /\ mail' = [t \in Process \X Process \X Faces |-> mail'[t]]
      /\ \A t \in RemoteFaces : t # <<p, Here, f>> => recvBuffer'[t] = recvBuffer[t]
      /\ recvBuffer'[<<p, Here, f>>] = Head(w)
      /\ recvBuffer' = [t \in RemoteFaces |-> recvBuffer'[t]]
  BY <1>2, <1>5 DEF MPIInv, TablesOK
<1>8. \A u \in Process : request'[u] \subseteq request[u]
  BY <1>7
<1>9. ASSUME NEW u \in Process, NEW k \in {"recv", "send"}, NEW e, k = "send" \/ u # p \/ e # f
      PROVE  Completed(u, k, e)' = Completed(u, k, e)
  <2>1. <<k, e>> \in request'[u] <=> <<k, e>> \in request[u]
    BY <1>7, <1>9
  <2> QED
    BY <1>2, <2>1 DEF Completed
<1>10. Completed(p, "recv", f)' = iter[p] + 1
  BY <1>2, <1>3, <1>7 DEF Completed
<1>11. MailRight'
  <2>1. ASSUME NEW u \in Process, NEW e \in Sides(u), NEW v, v = Peer(u, e), NEW d, d = Opposite(e)
        PROVE  LET r == Completed(v, "recv", d)'
                   s == Completed(u, "send", e)' IN
               r <= s /\ mail'[<<u, v, e>>] = Window(u, Here, e, r, s)
    <3> PICK r, s : r = Completed(v, "recv", d) /\ s = Completed(u, "send", e)
      OBVIOUS
    <3>1. v \in Process /\ d \in Sides(v) /\ e \in Faces /\ Peer(v, d) = u /\ Opposite(d) = e
      BY <2>1, PeerOf DEF MPIInv, OneBlock
    <3>2. r \in Nat /\ s \in Nat /\ r <= s /\ mail[<<u, v, e>>] = Window(u, Here, e, r, s)
      BY <1>4, <2>1, MailBetween
    <3>3. Completed(u, "send", e)' = s
      BY <1>9
    <3>4. CASE v = p /\ d = f
      <4>1. u = q /\ e = h
        BY <3>1, <3>4
      <4>2. Completed(v, "recv", d)' = iter[p] + 1 /\ mail'[<<u, v, e>>] = Tail(w)
        BY <1>7, <1>10, <3>4, <4>1
      <4>3. iter[p] + 1 <= s /\ Tail(w) = Window(u, Here, e, iter[p] + 1, s)
        BY <1>6, <3>2, <4>1
      <4> QED
        BY <3>3, <4>2, <4>3
    <3>5. CASE v # p \/ d # f
      <4>1. Completed(v, "recv", d)' = r
        BY <1>9, <3>1, <3>5
      <4>2. <<u, v, e>> # <<q, p, h>> /\ <<u, v, e>> \in Process \X Process \X Faces
        <5>1. ASSUME <<u, v, e>> = <<q, p, h>> PROVE FALSE
          BY <1>5, <2>1, <3>5, <5>1
        <5> QED
          BY <3>1, <5>1
      <4>3. mail'[<<u, v, e>>] = mail[<<u, v, e>>]
        BY <1>7, <4>2
      <4> QED
        BY <3>2, <3>3, <4>1, <4>3
    <3> QED
      BY <3>4, <3>5
  <2>2. /\ Process' = Process /\ \A u : Sides(u)' = Sides(u)
        /\ \A u, e : Peer(u, e)' = Peer(u, e)
        /\ \A u, l, e, r, s : Window(u, l, e, r, s)' = Window(u, l, e, r, s)
    BY <1>2, SameLaunch
  <2> QED
    BY <2>1, <2>2 DEF MailRight
<1>12. ASSUME NEW u \in Process, NEW e \in Sides(u), phase[u] = "wait", <<"recv", e>> \notin request'[u]
       PROVE  recvBuffer'[<<u, Here, e>>] = Message(Peer(u, e), Here, Opposite(e), iter[u])
  <2>1. CASE u = p /\ e = f
    BY <1>6, <1>7, <2>1
  <2>2. CASE u # p \/ e # f
    <3>1. <<"recv", e>> \notin request[u]
      BY <1>7, <1>12, <2>2
    <3>2. <<u, Here, e>> \in RemoteFaces /\ <<u, Here, e>> # <<p, Here, f>>
      <4>1. e \in Faces /\ Type(u, Here, e) = "REMOTE" /\ Here \in Local
        BY AlwaysOne DEF Sides
      <4> QED
        BY <2>2, <4>1 DEF RemoteFaces, Type
    <3>3. recvBuffer'[<<u, Here, e>>] = recvBuffer[<<u, Here, e>>]
      BY <1>7, <3>2
    <3> QED
      BY <1>4, <1>12, <3>1, <3>3 DEF MPIInv, BuffersRight
  <2> QED
    BY <2>1, <2>2
<1> QED
  BY <1>2, <1>4, <1>7, <1>8, <1>11, <1>12, MessageMoves

\* A message not buffered goes from one buffer to the other in the same iteration.
LEMMA RendezvousKeeps ==
  ASSUME MPIInv, NEW p \in Process, NEW f \in MPI!RemoteFacesOf(p),
         NEW h \in MPI!RemoteFacesOf(MPI!NeighborId(p, f)), MPI!Rendezvous(p, f, h)
  PROVE  MPIInv'
<1> PICK q, token : q = Peer(p, f) /\ token = sendBuffer[<<q, Here, h>>]
  OBVIOUS
<1>1. /\ MPI!Here = Here /\ f \in Sides(p) /\ MPI!NeighborId(p, f) = q /\ h \in Sides(q)
      /\ MPI!NeighborId(q, h) = Peer(q, h) /\ MPI!SendTag(h) = h /\ MPI!RecvTag(f) = Opposite(f)
  BY SameNames
<1>2. /\ <<"recv", f>> \in request[p] /\ mail[<<q, p, h>>] = <<>>
      /\ <<"send", h>> \in request[q] /\ Peer(q, h) = p /\ h = Opposite(f)
      /\ request' = [request EXCEPT ![p] = @ \ {<<"recv", f>>}, ![q] = @ \ {<<"send", h>>}]
      /\ recvBuffer' = [recvBuffer EXCEPT ![<<p, Here, f>>] = token]
      /\ UNCHANGED <<grid, array, phase, residual, iter, sendBuffer, mail>>
  BY <1>1 DEF MPI!Rendezvous
<1>3. phase[p] = "wait" /\ Completed(p, "recv", f) = iter[p]
  BY <1>2, OpenRequest
<1>4. WellFormed /\ \E g : InUse(g)
  BY <1>3, PastStart DEF Halted
<1> PICK g : InUse(g)
  BY <1>4
<1>5. /\ q \in Process /\ f \in Faces /\ h \in Faces /\ Opposite(h) = f /\ <<p, Here, f>> \in RemoteFaces
  <2>1. /\ f \in Faces /\ Type(p, Here, f) = "REMOTE" /\ Local = {Here} /\ q \in Process
        /\ h \in Faces /\ Opposite(h) = f
    BY <1>1, <1>2, PeerOf DEF MPIInv, OneBlock, Sides
  <2> QED
    BY <2>1 DEF RemoteFaces, Type
<1>6. phase[q] = "wait" /\ Completed(q, "send", h) = iter[q]
  BY <1>2, <1>5, OpenRequest
<1>7. iter[p] = iter[q] /\ iter[p] \in Nat
  <2> PICK s, r, w : s = Completed(q, "send", h) /\ r = Completed(p, "recv", f) /\ w = mail[<<q, p, h>>]
    OBVIOUS
  <2>1. r \in Nat /\ s \in Nat /\ r <= s /\ Slides(w, q, Here, h, r, s)
    BY <1>1, <1>2, <1>4, <1>5, MailBetween
  <2> QED
    BY <1>2, <1>3, <1>6, <2>1 DEF Slides
<1>8. token = Message(q, Here, h, iter[p])
  BY <1>1, <1>4, <1>5, <1>6, <1>7 DEF MPIInv, BuffersRight
<1>9. /\ \A u \in Process : \A e : <<"recv", e>> \in request'[u] <=> <<"recv", e>> \in request[u] /\ (u # p \/ e # f)
      /\ \A u \in Process : \A e : <<"send", e>> \in request'[u] <=> <<"send", e>> \in request[u] /\ (u # q \/ e # h)
      /\ request' = [u \in Process |-> request'[u]]
      /\ \A u \in Process : request'[u] \subseteq request[u]
  <2>1. request = [u \in Process |-> request[u]] /\ q # p
    BY <1>1, AnotherProcess DEF MPIInv, TablesOK, OneBlock
  <2>2. request' = [u \in Process |-> request'[u]]
    BY <1>2, <2>1
  <2>3. ASSUME NEW u \in Process
        PROVE  request'[u] = {x \in request[u] : (u = p => x # <<"recv", f>>) /\ (u = q => x # <<"send", h>>)}
    BY <1>2, <1>5, <2>1
  <2> QED
    BY <2>2, <2>3
<1>10. /\ \A t \in RemoteFaces : t # <<p, Here, f>> => recvBuffer'[t] = recvBuffer[t]
       /\ recvBuffer'[<<p, Here, f>>] = token
       /\ recvBuffer' = [t \in RemoteFaces |-> recvBuffer'[t]]
  BY <1>2, <1>5 DEF MPIInv, TablesOK
<1>11. ASSUME NEW u \in Process, NEW e
       PROVE  /\ u # p \/ e # f => Completed(u, "recv", e)' = Completed(u, "recv", e)
              /\ u # q \/ e # h => Completed(u, "send", e)' = Completed(u, "send", e)
  BY <1>2, <1>9 DEF Completed
<1>12. Completed(p, "recv", f)' = iter[p] + 1 /\ Completed(q, "send", h)' = iter[p] + 1
  BY <1>2, <1>3, <1>5, <1>6, <1>7, <1>9 DEF Completed
<1>13. MailRight'
  <2>1. ASSUME NEW u \in Process, NEW e \in Sides(u), NEW v, v = Peer(u, e), NEW d, d = Opposite(e)
        PROVE  LET r == Completed(v, "recv", d)'
                   s == Completed(u, "send", e)' IN
               r <= s /\ mail[<<u, v, e>>] = Window(u, Here, e, r, s)
    <3> PICK r, s : r = Completed(v, "recv", d) /\ s = Completed(u, "send", e)
      OBVIOUS
    <3>1. v \in Process /\ d \in Sides(v) /\ e \in Faces /\ Peer(v, d) = u /\ Opposite(d) = e
      BY <2>1, PeerOf DEF MPIInv, OneBlock
    <3>2. r \in Nat /\ s \in Nat /\ r <= s /\ mail[<<u, v, e>>] = Window(u, Here, e, r, s)
      BY <1>4, <2>1, MailBetween
    <3>3. v = p /\ d = f <=> u = q /\ e = h
      <4>1. ASSUME v = p, d = f PROVE u = q /\ e = h
        BY <1>2, <3>1, <4>1
      <4>2. ASSUME u = q, e = h PROVE v = p /\ d = f
        BY <1>2, <1>5, <2>1, <4>2
      <4> QED
        BY <4>1, <4>2
    <3>4. CASE u = q /\ e = h
      <4>1. Completed(v, "recv", d)' = iter[p] + 1 /\ Completed(u, "send", e)' = iter[p] + 1
        BY <1>12, <3>3, <3>4
      <4>2. r = iter[p] /\ s = iter[p]
        BY <1>3, <1>6, <1>7, <3>3, <3>4
      <4>3. Window(u, Here, e, r, s) = Window(u, Here, e, iter[p] + 1, iter[p] + 1)
        <5>1. 1..(s - r) = {} /\ 1..((iter[p] + 1) - (iter[p] + 1)) = {}
          BY <1>7, <4>2
        <5> QED
          BY <5>1 DEF Window
      <4> QED
        BY <1>7, <3>2, <4>1, <4>3
    <3>5. CASE u # q \/ e # h
      <4>1. Completed(v, "recv", d)' = r /\ Completed(u, "send", e)' = s
        BY <1>11, <3>1, <3>3, <3>5
      <4> QED
        BY <3>2, <4>1
    <3> QED
      BY <3>4, <3>5
  <2>2. /\ Process' = Process /\ \A u : Sides(u)' = Sides(u)
        /\ \A u, e : Peer(u, e)' = Peer(u, e)
        /\ \A u, l, e, r, s : Window(u, l, e, r, s)' = Window(u, l, e, r, s)
    BY <1>2, SameLaunch
  <2> QED
    BY <1>2, <2>1, <2>2 DEF MailRight
<1>14. ASSUME NEW u \in Process, NEW e \in Sides(u), phase[u] = "wait", <<"recv", e>> \notin request'[u]
       PROVE  recvBuffer'[<<u, Here, e>>] = Message(Peer(u, e), Here, Opposite(e), iter[u])
  <2>1. CASE u = p /\ e = f
    BY <1>2, <1>8, <1>10, <2>1
  <2>2. CASE u # p \/ e # f
    <3>1. <<"recv", e>> \notin request[u]
      BY <1>9, <1>14, <2>2
    <3>2. <<u, Here, e>> \in RemoteFaces /\ <<u, Here, e>> # <<p, Here, f>>
      <4>1. e \in Faces /\ Type(u, Here, e) = "REMOTE" /\ Here \in Local
        BY AlwaysOne DEF Sides
      <4> QED
        BY <2>2, <4>1 DEF RemoteFaces, Type
    <3>3. recvBuffer'[<<u, Here, e>>] = recvBuffer[<<u, Here, e>>]
      BY <1>10, <3>2
    <3> QED
      BY <1>4, <1>14, <3>1, <3>3 DEF MPIInv, BuffersRight
  <2> QED
    BY <2>1, <2>2
<1>15. mail' = [t \in Process \X Process \X Faces |-> mail'[t]]
  BY <1>2 DEF MPIInv, TablesOK
<1> QED
  BY <1>2, <1>4, <1>9, <1>10, <1>13, <1>14, <1>15, MessageMoves

-----------------------------------------------------------------------------
(* The invariant.                                                          *)

\* All steps of the processes and of MPI keep it,
LEMMA MPINextKeeps ==
  ASSUME MPIInv, MPI!Next
  PROVE  MPIInv'
<1>1. MPI!Process = Process /\ Root \in Process
  BY SameNames, AlwaysOne
<1>2. CASE MPI!AbortLaunch
  BY <1>2, AbortKeeps
<1>3. CASE MPI!Barrier \/ MPI!EndBarrier
  BY <1>3, BarrierKeeps
<1>4. CASE MPI!Reduce
  BY <1>4, ReduceKeeps
<1>5. ASSUME NEW p \in Process,
             MPI!Reset(p) \/ MPI!ComputeAndPost(p) \/ MPI!WaitAndUnpack(p) \/ MPI!GiveResidual(p)
      PROVE  MPIInv'
  BY <1>5, ResetKeeps, ComputeKeeps, WaitKeeps, GiveKeeps
<1>6. ASSUME NEW p \in Process, NEW f \in MPI!RemoteFacesOf(p), MPI!Buffer(p, f) \/ MPI!Deliver(p, f)
      PROVE  MPIInv'
  BY <1>6, BufferKeeps, DeliverKeeps
<1>7. ASSUME NEW p \in Process, NEW f \in MPI!RemoteFacesOf(p),
             NEW h \in MPI!RemoteFacesOf(MPI!NeighborId(p, f)), MPI!Rendezvous(p, f, h)
      PROVE  MPIInv'
  BY <1>7, RendezvousKeeps
<1> QED
  BY <1>1, <1>2, <1>3, <1>4, <1>5, <1>6, <1>7 DEF MPI!Next

\* a step that changes nothing does,
LEMMA MPIStutterKeeps ==
  ASSUME MPIInv, UNCHANGED <<grid, array, phase, residual>>,
         UNCHANGED <<iter, request, sendBuffer, recvBuffer, mail>>
  PROVE  MPIInv'
<1>1. DOMAIN phase' = Process /\ residual' = [p \in Process |-> residual'[p]]
  BY DEF MPIInv, TablesOK
<1>2. /\ Process' = Process /\ Domain' = Domain
      /\ (\A p, l : Cells(p, l)' = Cells(p, l)) /\ (\A S : TotalOf(S)' = TotalOf(S))
  BY SameLaunch
<1>3. SumsGiven'
  BY <1>2 DEF MPIInv, SumsGiven, Root
<1> QED
  BY <1>1, <1>3, MovesKeep DEF Moves

\* and the first state has it.
LEMMA MPIInit ==
  ASSUME Init, MPI!InitMPI, grid.lt = <<1, 1, 1>>
  PROVE  MPIInv
<1>1. PICK g \in Geometries : grid = Initialized(g)
  BY DEF Init, InitGrid
<1>2. Local = {Here} /\ nIters \in Nat /\ Root \in Process
  BY <1>1, OnlyBlock, Fields, GeometryAssumption, RootIsProcess
<1>3. /\ phase = [p \in Process |-> "launch"] /\ residual = [p \in Process |-> NoResidual]
      /\ array = [p \in Process |-> [b \in {0, 1} |-> [c \in grid.cell |-> Unset]]]
      /\ iter = [p \in Process |-> 0] /\ request = [p \in Process |-> {}]
      /\ sendBuffer = [r \in RemoteFaces |-> <<>>] /\ recvBuffer = [r \in RemoteFaces |-> <<>>]
      /\ mail = [r \in Process \X Process \X Faces |-> <<>>]
  BY SameNames DEF Init, InitGrid, MPI!InitMPI, MPI!Faces, Faces
<1>4. OneBlock
  BY <1>1, <1>3 DEF OneBlock, GridOK
<1>5. TablesOK
  BY <1>3 DEF TablesOK
<1>6. StagesOK
  BY <1>2, <1>3 DEF StagesOK, Starting, Finishing, Halted
<1>7. CellsRight
  BY <1>3 DEF CellsRight, Halted
<1>8. OnlyRightValues
  BY InitRight DEF Right
<1>9. CellsInReach
  <2>1. ASSUME NEW p \in Process, NEW b \in {0, 1}, NEW c \in grid.inside[Here]
        PROVE  IterationOf(array[p][b][c]) = 0
    <3>1. Here \in D(g)!Local /\ grid.inside[Here] = D(g)!Inside(Here) /\ grid.cell = D(g)!Cell
      BY <1>1, <1>2, Fields, MoreFields
    <3>2. c \in grid.cell
      BY <3>1, InsideInCell
    <3> QED
      BY <1>3, <3>2, IterationOfValues
  <2>2. \A p \in Process : Reach(p) = 0
    BY <1>3 DEF Reach
  <2> QED
    BY <2>1, <2>2 DEF CellsInReach
<1>10. BuffersRight
  BY <1>3 DEF BuffersRight
<1>11. WellFormed => MailRight
  <2> SUFFICES ASSUME WellFormed PROVE MailRight
    OBVIOUS
  <2>1. PICK d : InUse(d)
    BY <1>4, RunningGrid DEF OneBlock
  <2>2. ASSUME NEW p \in Process, NEW f \in Sides(p), NEW q, q = Peer(p, f)
        PROVE  LET r == Completed(q, "recv", Opposite(f))
                   s == Completed(p, "send", f) IN
               r <= s /\ mail[<<p, q, f>>] = Window(p, Here, f, r, s)
    <3>1. q \in Process /\ f \in Faces
      BY <2>1, <2>2, PeerOf
    <3>2. Completed(q, "recv", Opposite(f)) = 0 /\ Completed(p, "send", f) = 0 /\ mail[<<p, q, f>>] = <<>>
      BY <1>3, <3>1 DEF Completed
    <3>3. Window(p, Here, f, 0, 0) = <<>>
      BY DEF Window
    <3> QED
      BY <3>2, <3>3
  <2> QED
    BY <2>2 DEF MailRight
<1>12. SumsGiven
  BY <1>2, <1>3 DEF SumsGiven, Finishing
<1> QED
  BY <1>4, <1>5, <1>6, <1>7, <1>8, <1>9, <1>10, <1>11, <1>12 DEF MPIInv

-----------------------------------------------------------------------------
(* The refinement of Stencil.                                              *)

\* The iteration that a block shows is the number of those its process has computed.
LEMMA ReachShown ==
  ASSUME MPIInv, NEW p \in Process
  PROVE  IterationOfBlock(p, Here) = Reach(p)
<1> PICK n : n = Reach(p)
  OBVIOUS
<1>1. n \in Nat /\ Here \in Local /\ iter[p] \in Nat
  BY AlwaysOne DEF Reach
<1>2. \A b \in {0, 1} : \A c \in grid.inside[Here] : IterationOf(array[p][b][c]) \in 0..n
  BY DEF MPIInv, CellsInReach
<1>3. CASE phase[p] \in Halted
  <2>1. n = 0
    BY <1>3 DEF MPIInv, StagesOK, Starting, Reach, Halted
  <2>2. \A c \in grid.inside[Here] : IterationOf(array[p][0][c]) = 0 /\ IterationOf(array[p][1][c]) = 0
    BY <1>2, <2>1
  <2> QED
    BY <2>1, <2>2 DEF IterationOfBlock
<1>4. CASE phase[p] \notin Halted
  <2>1. Holds(p, Here, "Compute", n)
    BY <1>4 DEF MPIInv, CellsRight, Reach
  <2>2. \A c \in grid.inside[Here] : IterationOf(array[p][ThisArray(n)][c]) = n
    BY <1>1, <2>1, IterationOfValues DEF Holds, CellsOf
  <2>3. ThisArray(n) \in {0, 1}
    BY <1>1, TwoArrays
  <2>4. ASSUME NEW c \in grid.inside[Here]
        PROVE  /\ IterationOf(array[p][0][c]) \in 0..n /\ IterationOf(array[p][1][c]) \in 0..n
               /\ IterationOf(array[p][0][c]) = n \/ IterationOf(array[p][1][c]) = n
    BY <1>2, <2>2, <2>3
  <2>5. grid.inside[Here] # {}
    <3>1. PICK g : InUse(g)
      BY <1>4, PastStart
    <3>2. Here \in D(g)!Local /\ grid.inside[Here] = D(g)!Inside(Here) /\ Decomposed(g)
      BY <1>1, <3>1, Fields DEF InUse
    <3> QED
      BY <3>2, BlockHasCells
  <2> QED
    BY <2>4, <2>5 DEF IterationOfBlock
<1> QED
  BY <1>3, <1>4

\* The same of all blocks at once.
Shown == \A p \in Process : IterationOfBlock(p, Here) = Reach(p)

\* Blocks that compute nothing stutter,
LEMMA SameReach ==
  ASSUME MPIInv, Shown, Shown', grid' = grid, \A p \in Process : Reach(p)' = Reach(p)
  PROVE  UNCHANGED Blocks!vars
<1>1. Process' = Process /\ Local = {Here} /\ GridOK
  BY SameLaunch, AlwaysOne DEF MPIInv, OneBlock
<1>2. ASSUME NEW p \in Process PROVE IterationOfBlock(p, Here)' = IterationOfBlock(p, Here)
  BY <1>1 DEF Shown
<1>3. \A b \in Block : IterationOfBlock(b[1], b[2])' = IterationOfBlock(b[1], b[2])
  BY <1>1, <1>2 DEF Block
<1>4. [b \in AnyBlock |-> IF b \in Block THEN IterationOfBlock(b[1], b[2]) ELSE 0]'
        = [b \in AnyBlock |-> IF b \in Block THEN IterationOfBlock(b[1], b[2]) ELSE 0]
  BY <1>3, SameBlocks
<1> QED
  BY <1>4, SameBlocks DEF Blocks!vars

\* and a process that computes has the neighbours' messages of the iteration before.
LEMMA ComputeAdvancesBlock ==
  ASSUME MPIInv, Shown, Shown', NEW p \in Process, MPI!ComputeAndPost(p)
  PROVE  Blocks!Next
<1> PICK b, n : b = <<p, Here>> /\ n = iter[p]
  OBVIOUS
<1>1. phase[p] = "solve" /\ phase' = [phase EXCEPT ![p] = "wait"] /\ grid' = grid /\ iter' = iter
  BY DEF MPI!ComputeAndPost
<1>2. WellFormed /\ \E g : InUse(g)
  BY <1>1, PastStart DEF Halted
<1> PICK g : InUse(g)
  BY <1>2
<1>3. /\ Process' = Process /\ Local = {Here} /\ GridOK /\ n \in Nat
      /\ \A q \in Process : iter[q] \in Nat
      /\ \A f \in Faces : Type(p, Here, f) # "LOCAL"
  BY <1>1, SameLaunch, AlwaysOne DEF MPIInv, OneBlock
<1>4. \A q \in Process : phase'[q] = IF q = p THEN "wait" ELSE phase[q]
  BY <1>1 DEF MPIInv, TablesOK
<1>5. /\ IterationOfBlock(p, Here) = n /\ IterationOfBlock(p, Here)' = n + 1
      /\ \A q \in Process : q # p => IterationOfBlock(q, Here)' = IterationOfBlock(q, Here)
  BY <1>1, <1>3, <1>4 DEF Shown, Reach
<1>6. ASSUME NEW c \in Adjacent(b) PROVE c \in Block /\ IterationOfBlock(c[1], c[2]) >= n
  <2> PICK f \in Faces : Type(p, Here, f) # "BOUNDARY" /\ c = Neighbor(p, Here, f)
    BY <1>6 DEF Adjacent
  <2> PICK q, h : q = Peer(p, f) /\ h = Opposite(f)
    OBVIOUS
  <2>1. f \in Sides(p)
    <3> PICK d, m : Neighbor(p, Here, f) = <<d, m>>
      BY <1>3, Fields DEF InUse
    <3>1. Type(p, Here, f) \in {"LOCAL", "REMOTE"}
      BY <1>3, AdjacentFaces DEF InUse, Decomposed
    <3> QED
      BY <1>3, <3>1 DEF Sides
  <2>2. /\ c = <<q, Here>> /\ q \in Process /\ h \in Sides(q) /\ Peer(q, h) = p /\ Opposite(h) = f
    BY <2>1, PeerOf DEF MPIInv, OneBlock
  <2> PICK r, s : r = Completed(p, "recv", f) /\ s = Completed(q, "send", h)
    OBVIOUS
  <2>3. r <= s
    BY <1>2, <2>2, MailBetween
  <2>4. r = n
    BY <1>1 DEF Completed
  <2>5. s \in Nat /\ Reach(q) \in Nat /\ s <= Reach(q)
    BY <1>3, <2>2 DEF Completed, Reach
  <2>6. IterationOfBlock(q, Here) >= n
    BY <1>3, <2>2, <2>3, <2>4, <2>5 DEF Shown
  <2> QED
    BY <1>3, <2>2, <2>6 DEF Block
<1> PICK adjacent, before, after :
      /\ adjacent = [c \in AnyBlock |-> IF c \in Block THEN Adjacent(c) ELSE {}]
      /\ before = [c \in AnyBlock |-> IF c \in Block THEN IterationOfBlock(c[1], c[2]) ELSE 0]
      /\ after = [c \in AnyBlock |-> IF c \in Block THEN IterationOfBlock(c[1], c[2]) ELSE 0]'
  OBVIOUS
<1>7. b \in Block /\ b \in AnyBlock /\ Block \subseteq AnyBlock /\ b[1] = p /\ b[2] = Here
  BY <1>3, BlocksOfLaunch DEF Block
<1>8. before[b] = n /\ \A c \in adjacent[b] : before[c] >= before[b]
  <2>1. before[b] = n /\ adjacent[b] = Adjacent(b)
    BY <1>5, <1>7
  <2>2. ASSUME NEW c \in Adjacent(b) PROVE before[c] >= n
    BY <1>6, <1>7
  <2> QED
    BY <2>1, <2>2
<1>9. after = [before EXCEPT ![b] = n + 1]
  <2>1. after = [c \in AnyBlock |-> IF c \in Block THEN IterationOfBlock(c[1], c[2])' ELSE 0]
    BY <1>1, SameBlocks
  <2>2. ASSUME NEW c \in AnyBlock
        PROVE  after[c] = IF c = b THEN n + 1 ELSE before[c]
    <3>1. CASE c \in Block
      <4> PICK q \in Process : c = <<q, Here>>
        BY <1>3, <3>1 DEF Block
      <4>1. after[c] = IterationOfBlock(q, Here)' /\ before[c] = IterationOfBlock(q, Here)
        BY <2>1, <3>1
      <4> QED
        BY <1>5, <4>1
    <3>2. CASE c \notin Block
      BY <1>7, <2>1, <3>2
    <3> QED
      BY <3>1, <3>2
  <2>3. before = [c \in AnyBlock |-> before[c]] /\ after = [c \in AnyBlock |-> after[c]]
    BY <2>1
  <2> QED
    BY <1>7, <2>2, <2>3
<1>10. [c \in AnyBlock |-> IF c \in Block THEN Adjacent(c) ELSE {}]' = adjacent
  BY <1>1, SameBlocks
<1> QED
  BY <1>7, <1>8, <1>9, <1>10 DEF Blocks!Next, Blocks!Advance

\* All other steps stutter.
LEMMA MPINextImplements ==
  ASSUME MPIInv, Shown, Shown', MPI!Next
  PROVE  [Blocks!Next]_(Blocks!vars)
<1>1. MPI!Process = Process
  BY SameNames
<1>2. ASSUME grid' = grid, iter' = iter, \A q \in Process : phase'[q] = "wait" <=> phase[q] = "wait"
      PROVE  UNCHANGED Blocks!vars
  BY <1>2, SameReach DEF Reach
<1>3. CASE MPI!AbortLaunch
  <2>1. /\ ~WellFormed /\ phase' = [p \in Process |-> "aborted"] /\ grid' = grid /\ iter' = iter
    BY <1>1, <1>3, SameNames DEF MPI!AbortLaunch, MPI!Abort, MPI!mpiVars
  <2>2. \A p \in Process : phase[p] \in Halted
    BY <2>1 DEF MPIInv, OneBlock, GridOK, Halted
  <2> QED
    BY <1>2, <2>1, <2>2 DEF Halted
<1>4. CASE MPI!Barrier \/ MPI!EndBarrier
  BY <1>1, <1>2, <1>4 DEF MPI!Barrier, MPI!EndBarrier, MPI!Collectively, MPI!mpiVars
<1>5. CASE MPI!Reduce
  BY <1>1, <1>2, <1>5 DEF MPI!Reduce, MPI!Goto, MPI!mpiVars, MPIInv, TablesOK
<1>6. ASSUME NEW p \in Process, MPI!Reset(p) \/ MPI!GiveResidual(p) PROVE UNCHANGED Blocks!vars
  <2>1. /\ phase[p] # "wait" /\ grid' = grid /\ iter' = iter
        /\ \E to \in {"barrier", "reduce", "end"} : phase' = [phase EXCEPT ![p] = to]
    BY <1>6 DEF MPI!Reset, MPI!GiveResidual, MPI!Goto, MPI!mpiVars
  <2> QED
    BY <1>2, <2>1 DEF MPIInv, TablesOK
<1>7. ASSUME NEW p \in Process, MPI!ComputeAndPost(p) PROVE Blocks!Next
  BY <1>7, ComputeAdvancesBlock
<1>8. ASSUME NEW p \in Process, MPI!WaitAndUnpack(p) PROVE UNCHANGED Blocks!vars
  <2>1. /\ phase[p] = "wait" /\ grid' = grid /\ iter' = [iter EXCEPT ![p] = @ + 1]
        /\ phase' = [phase EXCEPT ![p] = "solve"]
    BY <1>8 DEF MPI!WaitAndUnpack
  <2>2. \A q \in Process : Reach(q)' = Reach(q)
    BY <2>1 DEF MPIInv, TablesOK, Reach
  <2> QED
    BY <2>1, <2>2, SameReach
<1>9. ASSUME NEW p \in Process, NEW f, MPI!Buffer(p, f) \/ MPI!Deliver(p, f) \/ \E h : MPI!Rendezvous(p, f, h)
      PROVE  UNCHANGED Blocks!vars
  <2>1. grid' = grid /\ iter' = iter /\ phase' = phase
    BY <1>9 DEF MPI!Buffer, MPI!Deliver, MPI!Rendezvous
  <2> QED
    BY <1>2, <2>1
<1> QED
  BY <1>1, <1>3, <1>4, <1>5, <1>6, <1>7, <1>8, <1>9 DEF MPI!Next

-----------------------------------------------------------------------------
(* The program, in either version.                                         *)

\* What holds of the version that is run.
SolverInv ==
  /\ version = "taskr" => IInv /\ Right /\ Counted /\ Accounted
  /\ version = "mpi" => MPIInv
  /\ version \in {"taskr", "mpi"}

\* It holds at first and is kept,
LEMMA SolverInit == MCInit => SolverInv
<1> SUFFICES ASSUME MCInit PROVE SolverInv
  OBVIOUS
<1>1. CASE version = "taskr"
  BY <1>1, InitIInv, InitRight, InitCounted, InitAccounted DEF MCInit, SolverInv
<1>2. CASE version = "mpi"
  BY <1>2, MPIInit DEF MCInit, SolverInv
<1> QED
  BY <1>1, <1>2 DEF MCInit

LEMMA SolverKeeps == SolverInv /\ [MCNext]_allVars => SolverInv'
<1> SUFFICES ASSUME SolverInv, [MCNext]_allVars PROVE SolverInv'
  OBVIOUS
<1>1. CASE version = "taskr"
  <2>1. [Next]_vars /\ version' = version
    BY <1>1 DEF MCNext, TaskRNext, MPINext, allVars
  <2> QED
    BY <1>1, <2>1, NextKeeps, NextKeepsRight, NextKeepsCounted, NextKeepsAccounted DEF SolverInv
<1>2. CASE version = "mpi"
  <2>1. \/ MPI!Next /\ version' = version
        \/ /\ UNCHANGED <<grid, array, phase, residual>> /\ version' = version
           /\ UNCHANGED <<iter, request, sendBuffer, recvBuffer, mail>>
    BY <1>2 DEF MCNext, TaskRNext, MPINext, allVars, vars, mpiVars
  <2> QED
    BY <1>2, <2>1, MPINextKeeps, MPIStutterKeeps DEF SolverInv
<1> QED
  BY <1>1, <1>2 DEF SolverInv

\* so that it holds in every state.
LEMMA SolverInvariant == MCSpec => []SolverInv
BY SolverInit, SolverKeeps, PTL DEF MCSpec

(* Whatever the grid and the decomposition, and with or without tasks, no value *)
(* is ever computed from anything but the values of the previous iteration      *)
(* around it: on MPI because a process unpacks only when all requests are       *)
(* complete, and messages of different iterations, though they have the same    *)
(* source and tag, arrive in order (mpi/grid.cpp:270-335).                      *)
THEOREM SolverOnlyRightValues == MCSpec => []OnlyRightValues
<1>1. SolverInv => OnlyRightValues
  BY DEF SolverInv, Right, MPIInv
<1> QED
  BY <1>1, SolverInvariant, PTL

(* The residual that the root reports is that of the whole domain after the     *)
(* last iteration: MPI_Reduce adds the part of every process once, and each is  *)
(* given only after the last ghost cells have arrived (mpi/grid.cpp:335-416).   *)
THEOREM SolverResidualIsComplete == MCSpec => []ResidualIsComplete
<1>1. SolverInv => ResidualIsComplete
  <2>1. IInv /\ Accounted => ResidualIsComplete
    BY AccountedIsComplete
  <2>2. MPIInv => ResidualIsComplete
    BY DEF MPIInv, SumsGiven, ResidualIsComplete, TotalOf
  <2> QED
    BY <2>1, <2>2 DEF SolverInv
<1> QED
  BY <1>1, SolverInvariant, PTL

\* What a block shows is how far it is, in the version that is run.
SolverShown ==
  /\ version = "taskr" => Iterates
  /\ version = "mpi" => Shown

\* Both versions begin as Stencil does,
LEMMA SolverInitImplements == MCInit => Blocks!Init
<1>1. Init => Blocks!Init
  <2> SUFFICES ASSUME Init PROVE Blocks!Init
    OBVIOUS
  <2>1. IInv /\ Right /\ Counted /\ finished = [p \in Process |-> {}]
    BY InitIInv, InitRight, InitCounted DEF Init, InitTaskR
  <2>2. Iterates
    BY <2>1, IterationCounts DEF Iterates
  <2> QED
    BY <2>1, <2>2, InitImplementsStencil
<1> QED
  BY <1>1 DEF MCInit

\* and each of their steps is one of Stencil, or nothing that it sees.
LEMMA SolverNextImplements ==
  SolverInv /\ SolverShown /\ SolverInv' /\ SolverShown' /\ [MCNext]_allVars => [Blocks!Next]_(Blocks!vars)
<1> SUFFICES ASSUME SolverInv, SolverShown, SolverInv', SolverShown', [MCNext]_allVars
             PROVE  [Blocks!Next]_(Blocks!vars)
  OBVIOUS
<1>1. CASE version = "taskr"
  <2>1. [Next]_vars /\ version' = version
    BY <1>1 DEF MCNext, TaskRNext, MPINext, allVars
  <2>2. IInv /\ Right /\ Counted /\ Iterates /\ Counted' /\ Iterates'
    BY <1>1, <2>1 DEF SolverInv, SolverShown
  <2> QED
    BY <2>1, <2>2, NextImplementsStencil
<1>2. CASE version = "mpi"
  <2>1. \/ MPI!Next /\ version' = version
        \/ /\ UNCHANGED <<grid, array, phase, residual>> /\ version' = version
           /\ UNCHANGED <<iter, request, sendBuffer, recvBuffer, mail>>
    BY <1>2 DEF MCNext, TaskRNext, MPINext, allVars, vars, mpiVars
  <2>2. MPIInv /\ Shown /\ Shown'
    BY <1>2, <2>1 DEF SolverInv, SolverShown
  <2>3. CASE MPI!Next
    BY <2>2, <2>3, MPINextImplements
  <2>4. CASE UNCHANGED <<grid, array, phase, residual>> /\ UNCHANGED <<iter, request, sendBuffer, recvBuffer, mail>>
    <3>1. grid' = grid /\ \A p \in Process : Reach(p)' = Reach(p)
      BY <2>4 DEF Reach
    <3> QED
      BY <2>2, <3>1, SameReach
  <2> QED
    BY <2>1, <2>3, <2>4
<1> QED
  BY <1>1, <1>2 DEF SolverInv

(* Both versions implement Stencil: a block computes an iteration only when all *)
(* its neighbours have computed the one before.                                 *)
THEOREM SolverImplementsStencil == MCSpec => ImplementsStencil
<1>1. SolverInv => SolverShown
  BY IterationCounts, ReachShown DEF SolverInv, SolverShown, Iterates, Shown
<1> QED
  BY <1>1, SolverInit, SolverKeeps, SolverInitImplements, SolverNextImplements, PTL
     DEF MCSpec, ImplementsStencil, Blocks!Spec

-----------------------------------------------------------------------------
(* What Stencil promises of neighbours.                                    *)

StencilInv == Blocks!TypeOK /\ Blocks!Symmetric /\ Blocks!InStep

\* Only the block that advances can run ahead, and its neighbours are not behind.
LEMMA AdvanceStaysInStep ==
  ASSUME NEW B, NEW next \in [B -> SUBSET B], \A b, c \in B : c \in next[b] => b \in next[c],
         NEW n \in [B -> Nat], \A b \in B : \A c \in next[b] : n[c] <= n[b] + 1,
         NEW b \in B, \A c \in next[b] : n[c] >= n[b], NEW m, m = [n EXCEPT ![b] = @ + 1]
  PROVE  m \in [B -> Nat] /\ \A d \in B : \A c \in next[d] : m[c] <= m[d] + 1
<1>1. m \in [B -> Nat]
  OBVIOUS
<1>2. ASSUME NEW d \in B, NEW c \in next[d] PROVE m[c] <= m[d] + 1
  <2>1. c \in B /\ d \in next[c] /\ n[c] <= n[d] + 1 /\ n[c] \in Nat /\ n[d] \in Nat
    OBVIOUS
  <2>2. c = b => n[d] >= n[c]
    BY <2>1
  <2>3. /\ m[c] = (IF c = b THEN n[c] + 1 ELSE n[c])
        /\ m[d] = (IF d = b THEN n[d] + 1 ELSE n[d])
    BY <2>1
  <2> QED
    BY <2>1, <2>2, <2>3
<1> QED
  BY <1>1, <1>2

LEMMA BlocksKeep == StencilInv /\ [Blocks!Next]_(Blocks!vars) => StencilInv'
<1> SUFFICES ASSUME StencilInv, [Blocks!Next]_(Blocks!vars) PROVE StencilInv'
  OBVIOUS
<1> PICK next, n, m :
      /\ next = [b \in AnyBlock |-> IF b \in Block THEN Adjacent(b) ELSE {}]
      /\ n = [b \in AnyBlock |-> IF b \in Block THEN IterationOfBlock(b[1], b[2]) ELSE 0]
      /\ m = [b \in AnyBlock |-> IF b \in Block THEN IterationOfBlock(b[1], b[2]) ELSE 0]'
  OBVIOUS
<1>1. /\ next \in [AnyBlock -> SUBSET AnyBlock] /\ n \in [AnyBlock -> Nat]
      /\ \A b, c \in AnyBlock : c \in next[b] => b \in next[c]
      /\ \A b \in AnyBlock : \A c \in next[b] : n[c] <= n[b] + 1
  BY DEF StencilInv, Blocks!TypeOK, Blocks!Symmetric, Blocks!InStep
<1>2. AnyBlock' = AnyBlock
  BY DEF AnyBlock
<1>3. [b \in AnyBlock |-> IF b \in Block THEN Adjacent(b) ELSE {}]' = next
  BY DEF Blocks!Next, Blocks!Advance, Blocks!vars
<1>4. \/ m = n
      \/ \E b \in AnyBlock : (\A c \in next[b] : n[c] >= n[b]) /\ m = [n EXCEPT ![b] = @ + 1]
  BY DEF Blocks!Next, Blocks!Advance, Blocks!vars
<1>5. m \in [AnyBlock -> Nat] /\ \A b \in AnyBlock : \A c \in next[b] : m[c] <= m[b] + 1
  <2>1. ASSUME NEW b \in AnyBlock, \A c \in next[b] : n[c] >= n[b], m = [n EXCEPT ![b] = @ + 1]
        PROVE  m \in [AnyBlock -> Nat] /\ \A d \in AnyBlock : \A c \in next[d] : m[c] <= m[d] + 1
    BY ONLY <1>1, <2>1, AdvanceStaysInStep
  <2> QED
    BY <1>1, <1>4, <2>1
<1> QED
  BY <1>1, <1>2, <1>3, <1>5 DEF StencilInv, Blocks!TypeOK, Blocks!Symmetric, Blocks!InStep

(* Neighbouring blocks are at most one iteration apart, in the same process or  *)
(* not: it is why the two arrays of grid.hpp, and of the processes on MPI,      *)
(* suffice.                                                                     *)
THEOREM SolverStaysInStep == MCSpec => []Blocks!InStep
<1>1. Blocks!Init => StencilInv
  BY DEF Blocks!Init, StencilInv, Blocks!TypeOK, Blocks!Symmetric, Blocks!InStep
<1>2. StencilInv => Blocks!InStep
  BY DEF StencilInv
<1> QED
  BY <1>1, <1>2, BlocksKeep, SolverImplementsStencil, PTL DEF ImplementsStencil, Blocks!Spec

=============================================================================
