------------------------------ MODULE Jacobi ------------------------------
(***************************************************************************)
(* examples/jacobi3d/source: the Jacobi solver written with TaskR.  Every  *)
(* process cuts its part of the grid into blocks; for each block and       *)
(* iteration there is a Compute, Pack, Send, Receive and Unpack task, and  *)
(* TaskR runs them in any order that their dependencies allow.  Processes  *)
(* exchange faces over bounded channels.                                   *)
(*                                                                         *)
(* TaskR is taken at its promise, module TaskGraph.  A task that does not  *)
(* suspend is one step: it could be interrupted only by a task that may    *)
(* run at the same time, and RaceFree says that those touch nothing of it. *)
(***************************************************************************)
EXTENDS JacobiGrid

CONSTANT ChannelDepth   \* CHANNEL_DEPTH

VARIABLES
  finished,       \* the tasks of each process that have finished
  progress,       \* the steps taken by those that have started and not finished
  packBuffer,     \* the pack buffers, per block and face
  unpackBuffer,   \* the tokens peeked, per block and face
  channel,        \* the tokens in each channel
  gather          \* the residual channel, and the root's progress with it

taskrVars == <<finished, progress, packBuffer, unpackBuffer, channel, gather>>
vars == <<grid, array, phase, residual, taskrVars>>

\* A task that suspended without a callback map is not resumed by anyone.
Lost == 0 - 1

Iteration == 0..(nIters - 1)
Kind == {"Compute", "Pack", "Send", "Receive", "Unpack"}
GraphTask == Kind \X Local \X Iteration
ResidualTask == {"Residual"} \X Local \X {nIters}

-----------------------------------------------------------------------------
(* Channels between blocks of different processes.                         *)

\* The keys under which a block exchanges its token buffer (0) and its consumer
\* (1) and producer (2) coordination buffers, for every tag.
Key(p, l, part) ==
  LET lt == grid.lt IN
  3 * (p * (lt[1] * lt[2] * lt[3]) + grid.localId[l]) + part

\* The three memory slots that an end of a channel is built from; two ends
\* work together only if they are built from the same ones.  Tags are faces.
ProducerEnd(p, l, f) ==
  LET q == Neighbor(p, l, f)[1]
      m == Neighbor(p, l, f)[2] IN
  << <<Opposite(f), Key(q, m, 0)>>, <<Opposite(f), Key(q, m, 1)>>, <<f, Key(p, l, 2)>> >>

\* A mistake that such a wiring invites: the tag of the neighbour's own face.
SameFaceEnd(p, l, f) ==
  LET q == Neighbor(p, l, f)[1]
      m == Neighbor(p, l, f)[2] IN
  << <<f, Key(q, m, 0)>>, <<f, Key(q, m, 1)>>, <<Opposite(f), Key(p, l, 2)>> >>

ConsumerEnd(p, l, f) ==
  LET q == Neighbor(p, l, f)[1]
      m == Neighbor(p, l, f)[2] IN
  << <<f, Key(p, l, 0)>>, <<f, Key(p, l, 1)>>, <<Opposite(f), Key(q, m, 2)>> >>

Channel == {ProducerEnd(r[1], r[2], r[3]) : r \in RemoteFaces}
           \cup {ConsumerEnd(r[1], r[2], r[3]) : r \in RemoteFaces}

NoMessage == <<>>

InitTaskR ==
  /\ finished = [p \in Process |-> {}]
  /\ progress = [p \in Process |-> <<>>]
  /\ packBuffer = [r \in RemoteFaces |-> NoMessage]
  /\ unpackBuffer = [r \in RemoteFaces |-> NoMessage]
  /\ channel = [c \in Channel |-> <<>>]
  /\ gather = [slots |-> [i \in 0..(Cardinality(Process) - 1) |-> NoResidual], head |-> 0,
               count |-> 0, pointer |-> Lost, received |-> 0]

Init == InitGrid /\ InitTaskR

-----------------------------------------------------------------------------
(* The task graph that jacobi3d() builds.                                  *)

\* The neighbours on one side only, as if half of the faces were forgotten.
LowerNeighbors(p, l) ==
  {Neighbor(p, l, f)[2] : f \in {g \in Faces : g[2] = 0 /\ Type(p, l, g) = "LOCAL"}}

\* The blocks of the same process next to l.
LocalNeighbors(p, l) ==
  {Neighbor(p, l, f)[2] : f \in {g \in Faces : Type(p, l, g) = "LOCAL"}}

Before(kind, l, it) == IF it > 0 THEN {<<kind, l, it - 1>>} ELSE {}

Dependencies(p, t) ==
  LET l == t[2]
      it == t[3] IN
  CASE t[1] = "Compute" -> (UNION {Before("Compute", m, it) : m \in LocalNeighbors(p, l) \cup {l}})
                           \cup Before("Pack", l, it) \cup Before("Unpack", l, it)
    [] t[1] = "Receive" -> Before("Unpack", l, it)
    [] t[1] = "Unpack"  -> {<<"Receive", l, it>>, <<"Compute", l, it>>}
    [] t[1] = "Pack"    -> {<<"Compute", l, it>>} \cup Before("Send", l, it)
    [] t[1] = "Send"    -> {<<"Pack", l, it>>}
    [] OTHER            -> {}

\* The last iteration sends nothing: its communication tasks are not added,
\* although they are in the graph and their dependencies may start them.
Added(t) == t[1] \in Kind => (t[1] = "Compute" \/ t[3] < nIters - 1)

\* The run that a task is part of.
PhaseOf(t) == CASE t[1] = "Reset" -> "reset" [] t[1] = "Residual" -> "residual" [] OTHER -> "solve"

\* TaskR's promise: a task starts once those it depends on have finished, if
\* they were added, and without having been added only if there are any.
MayStart(p, t) ==
  /\ phase[p] = PhaseOf(t)
  /\ t \notin finished[p] /\ t \notin DOMAIN progress[p]
  /\ Added(t) \/ Dependencies(p, t) # {}
  /\ \A u \in Dependencies(p, t) : u \in finished[p] /\ Added(u)

\* The number of steps a task has behind it, if it is to take one now.
StepsOf(p, t) == IF t \in DOMAIN progress[p] THEN progress[p][t] ELSE 0
IsLive(p, t) ==
  \/ t \in DOMAIN progress[p] /\ progress[p][t] # Lost
  \/ MayStart(p, t)

\* The task takes a step, the last one if it is step `steps'.
TakeStep(p, t, steps) ==
  LET n == StepsOf(p, t) + 1 IN
  /\ IsLive(p, t)
  /\ IF n >= steps
     THEN /\ finished' = [finished EXCEPT ![p] = @ \cup {t}]
          /\ progress' = [progress EXCEPT ![p] =
                            [u \in DOMAIN @ \ {t} |-> progress[p][u]]]
     ELSE /\ finished' = finished
          /\ progress' = [progress EXCEPT ![p] =
                            [u \in DOMAIN @ \cup {t} |-> IF u = t THEN n ELSE progress[p][u]]]

-----------------------------------------------------------------------------
(* What the tasks do.                                                      *)

\* Blocks reset overlapping parts of the arrays, and at the same time: first
\* 1.0 all over the block and its halo, then 0.0 where that is out of the domain.
Reset(p, l) ==
  LET t == <<"Reset", l, 0>> IN
  /\ TakeStep(p, t, 2)
  /\ array' = [array EXCEPT ![p] =
       IF StepsOf(p, t) = 0 THEN Filled(@, grid.halo[l], One) ELSE Filled(@, grid.outside[<<p, l>>], Zero)]
  /\ UNCHANGED <<grid, phase, packBuffer, unpackBuffer, channel, residual, gather>>

Compute(p, l, it) ==
  /\ TakeStep(p, <<"Compute", l, it>>, 1)
  /\ array' = [array EXCEPT ![p] = Computed(p, l, ThisArray(it), NextArray(it), it)]
  /\ UNCHANGED <<grid, phase, packBuffer, unpackBuffer, channel, residual, gather>>

\* Pack takes what Compute has just written.
Pack(p, l, it) ==
  /\ TakeStep(p, <<"Pack", l, it>>, 1)
  /\ packBuffer' = [r \in RemoteFaces |->
       IF r[1] = p /\ r[2] = l THEN Packed(array[p][NextArray(it)], l, r[3]) ELSE packBuffer[r]]
  /\ UNCHANGED <<grid, array, phase, unpackBuffer, channel, residual, gather>>

\* Send and Receive go through the remote faces in order, and suspend where the
\* channel is full or empty; without remote faces they have nothing to do.
Send(p, l, it) ==
  LET t == <<"Send", l, it>>
      faces == Remote(p, l)
      n == StepsOf(p, t) IN
  /\ TakeStep(p, t, Len(faces))
  /\ IF n < Len(faces)
     THEN LET f == faces[n + 1]
              c == ProducerEnd(p, l, f) IN
          /\ Len(channel[c]) < ChannelDepth
          /\ channel' = [channel EXCEPT ![c] = Append(@, packBuffer[<<p, l, f>>])]
     ELSE UNCHANGED channel
  /\ UNCHANGED <<grid, array, phase, packBuffer, unpackBuffer, residual, gather>>

\* Receive leaves the token in the channel and remembers where it is.
Receive(p, l, it) ==
  LET t == <<"Receive", l, it>>
      faces == Remote(p, l)
      n == StepsOf(p, t) IN
  /\ TakeStep(p, t, Len(faces))
  /\ IF n < Len(faces)
     THEN LET f == faces[n + 1]
              c == ConsumerEnd(p, l, f) IN
          /\ channel[c] # <<>>
          /\ unpackBuffer' = [unpackBuffer EXCEPT ![<<p, l, f>>] = Head(channel[c])]
     ELSE UNCHANGED unpackBuffer
  /\ UNCHANGED <<grid, array, phase, packBuffer, channel, residual, gather>>

\* A Receive task that was not added suspends for good when it finds a channel
\* empty: only addTask would have told TaskR to resume it.
LoseReceive(p, l, it) ==
  LET t == <<"Receive", l, it>>
      faces == Remote(p, l) IN
  /\ MayStart(p, t) /\ ~Added(t)
  /\ faces # <<>> /\ channel[ConsumerEnd(p, l, Head(faces))] = <<>>
  /\ progress' = [progress EXCEPT ![p] =
                    [u \in DOMAIN @ \cup {t} |-> IF u = t THEN Lost ELSE progress[p][u]]]
  /\ UNCHANGED <<grid, array, phase, finished, packBuffer, unpackBuffer,
                 channel, residual, gather>>

\* Unpack fills the ghost cells of the array that the next Compute reads, and
\* only then frees the tokens.
Unpack(p, l, it) ==
  LET faces == {f \in Faces : Type(p, l, f) = "REMOTE"}
      mine == {ConsumerEnd(p, l, f) : f \in faces}
      token == [f \in faces |-> unpackBuffer[<<p, l, f>>]] IN
  /\ TakeStep(p, <<"Unpack", l, it>>, 1)
  /\ array' = [array EXCEPT ![p][NextArray(it)] = Unpacked(@, l, token)]
  /\ channel' = [c \in DOMAIN channel |-> IF c \in mine THEN Tail(channel[c]) ELSE channel[c]]
  /\ UNCHANGED <<grid, phase, packBuffer, unpackBuffer, residual, gather>>

\* Blocks add to the residual of their process; it is an atomic variable.
Residual(p, l) ==
  /\ TakeStep(p, <<"Residual", l, nIters>>, 1)
  /\ residual' = [residual EXCEPT ![p] = Sum(@, LocalResidual(p, l))]
  /\ UNCHANGED <<grid, array, phase, packBuffer, unpackBuffer, channel, gather>>

-----------------------------------------------------------------------------
(* The main threads.                                                       *)

\* Grid::initialize exchanges memory slots and fences: no process gets past it
\* before all have come to it.
Initialize ==
  /\ WellFormed
  /\ Collectively("launch", "reset")
  /\ UNCHANGED <<grid, array, residual, taskrVars>>

AbortLaunch == Abort /\ UNCHANGED taskrVars

\* await() returns when the tasks that were added have finished.
AwaitReset(p) ==
  /\ \A l \in Local : <<"Reset", l, 0>> \in finished[p]
  /\ Goto(p, "reset", "solve")
  /\ UNCHANGED <<grid, array, residual, taskrVars>>

\* The residual is cleared between the solution and the residual tasks.
AwaitSolution(p) ==
  /\ \A t \in GraphTask : Added(t) => t \in finished[p]
  /\ Goto(p, "solve", "residual")
  /\ residual' = [residual EXCEPT ![p] = NoResidual]
  /\ UNCHANGED <<grid, array, taskrVars>>

AwaitResidual(p) ==
  /\ ResidualTask \subseteq finished[p]
  /\ Goto(p, "residual", "exchange")
  /\ UNCHANGED <<grid, array, residual, taskrVars>>

\* The residual channel has a slot per process; its one consumer is the root.
OneSlot == 1
Slots == Cardinality(Process)

PushResidual(p) ==
  /\ p # Root
  /\ Goto(p, "exchange", "done")
  /\ gather.count < Slots
  /\ gather' = [gather EXCEPT !.slots[(gather.head + gather.count) % Slots] = residual[p],
                              !.count = @ + 1]
  /\ UNCHANGED <<grid, array, finished, progress, packBuffer, unpackBuffer,
                 channel, residual>>

\* The root takes the address of a token, frees it, and reads it after that.
PopResidual ==
  /\ phase[Root] = "exchange"
  /\ gather.pointer = Lost /\ gather.count > 0
  /\ gather' = [gather EXCEPT !.pointer = gather.head,
                              !.head = (@ + 1) % Slots,
                              !.count = @ - 1]
  /\ UNCHANGED <<grid, array, phase, finished, progress, packBuffer,
                 unpackBuffer, channel, residual>>

ReadResidual ==
  /\ gather.pointer # Lost
  /\ residual' = [residual EXCEPT ![Root] = Sum(@, gather.slots[gather.pointer])]
  /\ gather' = [gather EXCEPT !.pointer = Lost, !.received = @ + 1]
  /\ UNCHANGED <<grid, array, phase, finished, progress, packBuffer,
                 unpackBuffer, channel>>

Report ==
  /\ gather.received = grid.instances - 1
  /\ Goto(Root, "exchange", "done")
  /\ UNCHANGED <<grid, array, residual, taskrVars>>

RunsTask(p) ==
  \E l \in Local :
    \/ Reset(p, l) \/ Residual(p, l)
    \/ \E it \in Iteration :
         \/ Compute(p, l, it) \/ Pack(p, l, it) \/ Send(p, l, it)
         \/ Receive(p, l, it) \/ LoseReceive(p, l, it) \/ Unpack(p, l, it)

RunsMain(p) ==
  \/ AwaitReset(p) \/ AwaitSolution(p) \/ AwaitResidual(p) \/ PushResidual(p)

Next ==
  \/ Initialize \/ AbortLaunch
  \/ \E p \in Process : RunsTask(p) \/ RunsMain(p)
  \/ PopResidual \/ ReadResidual \/ Report

Spec == Init /\ [][Next]_vars

-----------------------------------------------------------------------------
(* Properties.                                                             *)

\* What a task reads and writes while it runs.
Slot(name, l, faces) == {<<name, l, faces[i]>> : i \in DOMAIN faces}
Layers(layer, l, faces) ==
  UNION {{layer[<<l, faces[i]>>][o] : o \in DOMAIN layer[<<l, faces[i]>>]} : i \in DOMAIN faces}
InArray(b, cells) == {<<"array", b, c>> : c \in cells}

Reads(p, t) ==
  LET l == t[2] IN
  CASE t[1] = "Compute" -> InArray(ThisArray(t[3]), UNION {grid.stencil[d] : d \in grid.inside[l]})
    [] t[1] = "Pack"    -> InArray(NextArray(t[3]), Layers(grid.own, l, Remote(p, l)))
    [] t[1] = "Send"    -> Slot("pack", l, Remote(p, l))
    [] t[1] = "Unpack"  -> Slot("token", l, Remote(p, l))
    [] t[1] = "Residual" -> InArray(nIters % 2, grid.inside[l])
    [] OTHER            -> {}
Writes(p, t) ==
  LET l == t[2] IN
  CASE t[1] = "Compute" -> InArray(NextArray(t[3]), grid.inside[l])
    [] t[1] = "Pack"    -> Slot("pack", l, Remote(p, l))
    [] t[1] = "Receive" -> Slot("token", l, Remote(p, l))
    [] t[1] = "Unpack"  -> InArray(NextArray(t[3]), Layers(grid.ghost, l, Remote(p, l)))
    [] OTHER            -> {}

\* Two tasks of a process that may run at the same time touch no memory that
\* one of them writes: the dependencies of jacobi3d.hpp order all the others,
\* also the tasks of the last iteration that nobody added.
RaceFree ==
  \A p \in Process : phase[p] \in {"solve", "residual"} =>
    \A t, u \in {v \in GraphTask \cup ResidualTask : IsLive(p, v)} :
      t # u => Writes(p, t) \cap (Reads(p, u) \cup Writes(p, u)) = {}

=============================================================================
