----------------------------- MODULE JacobiMPI -----------------------------
(***************************************************************************)
(* examples/jacobi3d/mpi: the same solver without tasks, the version that  *)
(* the one written with TaskR is compared with.  A process has one block,  *)
(* and exchanges its faces with non-blocking MPI calls.                    *)
(*                                                                         *)
(* Of MPI: messages with the same source, destination and tag arrive in    *)
(* order, and a send may complete before its receive, or only with it.     *)
(***************************************************************************)
EXTENDS JacobiGrid

VARIABLES
  iter,         \* the iteration each process is in
  request,      \* the requests that each process has not seen completed
  sendBuffer,   \* one buffer per process and face, for what it sends ...
  recvBuffer,   \* ... and one for what it receives
  mail          \* messages sent and not received, per sender and tag

mpiVars == <<iter, request, sendBuffer, recvBuffer, mail>>
vars == <<grid, array, phase, residual, mpiVars>>

\* West and East, North and South, Up and Down are the faces 0 and 1 of X, Y, Z.
Here == <<0, 0, 0>>
RemoteFacesOf(p) == {f \in Faces : Type(p, Here, f) = "REMOTE"}
NeighborId(p, f) == Neighbor(p, Here, f)[1]

\* A process sends to the west with westTAG, and receives from there what its
\* neighbour has sent to the east.
SendTag(f) == f
RecvTag(f) == Opposite(f)

InitMPI ==
  /\ iter = [p \in Process |-> 0]
  /\ request = [p \in Process |-> {}]
  /\ sendBuffer = [r \in RemoteFaces |-> <<>>]
  /\ recvBuffer = [r \in RemoteFaces |-> <<>>]
  /\ mail = [r \in Process \X Process \X Faces |-> <<>>]

Init == InitGrid /\ InitMPI

AbortLaunch == Abort /\ UNCHANGED mpiVars

\* Nobody shares the arrays of a process.
Reset(p) ==
  /\ WellFormed
  /\ Goto(p, "launch", "barrier")
  /\ array' = [array EXCEPT ![p] =
       Filled(Filled(@, grid.halo[Here], One), grid.outside[<<p, Here>>], Zero)]
  /\ UNCHANGED <<grid, residual, mpiVars>>

Barrier ==
  /\ Collectively("barrier", "solve")
  /\ UNCHANGED <<grid, array, residual, mpiVars>>

\* One pass of solve()'s loop up to MPI_Waitall: the sweep, the swap of the two
\* pointers, the receives posted, the faces packed, the sends started.
ComputeAndPost(p) ==
  LET new == Computed(p, Here, ThisArray(iter[p]), NextArray(iter[p]), iter[p])
      faces == RemoteFacesOf(p) IN
  /\ phase[p] = "solve" /\ iter[p] < nIters
  /\ phase' = [phase EXCEPT ![p] = "wait"]
  /\ array' = [array EXCEPT ![p] = new]
  /\ sendBuffer' = [r \in RemoteFaces |->
       IF r[1] = p THEN Packed(new[NextArray(iter[p])], Here, r[3]) ELSE sendBuffer[r]]
  /\ request' = [request EXCEPT ![p] = {"recv", "send"} \X faces]
  /\ UNCHANGED <<grid, residual, iter, recvBuffer, mail>>

\* MPI copies a message and completes the send; the buffer may be used again.
Buffer(p, f) ==
  LET to == <<p, NeighborId(p, f), SendTag(f)>> IN
  /\ <<"send", f>> \in request[p]
  /\ request' = [request EXCEPT ![p] = @ \ {<<"send", f>>}]
  /\ mail' = [mail EXCEPT ![to] = Append(@, sendBuffer[<<p, Here, f>>])]
  /\ UNCHANGED <<grid, array, phase, residual, iter, sendBuffer, recvBuffer>>

\* A posted receive takes the oldest message of its source and tag ...
Deliver(p, f) ==
  LET from == <<NeighborId(p, f), p, RecvTag(f)>> IN
  /\ <<"recv", f>> \in request[p] /\ mail[from] # <<>>
  /\ recvBuffer' = [recvBuffer EXCEPT ![<<p, Here, f>>] = Head(mail[from])]
  /\ mail' = [mail EXCEPT ![from] = Tail(@)]
  /\ request' = [request EXCEPT ![p] = @ \ {<<"recv", f>>}]
  /\ UNCHANGED <<grid, array, phase, residual, iter, sendBuffer>>

\* ... or, if none was buffered, straight from the buffer of its sender.
Rendezvous(p, f, g) ==
  LET q == NeighborId(p, f) IN
  /\ <<"recv", f>> \in request[p] /\ mail[<<q, p, RecvTag(f)>>] = <<>>
  /\ <<"send", g>> \in request[q] /\ NeighborId(q, g) = p /\ SendTag(g) = RecvTag(f)
  /\ recvBuffer' = [recvBuffer EXCEPT ![<<p, Here, f>>] = sendBuffer[<<q, Here, g>>]]
  /\ request' = [request EXCEPT ![p] = @ \ {<<"recv", f>>}, ![q] = @ \ {<<"send", g>>}]
  /\ UNCHANGED <<grid, array, phase, residual, iter, sendBuffer, mail>>

\* Waiting for the sends alone, as a count of requests one section short would.
WaitForSends(p) ==
  LET message == [f \in RemoteFacesOf(p) |-> recvBuffer[<<p, Here, f>>]] IN
  /\ phase[p] = "wait" /\ \A f \in Faces : <<"send", f>> \notin request[p]
  /\ array' = [array EXCEPT ![p][NextArray(iter[p])] =
                 IF request[p] = {} THEN Unpacked(@, Here, message) ELSE @]
  /\ iter' = [iter EXCEPT ![p] = @ + 1]
  /\ phase' = [phase EXCEPT ![p] = "solve"]
  /\ UNCHANGED <<grid, residual, request, sendBuffer, recvBuffer, mail>>

\* MPI_Waitall, and the messages go into the ghost cells; also after the last
\* iteration.
WaitAndUnpack(p) ==
  LET message == [f \in RemoteFacesOf(p) |-> recvBuffer[<<p, Here, f>>]] IN
  /\ phase[p] = "wait" /\ request[p] = {}
  /\ array' = [array EXCEPT ![p][NextArray(iter[p])] = Unpacked(@, Here, message)]
  /\ iter' = [iter EXCEPT ![p] = @ + 1]
  /\ phase' = [phase EXCEPT ![p] = "solve"]
  /\ UNCHANGED <<grid, residual, request, sendBuffer, recvBuffer, mail>>

\* calculateResidual: MPI_Reduce lets all but the root go on once they have
\* given their part; main() has a barrier before it ends.
GiveResidual(p) ==
  /\ iter[p] = nIters
  /\ Goto(p, "solve", IF p = Root THEN "reduce" ELSE "end")
  /\ residual' = [residual EXCEPT ![p] = LocalResidual(p, Here)]
  /\ UNCHANGED <<grid, array, mpiVars>>

Reduce ==
  /\ \A p \in Process \ {Root} : phase[p] = "end"
  /\ Goto(Root, "reduce", "end")
  /\ residual' = [residual EXCEPT ![Root] =
       [values |-> UNION {residual[p].values : p \in Process},
        terms  |-> Cardinality(Process) * Cardinality(grid.inside[Here])]]
  /\ UNCHANGED <<grid, array, mpiVars>>

EndBarrier ==
  /\ Collectively("end", "done")
  /\ UNCHANGED <<grid, array, residual, mpiVars>>

Next ==
  \/ AbortLaunch \/ Barrier \/ Reduce \/ EndBarrier
  \/ \E p \in Process :
       \/ Reset(p) \/ ComputeAndPost(p) \/ WaitAndUnpack(p) \/ GiveResidual(p)
       \/ \E f \in RemoteFacesOf(p) :
            \/ Buffer(p, f) \/ Deliver(p, f)
            \/ \E g \in RemoteFacesOf(NeighborId(p, f)) : Rendezvous(p, f, g)

Spec == Init /\ [][Next]_vars

=============================================================================
