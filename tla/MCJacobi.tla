------------------------------ MODULE MCJacobi ------------------------------
(* Both versions of the solver, on domains of eight to 27 cells. *)
EXTENDS Jacobi

VARIABLES version, iter, request, sendBuffer, recvBuffer, mail

MPI == INSTANCE JacobiMPI

G(p, l, n, it, launched) ==
  [pt |-> p, lt |-> l, N |-> n, nIters |-> it, instances |-> launched]

\* Remote faces only; local ones too; a process between two others; only local
\* faces; a domain that the processes do not divide; too many processes.
SmallGeometries ==
  {G(<<2, 1, 1>>, <<1, 1, 1>>, 2, 3, 2),
   G(<<1, 2, 1>>, <<2, 1, 1>>, 2, 2, 2),
   G(<<1, 1, 3>>, <<1, 1, 1>>, 3, 2, 3),
   G(<<1, 1, 1>>, <<2, 1, 1>>, 2, 3, 1),
   G(<<1, 1, 2>>, <<1, 1, 1>>, 3, 2, 2),
   G(<<1, 1, 2>>, <<1, 1, 1>>, 2, 2, 3)}

mpiVars == <<iter, request, sendBuffer, recvBuffer, mail>>
allVars == <<vars, version, mpiVars>>

MCInit ==
  /\ version \in {"taskr", "mpi"}
  /\ Init /\ MPI!InitMPI
  /\ version = "mpi" => grid.lt = <<1, 1, 1>>

TaskRNext == version = "taskr" /\ Next /\ UNCHANGED <<version, mpiVars>>
MPINext   == version = "mpi" /\ MPI!Next /\ UNCHANGED <<version, taskrVars>>
MCNext    == TaskRNext \/ MPINext

\* Processes and their workers keep running; TaskR starts what may start.
MCSpec == MCInit /\ [][MCNext]_allVars /\ WF_allVars(MCNext)

\* Two tasks that may run at the same time touch no memory that one of them writes.
TasksAreRaceFree == version = "taskr" => RaceFree

=============================================================================
