------------------------- MODULE RuntimeRefinement -------------------------
(***************************************************************************)
(* The scheduler of Runtime keeps the promise of TaskGraph.                *)
(***************************************************************************)
EXTENDS Runtime

Graph == INSTANCE TaskGraph WITH
  MayDrop      <- Allowed("force"),
  running      <- state = "running",
  dependencies <- [t \in Task |-> {u \in Task : t \in outputDependencies[u]}],
  status       <- taskState

\* Whatever the workers do in between, each of their steps is a step of the
\* task graph or none: no task starts before its dependencies or runs twice,
\* and await() returns to tasks only that have finished or, by force, have been
\* dropped, never to run again.
ImplementsTaskGraph == Graph!Spec

\* Besides, the scheduler starts and ends every task that the graph lets start.
ServesTaskGraph == Graph!FairSpec

=============================================================================
