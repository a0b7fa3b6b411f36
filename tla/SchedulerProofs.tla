--------------------------- MODULE SchedulerProofs ---------------------------
(***************************************************************************)
(* Proofs about what the scheduler knows of the tasks that are left: its   *)
(* count of them is right, none is lost, and the workers stop only when    *)
(* there is nothing left to run.  They build on RuntimeProofs, so they   *)
(* are about applications that build the graph of a task before they add   *)
(* it.                                                                     *)
(***************************************************************************)
EXTENDS RuntimeRefinement, RuntimeProofs

-----------------------------------------------------------------------------
(* The parts of the inductive invariant.                                   *)

\* Only a task that was added and has finished reports to its dependents.
NotifiersEnded ==
  \A u \in Task : notified[u] # {} => u \in added /\ taskState[u] = "finished"

\* Every dependent of an added task is added: what a dependency pushes is counted.
Closed ==
  \A t, u \in Task : t \in outputDependencies[u] /\ u \in added => t \in added

Draining == \E w \in Worker : pc[w] \in {"drainCommon", "drainOwn"}

\* A task that a forced termination drops has been counted.
DroppedIsCounted ==
  /\ forceTerminate \/ Draining => Allowed("force")
  /\ /\ state = "running"
     /\ forceTerminate \/ Draining \/ ~Allowed("partialGraph")
     => Closed

CountInv == NotifiersEnded /\ DroppedIsCounted /\ CountIsAccurate

\* A worker's HiCR state fits the point of its loop that it is at.
WorkerFits ==
  \A w \in Worker :
    /\ pc[w] \in Points \ {"mainLoop", "asleep", "stopped", "leave",
                           "checkTermination"} => workerState[w] = "running"
    /\ pc[w] = "checkTermination" => workerState[w] \in {"running", "suspending"}
    /\ pc[w] = "leave" /\ task[w] # NoTask => workerState[w] = "running"
    /\ pc[w] \in {"leave", "mainLoop"} =>
         workerState[w] \in {"running", "suspending", "terminating"}
    /\ pc[w] = "asleep" => workerState[w] \in {"suspended", "resuming"}
    /\ pc[w] = "stopped" => workerState[w] = "terminated"

\* A worker that will look at the common queue before it next asks whether it
\* may terminate.
Attentive(w) ==
  \/ pc[w] \in Pulled \cup {"drainCommon", "drainOwn", "pullOwn", "pullCommon",
                            "asleep"}
  \/ pc[w] = "leave" /\ task[w] # NoTask
  \/ pc[w] = "mainLoop" /\ workerState[w] # "terminating"

\* A task that was never added is run once, and at once.
ReadyIsFresh ==
  /\ \A t \in Task : taskState[t] = "ready" => pendingOperations[t] = <<>>
  /\ \A t \in Task \ added :
       /\ \A q \in Queue : Queued(t, q) => taskState[t] = "ready"
       /\ \A w \in Worker : Held(t, w) /\ pc[w] \in {"poll", "leave", "run"} =>
                              taskState[t] = "ready"

\* As long as a task waits in the common queue some worker will look there,
\* also when the tasks that are left are counted by nobody.
SomebodyLooks ==
  state = "running" /\ ActiveTask = {} /\ (\E t \in Task : Queued(t, Common))
    => \E w \in Worker : Attentive(w)

RestInv == WorkerFits /\ ReadyIsFresh /\ SomebodyLooks

-----------------------------------------------------------------------------
(* What a step does to the task graph, the states of tasks and the workers *)
(* that hold them.                                                         *)

\* The steps of a worker that leave the states of tasks and who holds them.
Quiet(w) ==
  \/ EnterLoop(w) \/ PollSatisfied(w) \/ PollDone(w) \/ CheckSuspension(w)
  \/ CheckTermination(w) \/ LeaveLoop(w) \/ Sleep(w) \/ WakeUp(w)
  \/ Terminate(w) \/ ResumeDependent(w)
  \/ \E op \in Operation : AddPendingOperation(w, op)
  \/ \E a \in Affinities : SetWorkerAffinity(w, a)

\* The head of a queue goes to a worker, or is dropped.
Pulling(w) == PullOwn(w) \/ PullCommon(w)
Dropping(w) == DrainCommon(w) \/ DrainOwn(w)
Requeuing(w) == PollUnsatisfied(w) \/ OnTaskSuspend(w)
Advancing(w) == RunTask(w) \/ Suspend(w) \/ Finish(w)

LEMMA WorkerCases ==
  ASSUME NEW w \in Worker, WorkerStep(w)
  PROVE  \/ Quiet(w) \/ Pulling(w) \/ Dropping(w) \/ Requeuing(w)
         \/ Advancing(w) \/ OnTaskFinish(w)
  BY DEF WorkerStep, Body, Quiet, Pulling, Dropping, Requeuing, Advancing

\* Who has been added changes by addTask, the graph by addDependency, and how
\* far the ends of tasks have been reported by notifications only.
LEMMA WorkerFrame ==
  ASSUME NEW w \in Worker, WorkerStep(w)
  PROVE  UNCHANGED <<runtimeVars, graphVars>>
<1>1. CASE Quiet(w)
  BY <1>1 DEF Quiet, EnterLoop, PollSatisfied, PollDone, CheckSuspension,
    CheckTermination, LeaveLoop, Sleep, WakeUp, Terminate, ResumeDependent,
    AddPendingOperation, SetWorkerAffinity
<1>2. CASE Pulling(w) \/ Dropping(w)
  BY <1>2 DEF Pulling, PullOwn, PullCommon, Pull, Dropping, DrainCommon,
    DrainOwn, Drain
<1>3. CASE Requeuing(w) \/ Advancing(w) \/ OnTaskFinish(w)
  BY <1>3 DEF Requeuing, PollUnsatisfied, OnTaskSuspend, Advancing, RunTask,
    Suspend, Finish, OnTaskFinish
<1> QED
  BY <1>1, <1>2, <1>3, WorkerCases

LEMMA QuietFrame ==
  ASSUME NEW w \in Worker, Quiet(w)
  PROVE  UNCHANGED <<activeTaskCount, taskState, task>>
  BY DEF Quiet, EnterLoop, PollSatisfied, PollDone, CheckSuspension,
    CheckTermination, LeaveLoop, Sleep, WakeUp, Terminate, ResumeDependent,
    AddPendingOperation, SetWorkerAffinity

\* A worker comes to empty queues only after it has found the flag set.
LEMMA DrainingStep ==
  ASSUME TypeOK, [Next]_vars, Draining'
  PROVE  Draining \/ (forceTerminate /\ state = state')
<1> USE DEF Draining, TypeOK
<1>1. CASE Control
  BY <1>1 DEF Control, Initialize, Run, RunRejected, Await, Finalize,
              ForceTermination, SetFinishOnLastTask, workerVars
<1>2. CASE \E t, u \in Task : AddDependency(t, u)
  BY <1>2 DEF AddDependency, workerVars
<1>3. CASE \E t \in Task : AddTask(t)
  BY <1>3 DEF AddTask, workerVars
<1>4. ASSUME NEW w \in Worker, WorkerStep(w)
      PROVE  Draining \/ (forceTerminate /\ state = state')
  <2>1. CASE EnterLoop(w)
    BY <2>1 DEF EnterLoop, Goto, runtimeVars
  <2>2. CASE Dropping(w)
    BY <2>2 DEF Dropping, DrainCommon, DrainOwn, Drain, Goto
  <2>3. CASE ~EnterLoop(w) /\ ~Dropping(w)
    <3>1. \E to \in Points \ {"drainCommon", "drainOwn"} :
            pc' = [pc EXCEPT ![w] = to]
      BY <1>4, <2>3
      DEF WorkerStep, Body, Dropping, PullOwn, PullCommon, Pull, PollSatisfied,
        PollUnsatisfied, PollDone, CheckSuspension, CheckTermination,
        LeaveLoop, Sleep, WakeUp, Terminate, RunTask, OnTaskSuspend,
        ResumeDependent, OnTaskFinish, AddPendingOperation, SetWorkerAffinity,
        Suspend, Finish, Goto, Points, Pulled, InLoop
    <3> QED
      BY <3>1
  <2> QED
    BY <2>1, <2>2, <2>3
<1>5. ASSUME NEW w \in Worker, NEW d \in Task, Notify(w, d) PROVE Draining
  BY <1>5 DEF Notify, Goto
<1>6. CASE UNCHANGED vars
  BY <1>6 DEF vars, workerVars
<1> QED
  BY <1>1, <1>2, <1>3, <1>4, <1>5, <1>6, NextCases

-----------------------------------------------------------------------------
(* The count of active tasks.                                              *)

LEMMA ActiveIsFinite ==
  ASSUME TypeOK
  PROVE  IsFiniteSet(ActiveTask) /\ Cardinality(ActiveTask) \in Nat
<1>1. ActiveTask \in SUBSET Task
  BY DEF ActiveTask, TypeOK
<1> QED
  BY <1>1, TaskAssumption, FS_Subset, FS_CardinalityType

\* A finished task is not touched any more.
LEMMA FinishedStays ==
  ASSUME Inv, [Next]_vars, NEW t \in Task, taskState[t] = "finished"
  PROVE  taskState'[t] = "finished"
<1> USE DEF Inv, TypeInv, TypeOK, PlaceInv, StateFits, Resumable, Held
<1>1. CASE Control
  BY <1>1 DEF Control, Initialize, Run, RunRejected, Await, Finalize,
              ForceTermination, SetFinishOnLastTask
<1>2. CASE \/ \E u, v \in Task : AddDependency(u, v)
           \/ \E u \in Task : AddTask(u)
           \/ \E w \in Worker, d \in Task : Notify(w, d)
  BY <1>2 DEF AddDependency, AddTask, Notify
<1>3. ASSUME NEW w \in Worker, WorkerStep(w) PROVE taskState'[t] = "finished"
  <2>1. CASE Advancing(w)
    <3>1. /\ pc[w] \in {"run", "exec"}
          /\ \E st \in TaskStates : taskState' = [taskState EXCEPT ![task[w]] = st]
      BY <2>1 DEF Advancing, RunTask, Suspend, Finish, Goto, TaskStates
    <3>2. task[w] \in Task /\ taskState[task[w]] # "finished"
      BY <3>1 DEF Pulled
    <3> QED
      BY <3>1, <3>2
  <2>2. ASSUME NEW q \in Queue, NEW from, NEW to, Drain(w, q, from, to)
        PROVE  taskState'[t] = "finished"
    <3>1. CASE readyQueue[q] = <<>>
      BY <2>2, <3>1 DEF Drain
    <3>2. CASE readyQueue[q] # <<>>
      <4>1. /\ readyQueue' = [readyQueue EXCEPT ![q] = Tail(@)]
            /\ taskState' = [taskState EXCEPT ![Head(readyQueue[q])] = "drained"]
        BY <2>2, <3>2 DEF Drain, Drop
      <4>2. /\ Head(readyQueue[q]) \in Task
            /\ taskState[Head(readyQueue[q])] # "finished"
        BY <3>2, <4>1, QueuesPop
      <4> QED
        BY <4>1, <4>2
    <3> QED
      BY <3>1, <3>2
  <2>3. CASE Dropping(w)
    BY <2>2, <2>3 DEF Dropping, DrainCommon, DrainOwn, Queue
  <2>4. CASE Quiet(w)
    BY <2>4, QuietFrame
  <2>5. CASE Pulling(w) \/ Requeuing(w) \/ OnTaskFinish(w)
    BY <2>5 DEF Pulling, PullOwn, PullCommon, Pull, Requeuing,
                PollUnsatisfied, OnTaskSuspend, OnTaskFinish
  <2> QED
    BY <1>3, <2>1, <2>3, <2>4, <2>5, WorkerCases
<1>4. CASE UNCHANGED vars
  BY <1>4 DEF vars
<1> QED
  BY <1>1, <1>2, <1>3, <1>4, NextCases

LEMMA NotifiersStep ==
  ASSUME Inv, NotifiersEnded, [Next]_vars
  PROVE  NotifiersEnded'
<1> SUFFICES ASSUME NEW u \in Task, notified'[u] # {}
             PROVE  u \in added' /\ taskState'[u] = "finished"
  BY DEF NotifiersEnded
<1>1. CASE notified[u] # {}
  <2>1. added \subseteq added'
    BY NextCases, WorkerFrame
    DEF Control, Initialize, Run, RunRejected, Await, Finalize,
        ForceTermination, SetFinishOnLastTask, AddDependency, AddTask, Notify,
        graphVars, vars
  <2> QED
    BY <1>1, <2>1, FinishedStays DEF NotifiersEnded
<1>2. CASE notified[u] = {}
  <2>1. \A w \in Worker : WorkerStep(w) => notified' = notified
    BY WorkerFrame DEF graphVars
  <2>2. PICK w \in Worker, d \in Task : Notify(w, d)
    BY <1>2, <2>1, NextCases
    DEF Control, Initialize, Run, RunRejected, Await, Finalize,
        ForceTermination, SetFinishOnLastTask, AddDependency, AddTask,
        graphVars, vars
  <2>3. /\ pc[w] = "notify" /\ task[w] \in added
        /\ notified' = [notified EXCEPT ![task[w]] = @ \cup {d}]
        /\ UNCHANGED <<added, taskState>>
    BY <2>2 DEF Notify, Goto, HasCallbackMap
  <2>4. u = task[w]
    BY <1>2, <2>3 DEF Inv, TypeInv, TypeOK
  <2> QED
    BY <2>3, <2>4 DEF Inv, PlaceInv, StateFits, Held
<1> QED
  BY <1>1, <1>2

\* A task that was dropped or run without having been added was reported to.
LEMMA LocatedIsAdded ==
  ASSUME Inv, NotifiersEnded, Closed, NEW t \in Task, Located(t)
  PROVE  t \in added
<1>1. ~Fresh(t)
  BY DEF Inv, PlaceInv, UntouchedBefore
<1>2. CASE \E u \in Task : t \in notified[u]
  BY <1>2 DEF NotifiersEnded, Closed, Inv, TypeInv, ReportsToDependents
<1> QED
  BY <1>1, <1>2 DEF Fresh

LEMMA DroppedStep ==
  ASSUME OrderlyClient, Inv, DroppedIsCounted, [Next]_vars
  PROVE  DroppedIsCounted'
<1> USE DEF DroppedIsCounted
<1>1. CASE ForceTermination
  BY <1>1 DEF ForceTermination, GraphIsComplete, Closed, graphVars,
    Draining, workerVars
<1>2. CASE Run
  <2>1. ~forceTerminate' /\ ~Draining'
    BY <1>2 DEF Run, Draining
  <2>2. ~Allowed("partialGraph") => Closed'
    BY <1>2 DEF Run, GraphIsComplete, Closed, graphVars
  <2> QED
    BY <2>1, <2>2
<1>3. CASE ~ForceTermination /\ ~Run
  <2>1. forceTerminate' => forceTerminate
    BY <1>3, NextCases, WorkerFrame
    DEF Control, Initialize, RunRejected, Await, Finalize,
        SetFinishOnLastTask, AddDependency, AddTask, Notify, runtimeVars, vars
  <2>2. state' = "running" => state = "running"
    BY <1>3, NextCases, WorkerFrame
    DEF Control, Initialize, RunRejected, Await, Finalize,
        SetFinishOnLastTask, AddDependency, AddTask, Notify, runtimeVars, vars
  <2>3. Draining' => Draining \/ forceTerminate
    BY DrainingStep DEF Inv, TypeInv
  <2>4. state = "running" /\ Closed => Closed'
    <3>1. CASE UNCHANGED <<outputDependencies, added>>
      BY <3>1 DEF Closed
    <3>2. ASSUME NEW t \in Task, NEW u \in Task, AddDependency(t, u),
                 state = "running", Closed
          PROVE  Closed'
      <4>1. /\ u \notin added /\ added' = added
            /\ outputDependencies' = [outputDependencies EXCEPT ![u] = @ \cup {t}]
        BY <3>2 DEF AddDependency, OrderlyClient
      <4> QED
        BY <3>2, <4>1 DEF Closed, Inv, TypeInv, TypeOK
    <3>3. ASSUME NEW t \in Task, AddTask(t), state = "running", Closed
          PROVE  Closed'
      <4>1. /\ outputDependencies[t] \subseteq added /\ added' = added \cup {t}
            /\ outputDependencies' = outputDependencies
        BY <3>3 DEF AddTask, MayAdd, OrderlyClient
      <4> QED
        BY <3>3, <4>1 DEF Closed
    <3> QED
      BY <1>3, <3>1, <3>2, <3>3, NextCases, WorkerFrame
      DEF Control, Initialize, RunRejected, Await, Finalize,
          SetFinishOnLastTask, Notify, graphVars, vars
  <2> QED
    BY <2>1, <2>2, <2>3, <2>4
<1> QED
  BY <1>1, <1>2, <1>3

Ended(t) == taskState[t] \in {"finished", "drained"}

\* What leaves tasks, their states and their holders alone changes no activity.
LEMMA SameActivity ==
  ASSUME TypeOK, UNCHANGED added,
         \A t \in Task : Ended(t)' <=> Ended(t),
         \A t \in Task : Ended(t) =>
           ((\E w \in Worker : Held(t, w))' <=> \E w \in Worker : Held(t, w))
  PROVE  ActiveTask' = ActiveTask
  BY DEF ActiveTask, Ended, TypeOK

\* The head of a queue is taken by a worker that had nothing.
LEMMA PullingFrame ==
  ASSUME Inv, NEW w \in Worker, Pulling(w)
  PROVE  /\ UNCHANGED <<runtimeVars, activeTaskCount, activeTaskWorkerCount,
                        taskState, graphVars, bodyVars, workerState, dependent>>
         /\ \/ /\ UNCHANGED <<readyQueue, task>>
               /\ \/ /\ pc[w] = "pullOwn" /\ readyQueue[w] = <<>>
                     /\ pc' = [pc EXCEPT ![w] = "pullCommon"]
                  \/ /\ pc[w] = "pullCommon" /\ readyQueue[Common] = <<>>
                     /\ pc' = [pc EXCEPT ![w] = "noTask"]
            \/ \E q \in {w, Common}, t \in Task :
                 /\ Queued(t, q) /\ task[w] = NoTask
                 /\ task' = [task EXCEPT ![w] = t]
                 /\ pc[w] = IF q = w THEN "pullOwn" ELSE "pullCommon"
                 /\ pc' = [pc EXCEPT ![w] = "poll"]
                 /\ \A u \in Task, p \in Queue :
                      Queued(u, p)' <=> Queued(u, p) /\ u # t
<1> USE DEF Inv, TypeInv
<1>1. PICK q \in {w, Common} :
        Pull(w, q, IF q = w THEN "pullOwn" ELSE "pullCommon",
                   IF q = w THEN "pullCommon" ELSE "noTask")
  BY NameAssumption DEF Pulling, PullOwn, PullCommon
<1>2. q \in Queue
  BY DEF Queue
<1>3. CASE readyQueue[q] = <<>>
  BY <1>1, <1>3 DEF Pull, Goto
<1>4. CASE readyQueue[q] # <<>>
  <2>1. /\ pc[w] = IF q = w THEN "pullOwn" ELSE "pullCommon"
        /\ pc' = [pc EXCEPT ![w] = "poll"]
        /\ task' = [task EXCEPT ![w] = Head(readyQueue[q])]
        /\ readyQueue' = [readyQueue EXCEPT ![q] = Tail(@)]
        /\ UNCHANGED <<runtimeVars, activeTaskCount, activeTaskWorkerCount,
                       taskState, graphVars, bodyVars, workerState, dependent>>
    BY <1>1, <1>4 DEF Pull, Goto
  <2>2. PICK t \in Task :
          /\ t = Head(readyQueue[q]) /\ Queued(t, q)
          /\ \A u \in Task, p \in Queue : Queued(u, p)' <=> Queued(u, p) /\ u # t
    BY <1>2, <1>4, <2>1, QueuesPop
  <2>3. task[w] = NoTask
    BY <2>1 DEF PlaceInv, PointFits, Holding, Pulled
  <2> QED
    BY <2>1, <2>2, <2>3
<1> QED
  BY <1>3, <1>4

\* The head of a queue is dropped, and counted as ended.
LEMMA DroppingFrame ==
  ASSUME Inv, NEW w \in Worker, Dropping(w)
  PROVE  /\ UNCHANGED <<runtimeVars, activeTaskWorkerCount, graphVars,
                        bodyVars, workerState, task, dependent>>
         /\ pc[w] \in {"drainCommon", "drainOwn"}
         /\ \/ /\ UNCHANGED <<readyQueue, taskState, activeTaskCount>>
               /\ \/ /\ pc[w] = "drainCommon" /\ readyQueue[Common] = <<>>
                     /\ pc' = [pc EXCEPT ![w] = "drainOwn"]
                  \/ /\ pc[w] = "drainOwn" /\ readyQueue[w] = <<>>
                     /\ pc' = [pc EXCEPT ![w] = "pullOwn"]
            \/ \E q \in {w, Common}, t \in Task :
                 /\ Queued(t, q) /\ pc' = pc
                 /\ taskState' = [taskState EXCEPT ![t] = "drained"]
                 /\ activeTaskCount' = activeTaskCount - 1
                 /\ \A u \in Task, p \in Queue :
                      Queued(u, p)' <=> Queued(u, p) /\ u # t
<1> USE DEF Inv, TypeInv
<1>1. PICK q \in {w, Common} :
        Drain(w, q, IF q = w THEN "drainOwn" ELSE "drainCommon",
                    IF q = w THEN "pullOwn" ELSE "drainOwn")
  BY NameAssumption DEF Dropping, DrainOwn, DrainCommon
<1>2. q \in Queue
  BY DEF Queue
<1>3. CASE readyQueue[q] = <<>>
  BY <1>1, <1>3 DEF Drain, Goto
<1>4. CASE readyQueue[q] # <<>>
  <2>1. /\ pc[w] = IF q = w THEN "drainOwn" ELSE "drainCommon"
        /\ pc' = [pc EXCEPT ![w] = pc[w]]
        /\ readyQueue' = [readyQueue EXCEPT ![q] = Tail(@)]
        /\ taskState' = [taskState EXCEPT ![Head(readyQueue[q])] = "drained"]
        /\ activeTaskCount' = activeTaskCount - 1
        /\ UNCHANGED <<runtimeVars, activeTaskWorkerCount, graphVars,
                        bodyVars, workerState, task, dependent>>
    BY <1>1, <1>4 DEF Drain, Drop, Goto
  <2>2. PICK t \in Task :
          /\ t = Head(readyQueue[q]) /\ Queued(t, q)
          /\ \A u \in Task, p \in Queue : Queued(u, p)' <=> Queued(u, p) /\ u # t
    BY <1>2, <1>4, <2>1, QueuesPop
  <2>3. pc' = pc
    BY <2>1 DEF TypeOK
  <2> QED
    BY <2>1, <2>2, <2>3
<1> QED
  BY <1>3, <1>4

\* A task that has been polled in vain or has suspended itself leaves its worker.
LEMMA RequeuingFrame ==
  ASSUME Inv, NEW w \in Worker, Requeuing(w)
  PROVE  \E t \in Task :
           /\ Held(t, w) /\ pc[w] \in {"poll", "yielded"}
           /\ pc' = [pc EXCEPT ![w] = IF pc[w] = "poll" THEN "noTask"
                                                        ELSE "mainLoop"]
           /\ taskState[t] \in Resumable /\ dependencyCount[t] = 0 /\ ~Fresh(t)
           /\ \A q \in Queue : ~Queued(t, q)
           /\ task' = [task EXCEPT ![w] = NoTask]
           /\ \/ Push(t) /\ (pc[w] = "yielded" => t \in added)
              \/ /\ UNCHANGED <<readyQueue, workerState>>
                 /\ pc[w] = "yielded"
                 /\ ~(t \in added /\ ResumeOnSuspend)
           /\ UNCHANGED <<runtimeVars, activeTaskCount, activeTaskWorkerCount,
                          taskState, graphVars, bodyVars, dependent>>
<1> USE DEF Inv, PlaceInv, TypeInv
<1>1. PICK t \in Task : t = task[w] /\ pc[w] \in {"poll", "yielded"}
  BY DEF Requeuing, PollUnsatisfied, OnTaskSuspend, Goto, TypeOK, Pulled
<1>2. /\ Held(t, w) /\ taskState[t] \in Resumable /\ ~Fresh(t)
      /\ \A q \in Queue : ~Queued(t, q)
  BY <1>1 DEF Held, StateFits, UntouchedBefore, Located, Resumable, QueuedOrHeld
<1>3. dependencyCount[t] = 0 /\ ~(dependencyCount[t] > 0)
  BY <1>2 DEF UntouchedBefore, Located, TypeOK
<1>4. ResumeTask(t) => Push(t)
  BY <1>3 DEF ResumeTask
<1>5. CASE PollUnsatisfied(w)
  BY <1>1, <1>2, <1>3, <1>4, <1>5 DEF PollUnsatisfied, Goto
<1>6. CASE OnTaskSuspend(w)
  BY <1>1, <1>2, <1>3, <1>4, <1>6 DEF OnTaskSuspend, Goto, HasCallbackMap
<1> QED
  BY <1>5, <1>6 DEF Requeuing

\* The task of a worker goes to its next state, and stays with the worker.
LEMMA AdvancingFrame ==
  ASSUME Inv, NEW w \in Worker, Advancing(w)
  PROVE  \E t \in Task :
           /\ Held(t, w) /\ ~Ended(t)
           /\ \/ /\ pc[w] = "run" /\ pc' = [pc EXCEPT ![w] = "exec"]
                 /\ taskState[t] \in Resumable
                 /\ taskState' = [taskState EXCEPT ![t] = "running"]
              \/ /\ pc[w] = "exec" /\ pc' = [pc EXCEPT ![w] = "yielded"]
                 /\ taskState[t] = "running"
                 /\ taskState' = [taskState EXCEPT ![t] = "suspended"]
              \/ /\ pc[w] = "exec" /\ pc' = [pc EXCEPT ![w] = "notify"]
                 /\ taskState[t] = "running"
                 /\ taskState' = [taskState EXCEPT ![t] = "finished"]
           /\ UNCHANGED <<runtimeVars, activeTaskCount, activeTaskWorkerCount,
                          readyQueue, graphVars, affinity, pendingOperations,
                          workerState, task, dependent>>
<1> USE DEF Inv, PlaceInv, TypeInv
<1>1. PICK t \in Task : t = task[w] /\ pc[w] \in {"run", "exec"}
  BY DEF Advancing, RunTask, Suspend, Finish, Goto, TypeOK, Pulled
<1>2. /\ Held(t, w) /\ (pc[w] = "exec" => taskState[t] = "running")
      /\ (pc[w] = "run" => taskState[t] \in Resumable)
  BY <1>1 DEF Held, StateFits
<1>3. ~Ended(t)
  BY <1>1, <1>2 DEF Ended, Resumable
<1> QED
  BY <1>1, <1>2, <1>3
  DEF Advancing, RunTask, Suspend, Finish, Goto, bodyVars, Resumable

\* A finished task leaves its worker.
LEMMA FinishingFrame ==
  ASSUME Inv, NEW w \in Worker, OnTaskFinish(w)
  PROVE  \E t \in Task :
           /\ Held(t, w) /\ pc[w] = "notify" /\ taskState[t] = "finished"
           /\ pc' = [pc EXCEPT ![w] = "mainLoop"]
           /\ task' = [task EXCEPT ![w] = NoTask]
           /\ \/ t \in added /\ activeTaskCount' = activeTaskCount - 1
              \/ t \notin added /\ UNCHANGED activeTaskCount
           /\ UNCHANGED <<runtimeVars, activeTaskWorkerCount, readyQueue,
                          taskState, graphVars, bodyVars, workerState, dependent>>
<1>1. PICK t \in Task : t = task[w] /\ pc[w] = "notify"
  BY DEF OnTaskFinish, Goto, Inv, TypeInv, TypeOK, Pulled
<1>2. Held(t, w) /\ taskState[t] = "finished"
  BY <1>1 DEF Held, StateFits, Inv, PlaceInv
<1> QED
  BY <1>1, <1>2 DEF OnTaskFinish, Goto, HasCallbackMap


\* The three things that can happen to the active tasks and to their count.
ActivityStays == ActiveTask' = ActiveTask /\ activeTaskCount' = activeTaskCount
TaskStarts(t) == /\ t \notin ActiveTask /\ ActiveTask' = ActiveTask \cup {t}
                 /\ activeTaskCount' = activeTaskCount + 1
TaskEnds(t)   == /\ t \in ActiveTask /\ ActiveTask' = ActiveTask \ {t}
                 /\ activeTaskCount' = activeTaskCount - 1

LEMMA DroppingActivity ==
  ASSUME Inv, NotifiersEnded, DroppedIsCounted, NEW w \in Worker, Dropping(w)
  PROVE  ActivityStays \/ \E t \in Task : TaskEnds(t)
<1> USE DEF Inv, PlaceInv, TypeInv
<1>1. /\ UNCHANGED <<graphVars, task>>
      /\ pc[w] \in {"drainCommon", "drainOwn"}
      /\ \/ UNCHANGED <<readyQueue, taskState, activeTaskCount>>
         \/ \E q \in {w, Common}, t \in Task :
              /\ Queued(t, q)
              /\ taskState' = [taskState EXCEPT ![t] = "drained"]
              /\ activeTaskCount' = activeTaskCount - 1
  BY DroppingFrame
<1>2. CASE UNCHANGED <<readyQueue, taskState, activeTaskCount>>
  BY <1>1, <1>2, SameActivity DEF Ended, Held, ActivityStays, graphVars
<1>3. ASSUME NEW q \in {w, Common}, NEW t \in Task, Queued(t, q),
             taskState' = [taskState EXCEPT ![t] = "drained"],
             activeTaskCount' = activeTaskCount - 1
      PROVE  TaskEnds(t)
  <2>1. state = "running"
    BY <1>1 DEF PointFits
  <2>2. Closed
    BY <1>1, <2>1 DEF DroppedIsCounted, Draining
  <2>3. q \in Queue
    BY DEF Queue
  <2>4. t \in added
    BY <1>3, <2>2, <2>3, LocatedIsAdded DEF Located
  <2>5. taskState[t] \notin {"finished", "drained"}
    BY <1>3, <2>3 DEF StateFits, Resumable
  <2>6. \A v \in Worker : ~Held(t, v)
    BY <1>3, <2>3 DEF QueuedOrHeld
  <2>7. /\ \A u \in Task : u # t => taskState'[u] = taskState[u]
        /\ taskState'[t] = "drained"
    BY <1>3 DEF TypeOK
  <2>8. \A u \in Task, v \in Worker : Held(u, v)' <=> Held(u, v)
    BY <1>1 DEF Held
  <2>9. ActiveTask' = ActiveTask \ {t}
    BY <1>1, <2>4, <2>6, <2>7, <2>8 DEF ActiveTask, TypeOK, graphVars
  <2> QED
    BY <1>3, <2>4, <2>5, <2>9 DEF TaskEnds, ActiveTask
<1> QED
  BY <1>1, <1>2, <1>3

LEMMA FinishingActivity ==
  ASSUME Inv, NEW w \in Worker, OnTaskFinish(w)
  PROVE  ActivityStays \/ \E t \in Task : TaskEnds(t)
<1> USE DEF Inv, PlaceInv, TypeInv
<1>1. PICK t \in Task :
         /\ Held(t, w) /\ taskState[t] = "finished"
         /\ task' = [task EXCEPT ![w] = NoTask]
         /\ \/ t \in added /\ activeTaskCount' = activeTaskCount - 1
            \/ t \notin added /\ UNCHANGED activeTaskCount
         /\ UNCHANGED <<taskState, graphVars>>
  BY FinishingFrame
<1>2. \A u \in Task, v \in Worker : Held(u, v)' <=> Held(u, v) /\ v # w
  BY <1>1, NameAssumption DEF Held, TypeOK
<1>3. \A u \in Task : Held(u, w) => u = t
  BY <1>1 DEF Held
<1>4. \A v \in Worker : Held(t, v) => v = w
  BY <1>1 DEF WorkersApart
<1>5. \A u \in Task : u # t =>
        ((\E v \in Worker : Held(u, v)') <=> \E v \in Worker : Held(u, v))
  BY <1>2, <1>3
<1>6. ~ \E v \in Worker : Held(t, v)'
  BY <1>2, <1>4
<1>7. CASE t \in added
  <2>1. ActiveTask' = ActiveTask \ {t}
    BY <1>1, <1>5, <1>6 DEF ActiveTask, TypeOK, graphVars
  <2>2. t \in ActiveTask
    BY <1>1, <1>7 DEF ActiveTask
  <2> QED
    BY <1>1, <1>7, <2>1, <2>2 DEF TaskEnds
<1>8. CASE t \notin added
  <2>1. ActiveTask' = ActiveTask
    BY <1>1, <1>5, <1>8 DEF ActiveTask, TypeOK, graphVars
  <2> QED
    BY <1>1, <1>8, <2>1 DEF ActivityStays
<1> QED
  BY <1>7, <1>8

LEMMA WorkerActivity ==
  ASSUME Inv, NotifiersEnded, DroppedIsCounted, NEW w \in Worker, WorkerStep(w)
  PROVE  ActivityStays \/ \E t \in Task : TaskEnds(t)
<1> USE DEF Inv, PlaceInv, TypeInv
<1>1. added' = added
  BY WorkerFrame DEF graphVars
<1>2. CASE Quiet(w)
  BY <1>1, <1>2, QuietFrame, SameActivity DEF Ended, Held, ActivityStays
<1>3. CASE Pulling(w)
  <2>1. /\ UNCHANGED <<activeTaskCount, taskState>>
        /\ \/ UNCHANGED task
           \/ \E q \in {w, Common}, t \in Task :
                /\ Queued(t, q) /\ task[w] = NoTask
                /\ task' = [task EXCEPT ![w] = t]
    BY <1>3, PullingFrame
  <2>2. CASE UNCHANGED task
    BY <1>1, <2>1, <2>2, SameActivity DEF Ended, Held, ActivityStays
  <2>3. ASSUME NEW q \in {w, Common}, NEW t \in Task, Queued(t, q),
               task[w] = NoTask, task' = [task EXCEPT ![w] = t]
        PROVE  ActivityStays
    <3>1. ~Ended(t)
      BY <2>3 DEF StateFits, Ended, Resumable, Queue
    <3>2. \A u \in Task, v \in Worker : u # t => (Held(u, v)' <=> Held(u, v))
      BY <2>3, NameAssumption DEF Held, TypeOK
    <3>3. \A u \in Task : Ended(u) =>
            ((\E v \in Worker : Held(u, v))' <=> \E v \in Worker : Held(u, v))
      BY <3>1, <3>2
    <3>4. \A u \in Task : Ended(u)' <=> Ended(u)
      BY <2>1 DEF Ended
    <3> QED
      BY <1>1, <2>1, <3>3, <3>4, SameActivity DEF ActivityStays
  <2> QED
    BY <2>1, <2>2, <2>3
<1>4. CASE Dropping(w)
  BY <1>4, DroppingActivity
<1>5. CASE Requeuing(w)
  <2>1. PICK t \in Task :
          /\ Held(t, w) /\ taskState[t] \in Resumable
          /\ task' = [task EXCEPT ![w] = NoTask]
          /\ UNCHANGED <<activeTaskCount, taskState>>
    BY <1>5, RequeuingFrame
  <2>2. \A u \in Task, v \in Worker : u # t => (Held(u, v)' <=> Held(u, v))
    BY <2>1, NameAssumption DEF Held, TypeOK
  <2>3. \A u \in Task : Ended(u) =>
          ((\E v \in Worker : Held(u, v))' <=> \E v \in Worker : Held(u, v))
    BY <2>1, <2>2 DEF Ended, Resumable
  <2>4. \A u \in Task : Ended(u)' <=> Ended(u)
    BY <2>1 DEF Ended
  <2> QED
    BY <1>1, <2>1, <2>3, <2>4, SameActivity DEF ActivityStays
<1>6. CASE Advancing(w)
  <2>1. PICK t \in Task :
          /\ Held(t, w) /\ ~Ended(t)
          /\ \E st \in TaskStates : taskState' = [taskState EXCEPT ![t] = st]
          /\ UNCHANGED <<activeTaskCount, task>>
    BY <1>6, AdvancingFrame DEF TaskStates
  <2>2. \A u \in Task : u # t => taskState'[u] = taskState[u]
    BY <2>1
  <2>3. \A u \in Task, v \in Worker : Held(u, v)' <=> Held(u, v)
    BY <2>1 DEF Held
  <2>4. ActiveTask' = ActiveTask
    BY <1>1, <2>1, <2>2, <2>3 DEF ActiveTask, Ended, TypeOK
  <2> QED
    BY <2>1, <2>4 DEF ActivityStays
<1>7. CASE OnTaskFinish(w)
  BY <1>7, FinishingActivity
<1> QED
  BY <1>2, <1>3, <1>4, <1>5, <1>6, <1>7, WorkerCases

LEMMA AddTaskActivity ==
  ASSUME OrderlyClient, Inv, NEW t \in Task, AddTask(t)
  PROVE  TaskStarts(t)
<1> USE DEF Inv, PlaceInv, TypeInv
<1>1. /\ Fresh(t) /\ added' = added \cup {t}
      /\ activeTaskCount' = activeTaskCount + 1
      /\ UNCHANGED <<taskState, task>>
  BY DEF OrderlyClient, AddTask, MayAdd, workerVars
<1>2. taskState[t] = "ready" /\ t \notin added
  BY <1>1 DEF UntouchedBefore, Fresh
<1>3. ActiveTask' = ActiveTask \cup {t}
  BY <1>1, <1>2 DEF ActiveTask, Held
<1> QED
  BY <1>1, <1>2, <1>3 DEF TaskStarts, ActiveTask

LEMMA ActivityStep ==
  ASSUME OrderlyClient, Inv, NotifiersEnded, DroppedIsCounted, [Next]_vars
  PROVE  \/ ActivityStays
         \/ \E t \in Task : AddTask(t) /\ TaskStarts(t)
         \/ \E t \in Task : TaskEnds(t)
<1>1. CASE \/ Control \/ UNCHANGED vars
           \/ \E t, u \in Task : AddDependency(t, u)
           \/ \E w \in Worker, d \in Task : Notify(w, d)
  <2>1. UNCHANGED <<added, taskState, task, activeTaskCount>>
    BY <1>1 DEF Control, Initialize, Run, RunRejected, Await, Finalize,
      ForceTermination, SetFinishOnLastTask, AddDependency, Notify,
      graphVars, workerVars, vars
  <2> QED
    BY <2>1, SameActivity DEF Ended, Held, ActivityStays, Inv, TypeInv
<1> QED
  BY <1>1, WorkerActivity, AddTaskActivity, NextCases

LEMMA InitCount == Init => CountInv
<1> SUFFICES ASSUME Init PROVE CountInv
  OBVIOUS
<1>1. NotifiersEnded
  BY DEF Init, NotifiersEnded
<1>2. ~Draining /\ ~forceTerminate /\ state # "running"
  BY DEF Init, Draining
<1>3. ActiveTask = {}
  BY DEF Init, ActiveTask
<1>4. CountIsAccurate
  BY <1>3, FS_EmptySet DEF Init, CountIsAccurate
<1> QED
  BY <1>1, <1>2, <1>4 DEF CountInv, DroppedIsCounted

LEMMA CountStep ==
  ASSUME OrderlyClient, Inv, CountInv, [Next]_vars
  PROVE  CountInv'
<1> USE DEF CountInv
<1>1. IsFiniteSet(ActiveTask) /\ Cardinality(ActiveTask) \in Nat
  BY ActiveIsFinite DEF Inv, TypeInv
<1>2. ASSUME ActivityStays PROVE CountIsAccurate'
  <2>1. Cardinality(ActiveTask') = Cardinality(ActiveTask)
    BY <1>2, Zenon DEF ActivityStays
  <2> QED
    BY <1>2, <2>1 DEF ActivityStays, CountIsAccurate
<1>3. ASSUME NEW t \in Task, TaskStarts(t) PROVE CountIsAccurate'
  BY <1>1, <1>3, FS_AddElement DEF TaskStarts, CountIsAccurate
<1>4. ASSUME NEW t \in Task, TaskEnds(t) PROVE CountIsAccurate'
  BY <1>1, <1>4, FS_RemoveElement DEF TaskEnds, CountIsAccurate
<1> QED
  BY <1>2, <1>3, <1>4, ActivityStep, NotifiersStep, DroppedStep
  DEF CountIsAccurate

\* The places of tasks and their count, in every reachable state.
THEOREM Counting == OrderlyClient => (Spec => [](Inv /\ CountInv))
<1> SUFFICES ASSUME OrderlyClient PROVE Spec => [](Inv /\ CountInv)
  OBVIOUS
<1>1. Init => Inv /\ CountInv
  BY InitInv, InitCount
<1>2. Inv /\ CountInv /\ [Next]_vars => (Inv /\ CountInv)'
  BY NextInv, CountStep
<1> QED
  BY <1>1, <1>2, PTL DEF Spec

\* The count on which the workers terminate is that of the added tasks whose
\* callbacks are not over, also when a forced termination drops tasks: none is
\* counted twice, ends twice, or ends without having been counted.
THEOREM CountIsAccurateHolds == OrderlyClient => (Spec => []CountIsAccurate)
<1>1. CountInv => CountIsAccurate
  BY DEF CountInv
<1> QED
  BY <1>1, Counting, PTL

-----------------------------------------------------------------------------
(* The workers terminate when there is nothing left to do.                 *)

\* A worker comes to terminate by having read the count, and by nothing else.
LEMMA TerminatingStep ==
  ASSUME TypeOK, NEW v \in Worker, WorkerStep(v), NEW w \in Worker,
         workerState'[w] \in {"terminating", "terminated"}
  PROVE  workerState[w] \in {"terminating", "terminated"} \/ AllFinished
<1> USE DEF TypeOK
<1>1. ASSUME NEW t \in Task, ResumeTask(t) \/ UNCHANGED workerState
      PROVE  workerState[w] \in {"terminating", "terminated"}
  BY <1>1 DEF ResumeTask, Push
<1>2. CASE \/ PollUnsatisfied(v) \/ OnTaskSuspend(v) \/ ResumeDependent(v)
  <2>1. task[v] \in Task \/ dependent[v] \in Task
    BY <1>2 DEF PollUnsatisfied, OnTaskSuspend, ResumeDependent, Goto, Pulled
  <2>2. \E t \in Task : ResumeTask(t) \/ UNCHANGED workerState
    BY <1>2 DEF PollUnsatisfied, OnTaskSuspend, ResumeDependent, Goto, Pulled
  <2> QED
    BY <1>1, <2>2
<1>3. CASE \/ CheckSuspension(v) \/ CheckTermination(v) \/ Sleep(v)
           \/ WakeUp(v) \/ Terminate(v)
  BY <1>3 DEF CheckSuspension, CheckTermination, Sleep, WakeUp, Terminate
<1>4. CASE UNCHANGED workerState
  BY <1>4
<1> QED
  BY <1>2, <1>3, <1>4
  DEF WorkerStep, Body, EnterLoop, DrainCommon, DrainOwn, Drain, PullOwn,
      PullCommon, Pull, PollSatisfied, PollDone, LeaveLoop, RunTask,
      OnTaskFinish, AddPendingOperation, SetWorkerAffinity, Suspend, Finish

LEMMA NothingLeft ==
  ASSUME TypeOK, CountIsAccurate, activeTaskCount = 0
  PROVE  ActiveTask = {}
  BY ActiveIsFinite, FS_EmptySet DEF CountIsAccurate

\* A task that is running was added, or is done with when nothing is active.
LEMMA AddedIsActive ==
  ASSUME Inv, NEW u \in added, Executing(u)
  PROVE  u \in ActiveTask
  BY DEF Executing, ActiveTask, Held

LEMMA LeavesStep ==
  ASSUME OrderlyClient, ~Allowed("externalAdd"), Inv, CountInv,
         LeavesNoTaskBehind, [Next]_vars
  PROVE  LeavesNoTaskBehind'
<1> USE DEF Inv, TypeInv, CountInv
<1> SUFFICES ASSUME NEW w \in Worker, state' = "running",
                    workerState'[w] \in {"terminating", "terminated"}
             PROVE  ActiveTask' = {}
  BY DEF LeavesNoTaskBehind
<1>1. CASE Run
  BY <1>1 DEF Run
<1>2. CASE \/ Control /\ ~Run
           \/ UNCHANGED vars
           \/ \E t, u \in Task : AddDependency(t, u)
           \/ \E v \in Worker, d \in Task : Notify(v, d)
  <2>1. /\ UNCHANGED <<added, taskState, task, workerState>>
        /\ state = "running"
    BY <1>2 DEF Control, Initialize, RunRejected, Await, Finalize,
      ForceTermination, SetFinishOnLastTask, AddDependency, Notify,
      graphVars, workerVars, runtimeVars, vars
  <2>2. ActiveTask' = ActiveTask
    BY <2>1 DEF ActiveTask, Held
  <2> QED
    BY <2>1, <2>2 DEF LeavesNoTaskBehind
<1>3. ASSUME NEW t \in Task, AddTask(t) PROVE FALSE
  <2>1. state = "running" /\ (ResumeTask(t) \/ UNCHANGED workerState)
    BY <1>3 DEF AddTask, runtimeVars
  <2>2. workerState[w] \in {"terminating", "terminated"}
    BY <2>1 DEF ResumeTask, Push, TypeOK
  <2>3. \E u \in added : Executing(u)
    BY <1>3, <2>1 DEF AddTask, MayAdd, OrderlyClient
  <2> QED
    BY <2>1, <2>2, <2>3, AddedIsActive DEF LeavesNoTaskBehind
<1>4. ASSUME NEW v \in Worker, WorkerStep(v) PROVE ActiveTask' = {}
  <2>1. state = "running"
    BY <1>4, WorkerFrame DEF runtimeVars
  <2>2. workerState[w] \in {"terminating", "terminated"} \/ activeTaskCount = 0
    BY <1>4, TerminatingStep DEF AllFinished
  <2>3. ActiveTask = {}
    BY <2>1, <2>2, NothingLeft DEF LeavesNoTaskBehind
  <2> QED
    BY <1>4, <2>3, WorkerActivity DEF ActivityStays, TaskEnds
<1> QED
  BY <1>1, <1>2, <1>3, <1>4, NextCases

\* What run() promises of await(), for every application in which tasks that
\* are added while TaskR runs are added by added tasks: the first worker to give
\* up does so when every added task has finished and its callbacks are over, and
\* none is added any more.  That the count is right is what makes it so.
THEOREM LeavesNoTaskBehindHolds ==
  OrderlyClient /\ ~Allowed("externalAdd") => (Spec => []LeavesNoTaskBehind)
<1> SUFFICES ASSUME OrderlyClient, ~Allowed("externalAdd")
             PROVE  Spec => []LeavesNoTaskBehind
  OBVIOUS
<1>1. Init => LeavesNoTaskBehind
  BY DEF Init, LeavesNoTaskBehind
<1>2. Inv /\ CountInv /\ LeavesNoTaskBehind /\ [Next]_vars => LeavesNoTaskBehind'
  BY LeavesStep
<1> QED
  BY <1>1, <1>2, Counting, PTL DEF Spec

-----------------------------------------------------------------------------
(* Tasks stay with the worker of their affinity.                           *)

\* The quiet steps but for two leave the queues and the affinities alone.
LEMMA QuietCases ==
  ASSUME Inv, NEW w \in Worker, Quiet(w)
  PROVE  \/ \E d \in Task :
              /\ Resuming(d, w) /\ Push(d) /\ pc[w] = "resume"
              /\ taskState[d] = "ready" /\ ~Fresh(d)
              /\ \A q \in Queue : ~Queued(d, q)
              /\ pc' = [pc EXCEPT ![w] = "notify"]
              /\ dependent' = [dependent EXCEPT ![w] = NoTask]
              /\ UNCHANGED <<task, bodyVars>>
         \/ \E t \in Task, a \in Affinities :
              /\ Held(t, w) /\ pc[w] = "exec" /\ pc' = pc
              /\ affinity' = [affinity EXCEPT ![t] = a]
              /\ UNCHANGED <<readyQueue, task, dependent, workerState,
                             pendingOperations>>
         \/ /\ UNCHANGED <<readyQueue, dependent, task, affinity>>
            /\ \E to \in Points :
                 /\ pc' = [pc EXCEPT ![w] = to]
                 /\ to \in {"poll", "run"} => pc[w] \in {"poll", "leave"}
                 /\ to = "leave" /\ task[w] # NoTask => pc[w] = "poll"
<1> USE DEF Inv, PlaceInv, TypeInv
<1>1. CASE ResumeDependent(w)
  <2>1. PICK d \in Task : d = dependent[w] /\ pc[w] = "resume"
    BY <1>1 DEF ResumeDependent, Goto, TypeOK
  <2>2. /\ Resuming(d, w) /\ taskState[d] = "ready" /\ ~Fresh(d)
        /\ \A q \in Queue : ~Queued(d, q)
    BY <2>1 DEF Resuming, StateFits, UntouchedBefore, Located, QueuedOrHeld
  <2>3. dependencyCount[d] = 0 /\ ~(dependencyCount[d] > 0)
    BY <2>2 DEF UntouchedBefore, Located, TypeOK
  <2> QED
    BY <1>1, <2>1, <2>2, <2>3 DEF ResumeDependent, ResumeTask, Goto
<1>2. ASSUME NEW a \in Affinities, SetWorkerAffinity(w, a)
      PROVE  \E t \in Task :
               /\ Held(t, w) /\ pc[w] = "exec" /\ pc' = pc
               /\ affinity' = [affinity EXCEPT ![t] = a]
               /\ UNCHANGED <<readyQueue, task, dependent, workerState,
                              pendingOperations>>
  <2>1. PICK t \in Task : t = task[w] /\ pc[w] = "exec"
    BY <1>2 DEF SetWorkerAffinity, Goto, TypeOK, Pulled
  <2>2. pc' = pc
    BY <1>2, <2>1 DEF SetWorkerAffinity, Goto, TypeOK
  <2> QED
    BY <1>2, <2>1, <2>2 DEF SetWorkerAffinity, Held
<1>3. ASSUME NEW op \in Operation, AddPendingOperation(w, op)
      PROVE  /\ UNCHANGED <<readyQueue, dependent, task, affinity>>
             /\ pc' = [pc EXCEPT ![w] = "exec"]
  BY <1>3 DEF AddPendingOperation, Goto
<1>4. CASE PollSatisfied(w) \/ PollDone(w) \/ LeaveLoop(w)
  <2>1. /\ UNCHANGED <<readyQueue, dependent, task, affinity>>
        /\ \E to \in {"poll", "leave", "mainLoop", "run"} :
             /\ pc' = [pc EXCEPT ![w] = to]
             /\ to \in {"poll", "run"} => pc[w] \in {"poll", "leave"}
             /\ to = "leave" => pc[w] = "poll"
    BY <1>4 DEF PollSatisfied, PollDone, LeaveLoop, Goto, bodyVars
  <2> QED
    BY <2>1 DEF Points, Pulled, InLoop
<1>5. CASE CheckTermination(w)
  <2>1. task[w] = NoTask
    BY <1>5 DEF CheckTermination, Goto, PointFits, Holding, Pulled
  <2>2. /\ UNCHANGED <<readyQueue, dependent, task, affinity>>
        /\ pc' = [pc EXCEPT ![w] = "leave"]
    BY <1>5 DEF CheckTermination, Goto, bodyVars
  <2> QED
    BY <2>1, <2>2 DEF Points, Pulled, InLoop
<1>6. CASE \/ EnterLoop(w) \/ CheckSuspension(w) \/ Sleep(w) \/ WakeUp(w)
           \/ Terminate(w)
  <2>1. /\ UNCHANGED <<readyQueue, dependent, task, affinity>>
        /\ \E to \in {"drainCommon", "pullOwn", "checkTermination", "asleep",
                      "mainLoop", "stopped"} : pc' = [pc EXCEPT ![w] = to]
    BY <1>6 DEF EnterLoop, CheckSuspension, Sleep, WakeUp, Terminate, Goto,
                bodyVars
  <2> QED
    BY <2>1 DEF Points, Pulled, InLoop
<1>7. "exec" \in Points
  BY DEF Points, Pulled
<1> QED
  BY <1>1, <1>2, <1>3, <1>4, <1>5, <1>6, <1>7 DEF Quiet

\* The part of AffinityRespected about queues is what lets Pull keep the other.
LEMMA AffinityStep ==
  ASSUME OrderlyClient, Inv, AffinityRespected, [Next]_vars
  PROVE  AffinityRespected'
<1> DEFINE AtQueue(t) == \A q \in Queue : Queued(t, q) => q = affinity[t]
           AtWorker(t) == \A w \in Worker :
             Held(t, w) /\ pc[w] \in {"poll", "leave", "run"} =>
               affinity[t] \in {Common, w}
<1> SUFFICES ASSUME NEW t \in Task PROVE AtQueue(t)' /\ AtWorker(t)'
  BY DEF AffinityRespected
<1> USE DEF Inv, PlaceInv, TypeInv
<1>1. AtQueue(t) /\ AtWorker(t)
  BY DEF AffinityRespected
<1>2. CASE Control
  <2>1. /\ UNCHANGED <<affinity, task>>
        /\ \A w \in Worker : pc'[w] = pc[w] \/ pc'[w] = "mainLoop"
    BY <1>2 DEF Control, Initialize, Run, RunRejected, Await, Finalize,
      ForceTermination, SetFinishOnLastTask, bodyVars, workerVars
  <2>2. \A q \in Queue : readyQueue'[q] = readyQueue[q] \/ readyQueue'[q] = <<>>
    BY <1>2 DEF Control, Initialize, Run, RunRejected, Await, Finalize,
      ForceTermination, SetFinishOnLastTask
  <2>3. \A q \in Queue : Queued(t, q)' => Queued(t, q)
    BY <2>2 DEF Queued
  <2> QED
    BY <1>1, <2>1, <2>3 DEF Held
<1>3. CASE \/ UNCHANGED vars
           \/ \E x, u \in Task : AddDependency(x, u)
  <2>1. UNCHANGED <<readyQueue, affinity, task, pc>>
    BY <1>3 DEF AddDependency, bodyVars, workerVars, vars
  <2> QED
    BY <1>1, <2>1 DEF Queued, Held
<1>4. ASSUME NEW x \in Task, AddTask(x) PROVE AtQueue(t)' /\ AtWorker(t)'
  <2>1. /\ ResumeTask(x) /\ Fresh(x) /\ UNCHANGED <<affinity, task, pc>>
    BY <1>4 DEF AddTask, MayAdd, OrderlyClient, bodyVars, workerVars
  <2>2. \A q \in Queue : ~Queued(x, q)
    BY <2>1 DEF UntouchedBefore, Located
  <2>3. \A q \in Queue : Queued(t, q)' => Queued(t, q) \/ q = affinity[t]
    BY <2>1, <2>2, QueuesPush, QueuesSame DEF ResumeTask
  <2> QED
    BY <1>1, <2>1, <2>3 DEF Held
<1>5. ASSUME NEW w \in Worker, Quiet(w) PROVE AtQueue(t)' /\ AtWorker(t)'
  <2>1. ASSUME NEW d \in Task, Push(d), \A q \in Queue : ~Queued(d, q),
               pc' = [pc EXCEPT ![w] = "notify"], UNCHANGED <<task, bodyVars>>
        PROVE  AtQueue(t)' /\ AtWorker(t)'
    <3>1. \A q \in Queue : Queued(t, q)' => Queued(t, q) \/ q = affinity[t]
      BY <2>1, QueuesPush
    <3>2. affinity' = affinity
      BY <2>1 DEF bodyVars
    <3>3. AtQueue(t)'
      BY <1>1, <3>1, <3>2
    <3>4. AtWorker(t)'
      BY <1>1, <2>1, <3>2 DEF Held, TypeOK
    <3> QED
      BY <3>3, <3>4
  <2>2. ASSUME NEW x \in Task, NEW a \in Affinities, Held(x, w), pc[w] = "exec",
               affinity' = [affinity EXCEPT ![x] = a],
               UNCHANGED <<readyQueue, task, pc>>
        PROVE  AtQueue(t)' /\ AtWorker(t)'
    <3>1. CASE t # x
      BY <1>1, <2>2, <3>1 DEF Queued, Held, TypeOK
    <3>2. CASE t = x
      <4>1. \A q \in Queue : ~Queued(t, q)
        BY <2>2, <3>2 DEF QueuedOrHeld
      <4>2. \A v \in Worker : Held(t, v) => v = w
        BY <2>2, <3>2 DEF WorkersApart
      <4> QED
        BY <2>2, <4>1, <4>2 DEF Queued, Held
    <3> QED
      BY <3>1, <3>2
  <2>3. ASSUME UNCHANGED <<readyQueue, task, affinity>>, NEW to \in Points,
               pc' = [pc EXCEPT ![w] = to],
               to \in {"poll", "run"} => pc[w] \in {"poll", "leave"},
               to = "leave" /\ task[w] # NoTask => pc[w] = "poll"
        PROVE  AtQueue(t)' /\ AtWorker(t)'
    <3>1. AtQueue(t)'
      BY <1>1, <2>3 DEF Queued
    <3>2. Held(t, w) => task[w] # NoTask
      BY NameAssumption DEF Held
    <3>3. AtWorker(t)'
      BY <1>1, <2>3, <3>2 DEF Held, TypeOK
    <3> QED
      BY <3>1, <3>3
  <2> QED
    BY <1>5, <2>1, <2>2, <2>3, QuietCases
<1>6. ASSUME NEW w \in Worker, Pulling(w) PROVE AtQueue(t)' /\ AtWorker(t)'
  <2>1. affinity' = affinity
    BY <1>6, PullingFrame DEF bodyVars
  <2>2. ASSUME UNCHANGED <<readyQueue, task>>,
               NEW to \in {"pullCommon", "noTask"}, pc' = [pc EXCEPT ![w] = to]
        PROVE  AtQueue(t)' /\ AtWorker(t)'
    BY <1>1, <2>1, <2>2 DEF Queued, Held, TypeOK
  <2>3. ASSUME NEW q \in {w, Common}, NEW x \in Task, Queued(x, q),
               task' = [task EXCEPT ![w] = x], pc' = [pc EXCEPT ![w] = "poll"],
               \A u \in Task, p \in Queue : Queued(u, p)' <=> Queued(u, p) /\ u # x
        PROVE  AtQueue(t)' /\ AtWorker(t)'
    <3>1. q = affinity[x]
      BY <2>3 DEF AffinityRespected, Queue
    <3>2. AtQueue(t)'
      BY <1>1, <2>1, <2>3
    <3>3. AtWorker(t)'
      BY <1>1, <2>1, <2>3, <3>1 DEF Held, TypeOK
    <3> QED
      BY <3>2, <3>3
  <2> QED
    BY <1>6, <2>2, <2>3, PullingFrame
<1>7. ASSUME NEW w \in Worker, Dropping(w) PROVE AtQueue(t)' /\ AtWorker(t)'
  <2>1. UNCHANGED <<affinity, task>>
    BY <1>7, DroppingFrame DEF bodyVars
  <2>2. \A q \in Queue : Queued(t, q)' => Queued(t, q)
    BY <1>7, DroppingFrame DEF Queued
  <2>3. \A v \in Worker : pc'[v] \in {"poll", "leave", "run"} => pc'[v] = pc[v]
    BY <1>7, DroppingFrame DEF TypeOK
  <2> QED
    BY <1>1, <2>1, <2>2, <2>3 DEF Held
<1>8. ASSUME NEW w \in Worker, Requeuing(w) PROVE AtQueue(t)' /\ AtWorker(t)'
  <2>1. PICK x \in Task, to \in {"noTask", "mainLoop"} :
          /\ \A q \in Queue : ~Queued(x, q)
          /\ task' = [task EXCEPT ![w] = NoTask] /\ pc' = [pc EXCEPT ![w] = to]
          /\ Push(x) \/ UNCHANGED readyQueue
          /\ affinity' = affinity
    BY <1>8, RequeuingFrame DEF bodyVars
  <2>2. \A q \in Queue : Queued(t, q)' => Queued(t, q) \/ q = affinity[t]
    BY <2>1, QueuesPush, QueuesSame
  <2>3. AtQueue(t)'
    BY <1>1, <2>1, <2>2
  <2>4. AtWorker(t)'
    BY <1>1, <2>1, NameAssumption DEF Held, TypeOK
  <2> QED
    BY <2>3, <2>4
<1>9. ASSUME NEW w \in Worker, Advancing(w) \/ OnTaskFinish(w)
      PROVE  AtQueue(t)' /\ AtWorker(t)'
  <2>1. /\ UNCHANGED <<readyQueue, affinity>>
        /\ \E to \in {"exec", "yielded", "notify", "mainLoop"} :
             pc' = [pc EXCEPT ![w] = to]
        /\ \A v \in Worker : v # w => task'[v] = task[v]
    BY <1>9, AdvancingFrame, FinishingFrame DEF bodyVars, TypeOK
  <2> QED
    BY <1>1, <2>1 DEF Queued, Held, TypeOK
<1>10. ASSUME NEW w \in Worker, NEW d \in Task, Notify(w, d)
       PROVE  AtQueue(t)' /\ AtWorker(t)'
  <2>1. /\ UNCHANGED <<readyQueue, affinity, task>>
        /\ \E to \in {"resume", "notify"} : pc' = [pc EXCEPT ![w] = to]
    BY <1>10 DEF Notify, Goto, bodyVars
  <2> QED
    BY <1>1, <2>1 DEF Queued, Held, TypeOK
<1> QED
  BY <1>2, <1>3, <1>4, <1>5, <1>6, <1>7, <1>8, <1>9, <1>10, NextCases,
     WorkerCases

\* A task with an affinity waits in its worker's own queue and runs on that
\* worker, also where it changes its affinity while it runs: the new one takes
\* effect when it is next pushed, and no queue it is not meant for ever has it.
THEOREM AffinityRespectedHolds == OrderlyClient => (Spec => []AffinityRespected)
<1> SUFFICES ASSUME OrderlyClient PROVE Spec => []AffinityRespected
  OBVIOUS
<1>1. ASSUME Init PROVE AffinityRespected
  <2>1. \A t \in Task, q \in Queue : ~Queued(t, q)
    BY <1>1 DEF Init, Queued
  <2>2. \A w \in Worker : pc[w] = "stopped"
    BY <1>1 DEF Init
  <2> QED
    BY <2>1, <2>2 DEF AffinityRespected
<1>2. Inv /\ AffinityRespected /\ [Next]_vars => AffinityRespected'
  BY AffinityStep
<1> QED
  BY <1>1, <1>2, Placement, PTL DEF Spec

-----------------------------------------------------------------------------
(* No task is lost.                                                        *)

\* finalize() destroys the workers' own queues: it is called when nothing is
\* active, or nothing is in them.
FinalizesAtRest ==
  Finalize => activeTaskCount = 0 \/ \A w \in Worker : readyQueue[w] = <<>>

\* What a worker does to a task that has a place gives it another, or ends it.
LEMMA PlaceKept ==
  ASSUME Inv, NEW w \in Worker, WorkerStep(w), NEW t \in Task, Located(t),
         t \in added, ResumeOnSuspend, ~Ended(t)'
  PROVE  Located(t)'
<1> USE DEF Inv, TypeInv
<1>1. ASSUME \A q \in Queue : Queued(t, q) => Queued(t, q)',
             \A v \in Worker : Held(t, v) => Held(t, v)',
             \A v \in Worker : Resuming(t, v) => Resuming(t, v)'
      PROVE  Located(t)'
  BY <1>1 DEF Located
<1>2. ASSUME NEW x \in Task, Push(x), \A q \in Queue : ~Queued(x, q)
      PROVE  /\ \A q \in Queue : Queued(t, q) => Queued(t, q)'
             /\ Located(x)'
  <2>1. /\ affinity[x] \in Queue
        /\ \A u \in Task, q \in Queue :
             Queued(u, q)' <=> Queued(u, q) \/ (u = x /\ q = affinity[x])
    BY <1>2, QueuesPush, ConfigAssumption DEF TypeOK, Queue
  <2>2. \E q \in Queue : Queued(x, q)'
    BY <2>1
  <2>3. Located(x)'
    BY <2>2 DEF Located
  <2> QED
    BY <2>1, <2>3
<1>3. CASE Quiet(w)
  <2>1. ASSUME NEW d \in Task, Resuming(d, w), Push(d),
               \A q \in Queue : ~Queued(d, q),
               dependent' = [dependent EXCEPT ![w] = NoTask], UNCHANGED task
        PROVE  Located(t)'
    <3>1. CASE t = d
      BY <1>2, <2>1, <3>1
    <3>2. CASE t # d
      BY <1>1, <1>2, <2>1, <3>2 DEF Held, Resuming, TypeOK
    <3> QED
      BY <3>1, <3>2
  <2>2. CASE UNCHANGED <<readyQueue, task, dependent>>
    BY <1>1, <2>2 DEF Queued, Held, Resuming
  <2> QED
    BY <1>3, <2>1, <2>2, QuietCases
<1>4. CASE Pulling(w)
  <2>1. dependent' = dependent
    BY <1>4, PullingFrame
  <2>2. CASE UNCHANGED <<readyQueue, task>>
    BY <1>1, <2>1, <2>2 DEF Queued, Held, Resuming
  <2>3. ASSUME NEW x \in Task, task[w] = NoTask, task' = [task EXCEPT ![w] = x],
               \A u \in Task, p \in Queue : Queued(u, p)' <=> Queued(u, p) /\ u # x
        PROVE  Located(t)'
    <3>1. CASE t = x
      BY <2>3, <3>1 DEF Located, Held, TypeOK
    <3>2. CASE t # x
      BY <1>1, <2>1, <2>3, <3>2, NameAssumption DEF Held, Resuming, TypeOK
    <3> QED
      BY <3>1, <3>2
  <2> QED
    BY <1>4, <2>2, <2>3, PullingFrame
<1>5. CASE Dropping(w)
  <2>1. UNCHANGED <<task, dependent>>
    BY <1>5, DroppingFrame
  <2>2. CASE UNCHANGED readyQueue
    BY <1>1, <2>1, <2>2 DEF Queued, Held, Resuming
  <2>3. ASSUME NEW x \in Task, taskState' = [taskState EXCEPT ![x] = "drained"],
               \A u \in Task, p \in Queue : Queued(u, p)' <=> Queued(u, p) /\ u # x
        PROVE  Located(t)'
    <3>1. t # x
      BY <2>3 DEF Ended, TypeOK
    <3> QED
      BY <1>1, <2>1, <2>3, <3>1 DEF Held, Resuming
  <2> QED
    BY <1>5, <2>2, <2>3, DroppingFrame
<1>6. CASE Requeuing(w)
  <2>1. PICK x \in Task :
          /\ Held(x, w) /\ \A q \in Queue : ~Queued(x, q)
          /\ task' = [task EXCEPT ![w] = NoTask]
          /\ Push(x) \/ (UNCHANGED readyQueue /\ x \notin added)
          /\ UNCHANGED dependent
    BY <1>6, RequeuingFrame
  <2>2. \A q \in Queue : Queued(t, q) => Queued(t, q)'
    BY <1>2, <2>1 DEF Queued
  <2>3. CASE t = x
    BY <1>2, <2>1, <2>3
  <2>4. CASE t # x
    BY <1>1, <2>1, <2>2, <2>4, NameAssumption DEF Held, Resuming, TypeOK
  <2> QED
    BY <2>3, <2>4
<1>7. CASE Advancing(w)
  <2>1. UNCHANGED <<readyQueue, task, dependent>>
    BY <1>7, AdvancingFrame
  <2> QED
    BY <1>1, <2>1 DEF Queued, Held, Resuming
<1>8. CASE OnTaskFinish(w)
  <2>1. PICK x \in Task :
          /\ Held(x, w) /\ taskState[x] = "finished"
          /\ task' = [task EXCEPT ![w] = NoTask]
          /\ UNCHANGED <<readyQueue, taskState, dependent>>
    BY <1>8, FinishingFrame
  <2>2. t # x
    BY <2>1 DEF Ended
  <2> QED
    BY <1>1, <2>1, <2>2 DEF Queued, Held, Resuming, TypeOK
<1> QED
  BY <1>3, <1>4, <1>5, <1>6, <1>7, <1>8, WorkerCases

Lost(t) == t \in added /\ ~Ended(t) /\ ~Located(t) /\ Open(t) = {}

LEMMA LostStep ==
  ASSUME OrderlyClient, ResumeOnSuspend, Inv, CountInv, [Next]_vars,
         FinalizesAtRest \/ UNCHANGED vars, NEW t \in Task, ~Lost(t)
  PROVE  ~Lost(t)'
<1> USE DEF Inv, TypeInv, CountInv
<1> SUFFICES ASSUME t \in added', ~Ended(t)'
             PROVE  Located(t)' \/ Open(t)' # {}
  BY DEF Lost
<1>1. ASSUME UNCHANGED <<readyQueue, task, dependent, taskState, added>>,
             Open(t) \subseteq Open(t)'
      PROVE  Located(t)' \/ Open(t)' # {}
  BY <1>1 DEF Lost, Located, Queued, Held, Resuming, Ended
<1>2. CASE Control
  <2>1. /\ UNCHANGED <<task, dependent, taskState, added>> /\ Open(t)' = Open(t)
        /\ ~Finalize => UNCHANGED readyQueue
    BY <1>2 DEF Control, Initialize, Run, RunRejected, Await, Finalize,
      ForceTermination, SetFinishOnLastTask, graphVars, workerVars, Open, ToNotify
  <2>2. CASE Finalize
    <3>1. CASE activeTaskCount = 0
      <4>1. t \in ActiveTask
        BY <2>1 DEF ActiveTask, Ended
      <4> QED
        BY <3>1, <4>1, NothingLeft
    <3>2. CASE \A w \in Worker : readyQueue[w] = <<>>
      <4>1. readyQueue' = readyQueue
        BY <2>2, <3>2 DEF Finalize, Queue, TypeOK
      <4> QED
        BY <1>1, <2>1, <4>1
    <3>3. CASE UNCHANGED vars
      BY <1>1, <2>1, <3>3 DEF vars
    <3> QED
      BY <2>2, <3>1, <3>2, <3>3 DEF FinalizesAtRest
  <2> QED
    BY <1>1, <2>1, <2>2
<1>3. ASSUME NEW x \in Task, NEW u \in Task, AddDependency(x, u)
      PROVE  Located(t)' \/ Open(t)' # {}
  <2>1. /\ UNCHANGED <<readyQueue, task, dependent, taskState, added, notified>>
        /\ outputDependencies' = [outputDependencies EXCEPT ![u] = @ \cup {x}]
    BY <1>3 DEF AddDependency, workerVars
  <2>2. Open(t) \subseteq Open(t)'
    BY <2>1 DEF Open, ToNotify, TypeOK
  <2> QED
    BY <1>1, <2>1, <2>2
<1>4. ASSUME NEW x \in Task, AddTask(x)
      PROVE  Located(t)' \/ Open(t)' # {}
  <2>1. /\ ResumeTask(x) /\ Fresh(x) /\ added' = added \cup {x}
        /\ UNCHANGED <<task, dependent, taskState>> /\ Open(t)' = Open(t)
    BY <1>4 DEF AddTask, MayAdd, OrderlyClient, workerVars, Open, ToNotify
  <2>2. \A q \in Queue : ~Queued(x, q)
    BY <2>1 DEF PlaceInv, UntouchedBefore, Located
  <2>3. CASE dependencyCount[x] = 0 /\ Push(x)
    <3>1. /\ affinity[x] \in Queue
          /\ \A v \in Task, q \in Queue :
               Queued(v, q)' <=> Queued(v, q) \/ (v = x /\ q = affinity[x])
      BY <2>2, <2>3, QueuesPush, ConfigAssumption DEF TypeOK, Queue
    <3>2. CASE t = x
      BY <3>1, <3>2 DEF Located
    <3>3. CASE t # x
      BY <2>1, <3>1, <3>3 DEF Lost, Located, Held, Resuming, Ended
    <3> QED
      BY <3>2, <3>3
  <2>4. CASE dependencyCount[x] > 0 /\ UNCHANGED readyQueue
    <3>1. Open(x) # {}
      <4>1. dependencyCount[x] = Cardinality(Open(x))
        BY DEF DependenciesCounted
      <4> QED
        BY <2>4, <4>1, FS_EmptySet
    <3>2. CASE t = x
      BY <2>1, <3>1, <3>2
    <3>3. CASE t # x
      BY <2>1, <2>4, <3>3 DEF Lost, Located, Queued, Held, Resuming, Ended
    <3> QED
      BY <3>2, <3>3
  <2> QED
    BY <2>1, <2>3, <2>4 DEF ResumeTask
<1>5. ASSUME NEW w \in Worker, WorkerStep(w)
      PROVE  Located(t)' \/ Open(t)' # {}
  <2>1. added' = added /\ Open(t)' = Open(t)
    BY <1>5, WorkerFrame DEF graphVars, Open, ToNotify
  <2>2. ASSUME NEW v \in Worker, Held(t, v) PROVE ~Ended(t)
    <3>1. taskState[t] # "finished"
      BY FinishedStays DEF Ended
    <3>2. pc[v] \in Holding
      BY <2>2, NameAssumption DEF PlaceInv, PointFits, Held
    <3> QED
      BY <2>2, <3>1, <3>2 DEF PlaceInv, StateFits, Ended, Resumable, Holding, Pulled
  <2>3. ~Ended(t)
    <3>1. ActiveTask' \subseteq ActiveTask
      BY <1>5, WorkerActivity DEF ActivityStays, TaskEnds
    <3>2. t \in ActiveTask
      BY <3>1 DEF ActiveTask, Ended
    <3> QED
      BY <2>2, <3>2 DEF ActiveTask, Ended
  <2> QED
    BY <1>5, <2>1, <2>3, PlaceKept DEF Lost
<1>6. ASSUME NEW w \in Worker, NEW d \in Task, Notify(w, d)
      PROVE  Located(t)' \/ Open(t)' # {}
  <2> DEFINE last == LastDependency(d)
  <2>1. /\ UNCHANGED <<readyQueue, task, taskState, added, outputDependencies>>
        /\ pc[w] = "notify" /\ task[w] \in Task
        /\ notified' = [notified EXCEPT ![task[w]] = @ \cup {d}]
        /\ dependencyCount' = [dependencyCount EXCEPT ![d] = @ - 1]
        /\ dependent' = [dependent EXCEPT ![w] = IF last THEN d ELSE NoTask]
    BY <1>6 DEF Notify, Goto, TypeOK, Pulled
  <2>2. dependent[w] = NoTask
    BY <2>1 DEF PlaceInv, PointFits
  <2>3. CASE t # d
    <3>1. Open(t)' = Open(t)
      BY <2>1, <2>3 DEF Open, ToNotify, TypeOK
    <3>2. \A v \in Worker : Resuming(t, v) => Resuming(t, v)'
      BY <2>1, <2>2, NameAssumption DEF Resuming, TypeOK
    <3> QED
      BY <2>1, <3>1, <3>2 DEF Lost, Located, Queued, Held, Ended
  <2>4. CASE t = d /\ last
    BY <2>1, <2>4 DEF Located, Resuming, TypeOK
  <2>5. CASE t = d /\ ~last
    <3>1. dependencyCount'[d] # 0
      BY <2>1, <2>5 DEF LastDependency, TypeOK
    <3>2. dependencyCount'[d] = Cardinality(Open(d)')
      BY <1>6, NotifyCounts DEF DependenciesCounted
    <3> QED
      BY <2>5, <3>1, <3>2, FS_EmptySet
  <2> QED
    BY <2>3, <2>4, <2>5
<1>7. CASE UNCHANGED vars
  <2>1. Open(t)' = Open(t)
    BY <1>7 DEF vars, graphVars, Open, ToNotify
  <2> QED
    BY <1>1, <1>7, <2>1 DEF vars, graphVars, workerVars
<1> QED
  BY <1>2, <1>3, <1>4, <1>5, <1>6, <1>7, NextCases

LEMMA NoneLost ==
  ASSUME TypeOK
  PROVE  NoTaskLost <=> \A t \in Task : ~Lost(t)
  BY DEF NoTaskLost, Lost, Ended, Open, ToNotify, TypeOK

\* Between the last decrement of a task's count and the push it causes, over
\* failed polls and suspensions, no wakeup is lost: an added task is in the
\* scheduler's hands or waits for a dependency.  The application resumes what
\* has suspended, and does not finalize with tasks left in a worker's queue.
THEOREM NoTaskLostUnlessDestroyed ==
  OrderlyClient /\ ResumeOnSuspend =>
    (Spec /\ [][FinalizesAtRest]_vars => []NoTaskLost)
<1> SUFFICES ASSUME OrderlyClient, ResumeOnSuspend
             PROVE  Spec /\ [][FinalizesAtRest]_vars => []NoTaskLost
  OBVIOUS
<1>1. Init => NoTaskLost
  BY DEF Init, NoTaskLost
<1>2. Inv /\ CountInv /\ NoTaskLost /\ [Next]_vars /\ [FinalizesAtRest]_vars
        /\ Inv' => NoTaskLost'
  <2> SUFFICES ASSUME Inv, CountInv, NoTaskLost, [Next]_vars,
                      [FinalizesAtRest]_vars, Inv'
               PROVE  NoTaskLost'
    OBVIOUS
  <2>1. \A t \in Task : ~Lost(t)
    BY NoneLost DEF Inv, TypeInv
  <2>2. \A t \in Task : ~Lost(t)'
    BY <2>1, LostStep
  <2>3. TypeOK'
    BY DEF Inv, TypeInv
  <2> QED
    BY <2>2, <2>3 DEF NoTaskLost, Lost, Ended, Open, ToNotify, TypeOK
<1> QED
  BY <1>1, <1>2, Counting, PTL DEF Spec

LEMMA FinalizingAtRest ==
  ASSUME TypeOK, AffinityRespected, ClientFeatures = {} \/ Affinities \subseteq {Common}
  PROVE  FinalizesAtRest
<1>1. CASE ClientFeatures = {}
  BY <1>1 DEF FinalizesAtRest, Finalize
<1>2. CASE Affinities \subseteq {Common}
  <2>1. ASSUME NEW w \in Worker, readyQueue[w] # <<>> PROVE FALSE
    <3>1. readyQueue[w] \in Seq(Task)
      BY DEF TypeOK, Queue
    <3>2. /\ Len(readyQueue[w]) >= 1 /\ readyQueue[w][1] \in Task
          /\ 1 \in DOMAIN readyQueue[w]
      BY <2>1, <3>1
    <3>3. Queued(readyQueue[w][1], w)
      BY <3>2 DEF Queued
    <3>4. w = affinity[readyQueue[w][1]]
      BY <3>2, <3>3 DEF AffinityRespected, Queue
    <3> QED
      BY <1>2, <3>2, <3>4, NameAssumption DEF TypeOK
  <2> QED
    BY <2>1 DEF FinalizesAtRest
<1> QED
  BY <1>1, <1>2

\* So no task is lost by an application that awaits what it has added before it
\* finalizes, nor by one that leaves all tasks to the common queue.
THEOREM NoTaskLostHolds ==
  /\ OrderlyClient /\ ResumeOnSuspend
  /\ ClientFeatures = {} \/ Affinities \subseteq {Common}
  => (Spec => []NoTaskLost)
<1> SUFFICES ASSUME OrderlyClient, ResumeOnSuspend,
                    ClientFeatures = {} \/ Affinities \subseteq {Common}
             PROVE  Spec => []NoTaskLost
  OBVIOUS
<1>1. Inv /\ AffinityRespected /\ [Next]_vars => [FinalizesAtRest]_vars
  BY FinalizingAtRest DEF Inv, TypeInv
<1>2. Spec => [][FinalizesAtRest]_vars
  BY <1>1, Placement, AffinityRespectedHolds, PTL DEF Spec
<1> QED
  BY <1>2, NoTaskLostUnlessDestroyed, PTL

-----------------------------------------------------------------------------
(* Nothing is left in the queues, also of tasks that nobody has counted.   *)

\* Pushing changes a worker's state only if that worker sleeps.
LEMMA PushedState ==
  ASSUME TypeOK, WorkerFits, NEW t \in Task, Push(t), NEW v \in Worker
  PROVE  \/ workerState'[v] = workerState[v]
         \/ pc[v] = "asleep" /\ workerState'[v] = "resuming"
  BY DEF TypeOK, WorkerFits, Push, Points, Pulled, InLoop, WorkerStates

LEMMA FitsStep ==
  ASSUME Inv, WorkerFits, [Next]_vars
  PROVE  WorkerFits'
<1> DEFINE Fits(p, s, idle) ==
      /\ p \in Points \ {"mainLoop", "asleep", "stopped", "leave",
                         "checkTermination"} => s = "running"
      /\ p = "checkTermination" => s \in {"running", "suspending"}
      /\ p = "leave" /\ ~idle => s = "running"
      /\ p \in {"leave", "mainLoop"} =>
           s \in {"running", "suspending", "terminating"}
      /\ p = "asleep" => s \in {"suspended", "resuming"}
      /\ p = "stopped" => s = "terminated"
<1> SUFFICES ASSUME NEW v \in Worker
             PROVE  Fits(pc'[v], workerState'[v], task'[v] = NoTask)
  BY DEF WorkerFits
<1>1. Fits(pc[v], workerState[v], task[v] = NoTask)
  BY DEF WorkerFits
<1> USE DEF Inv, TypeInv
<1>2. CASE Run
  BY <1>2 DEF Run
<1>3. CASE \/ (Control /\ ~Run) \/ UNCHANGED vars
           \/ \E x, u \in Task : AddDependency(x, u)
  <2>1. UNCHANGED <<pc, workerState, task>>
    BY <1>3 DEF Control, Initialize, RunRejected, Await, Finalize,
      ForceTermination, SetFinishOnLastTask, AddDependency, workerVars, vars
  <2> QED
    BY <1>1, <2>1
<1>4. ASSUME NEW t \in Task, Push(t), pc'[v] = pc[v], task'[v] = task[v]
      PROVE  Fits(pc'[v], workerState'[v], task'[v] = NoTask)
  BY <1>1, <1>4, PushedState
<1>5. ASSUME NEW x \in Task, AddTask(x)
      PROVE  Fits(pc'[v], workerState'[v], task'[v] = NoTask)
  BY <1>1, <1>4, <1>5 DEF AddTask, ResumeTask, workerVars
<1>6. ASSUME NEW w \in Worker, NEW d \in Task, Notify(w, d)
      PROVE  Fits(pc'[v], workerState'[v], task'[v] = NoTask)
  <2>1. /\ pc[w] = "notify" /\ UNCHANGED <<workerState, task>>
        /\ \E to \in {"resume", "notify"} : pc' = [pc EXCEPT ![w] = to]
    BY <1>6 DEF Notify, Goto
  <2> QED
    BY <1>1, <2>1 DEF TypeOK, Points, Pulled
<1>7. ASSUME NEW w \in Worker, WorkerStep(w)
      PROVE  Fits(pc'[v], workerState'[v], task'[v] = NoTask)
  <2> USE DEF Goto, TypeOK, Points, Pulled, InLoop
  <2>1. ASSUME NEW t \in Task, Push(t), NEW to, pc' = [pc EXCEPT ![w] = to],
               \/ pc[w] \in {"poll", "yielded"} /\ to \in {"noTask", "mainLoop"}
               \/ pc[w] = "resume" /\ to = "notify",
               v # w => task'[v] = task[v]
        PROVE  Fits(pc'[v], workerState'[v], task'[v] = NoTask)
    BY <1>1, <2>1, PushedState
  <2>2. CASE Requeuing(w)
    <3>1. PICK t \in Task, to \in {"noTask", "mainLoop"} :
            /\ pc' = [pc EXCEPT ![w] = to] /\ pc[w] \in {"poll", "yielded"}
            /\ task' = [task EXCEPT ![w] = NoTask]
            /\ Push(t) \/ UNCHANGED workerState
      BY <2>2, RequeuingFrame
    <3>2. v # w => task'[v] = task[v]
      BY <3>1
    <3>3. CASE UNCHANGED workerState
      BY <1>1, <3>1, <3>3
    <3> QED
      BY <2>1, <3>1, <3>2, <3>3
  <2>3. CASE ResumeDependent(w)
    BY <1>1, <2>1, <2>3 DEF ResumeDependent, ResumeTask
  <2>4. CASE Pulling(w) \/ Dropping(w)
    <3>1. /\ pc[w] \in {"pullOwn", "pullCommon", "drainCommon", "drainOwn"}
          /\ \E to \in {"poll", "noTask", "pullCommon", "drainOwn", "pullOwn"} :
               pc' = [pc EXCEPT ![w] = to] \/ pc' = pc
          /\ UNCHANGED workerState /\ (v # w => task'[v] = task[v])
      BY <2>4, PullingFrame, DroppingFrame
    <3> QED
      BY <1>1, <3>1
  <2>5. CASE Advancing(w) \/ OnTaskFinish(w)
    <3>1. /\ pc[w] \in {"run", "exec", "notify"}
          /\ \E to \in {"exec", "yielded", "notify", "mainLoop"} :
               pc' = [pc EXCEPT ![w] = to]
          /\ UNCHANGED workerState /\ (v # w => task'[v] = task[v])
      BY <2>5, AdvancingFrame, FinishingFrame
    <3> QED
      BY <1>1, <3>1
  <2>6. CASE CheckTermination(w) \/ CheckSuspension(w)
    <3>1. task[w] = NoTask
      BY <2>6 DEF CheckTermination, CheckSuspension, PlaceInv, PointFits, Holding
    <3> QED
      BY <1>1, <2>6, <3>1 DEF CheckTermination, CheckSuspension
  <2>7. CASE EnterLoop(w) \/ PollSatisfied(w) \/ PollDone(w) \/ LeaveLoop(w)
    BY <1>1, <2>7 DEF EnterLoop, PollSatisfied, PollDone, LeaveLoop
  <2>8. CASE Sleep(w) \/ WakeUp(w) \/ Terminate(w)
    BY <1>1, <2>8 DEF Sleep, WakeUp, Terminate
  <2>9. CASE \/ \E op \in Operation : AddPendingOperation(w, op)
             \/ \E a \in Affinities : SetWorkerAffinity(w, a)
    BY <1>1, <2>9 DEF AddPendingOperation, SetWorkerAffinity
  <2> QED
    BY <1>7, <2>2, <2>3, <2>4, <2>5, <2>6, <2>7, <2>8, <2>9, WorkerCases
    DEF Quiet
<1> QED
  BY <1>2, <1>3, <1>5, <1>6, <1>7, NextCases

\* A task is ready until it is run or dropped, and never again after.
LEMMA ReadyBefore ==
  ASSUME Inv, NEW w \in Worker, WorkerStep(w), NEW t \in Task,
         taskState'[t] = "ready"
  PROVE  taskState[t] = "ready"
<1> USE DEF Inv, TypeInv, TypeOK
<1>1. CASE UNCHANGED taskState
  BY <1>1
<1>2. ASSUME NEW x \in Task, NEW st \in TaskStates \ {"ready"},
             taskState' = [taskState EXCEPT ![x] = st]
      PROVE  taskState[t] = "ready"
  BY <1>2
<1>3. CASE Dropping(w)
  BY <1>1, <1>2, <1>3, DroppingFrame DEF TaskStates
<1>4. CASE Advancing(w)
  BY <1>1, <1>2, <1>4, AdvancingFrame DEF TaskStates
<1>5. CASE Quiet(w) \/ Pulling(w) \/ Requeuing(w) \/ OnTaskFinish(w)
  BY <1>1, <1>5, QuietFrame, PullingFrame, RequeuingFrame, FinishingFrame
<1> QED
  BY <1>3, <1>4, <1>5, WorkerCases

\* A task has pending operations only once it runs.
LEMMA PendingStep ==
  ASSUME Inv, NEW w \in Worker, WorkerStep(w), NEW t \in Task,
         taskState[t] = "ready", pendingOperations[t] = <<>>
  PROVE  pendingOperations'[t] = <<>>
<1> USE DEF Inv, TypeInv, TypeOK
<1>1. ASSUME NEW op \in Operation, AddPendingOperation(w, op)
      PROVE  pendingOperations'[t] = <<>>
  BY <1>1 DEF AddPendingOperation, Goto, Pulled, PlaceInv, StateFits, Held
<1>2. CASE PollSatisfied(w)
  BY <1>2 DEF PollSatisfied, Goto, Pulled
<1>3. CASE Advancing(w)
  BY <1>3, AdvancingFrame
<1>4. CASE Pulling(w) \/ Dropping(w) \/ Requeuing(w) \/ OnTaskFinish(w)
  BY <1>4, PullingFrame, DroppingFrame, RequeuingFrame, FinishingFrame
  DEF bodyVars
<1> QED
  BY <1>1, <1>2, <1>3, <1>4, WorkerCases
  DEF Quiet, EnterLoop, PollDone, CheckSuspension, CheckTermination,
      LeaveLoop, Sleep, WakeUp, Terminate, ResumeDependent, SetWorkerAffinity,
      bodyVars

LEMMA ReadyStep ==
  ASSUME OrderlyClient, Inv, ReadyIsFresh, [Next]_vars
  PROVE  ReadyIsFresh'
<1> DEFINE NotPending(t) == taskState[t] = "ready" => pendingOperations[t] = <<>>
           AtQueue(t) == \A q \in Queue : Queued(t, q) => taskState[t] = "ready"
           AtWorker(t) == \A w \in Worker :
             Held(t, w) /\ pc[w] \in {"poll", "leave", "run"} =>
               taskState[t] = "ready"
<1> SUFFICES ASSUME NEW t \in Task
             PROVE  /\ NotPending(t)'
                    /\ t \notin added' => AtQueue(t)' /\ AtWorker(t)'
  BY DEF ReadyIsFresh
<1> USE DEF Inv, TypeInv
<1>1. NotPending(t) /\ (t \notin added => AtQueue(t) /\ AtWorker(t))
  BY DEF ReadyIsFresh
<1>2. CASE Control
  <2>1. /\ UNCHANGED <<pendingOperations, taskState, added, task>>
        /\ \A w \in Worker : pc'[w] = pc[w] \/ pc'[w] = "mainLoop"
    BY <1>2 DEF Control, Initialize, Run, RunRejected, Await, Finalize,
      ForceTermination, SetFinishOnLastTask, bodyVars, workerVars, graphVars
  <2>2. \A q \in Queue : readyQueue'[q] = readyQueue[q] \/ readyQueue'[q] = <<>>
    BY <1>2 DEF Control, Initialize, Run, RunRejected, Await, Finalize,
      ForceTermination, SetFinishOnLastTask
  <2>3. \A q \in Queue : Queued(t, q)' => Queued(t, q)
    BY <2>2 DEF Queued
  <2> QED
    BY <1>1, <2>1, <2>3 DEF Held
<1>3. CASE \/ UNCHANGED vars
           \/ \E x, u \in Task : AddDependency(x, u)
  <2>1. UNCHANGED <<readyQueue, taskState, pendingOperations, added, task, pc>>
    BY <1>3 DEF AddDependency, bodyVars, workerVars, graphVars, vars
  <2> QED
    BY <1>1, <2>1 DEF Queued, Held
<1>4. ASSUME NEW x \in Task, AddTask(x)
      PROVE  /\ NotPending(t)'
             /\ t \notin added' => AtQueue(t)' /\ AtWorker(t)'
  <2>1. /\ ResumeTask(x) /\ Fresh(x) /\ added' = added \cup {x}
        /\ UNCHANGED <<pendingOperations, taskState, task, pc>>
    BY <1>4 DEF AddTask, MayAdd, OrderlyClient, bodyVars, workerVars
  <2>2. \A q \in Queue : ~Queued(x, q)
    BY <2>1 DEF PlaceInv, UntouchedBefore, Located
  <2>3. \A q \in Queue : Queued(t, q)' => Queued(t, q) \/ t = x
    BY <2>1, <2>2, QueuesPush, QueuesSame DEF ResumeTask
  <2> QED
    BY <1>1, <2>1, <2>3 DEF Held
<1>5. ASSUME NEW w \in Worker, WorkerStep(w)
      PROVE  /\ NotPending(t)'
             /\ t \notin added' => AtQueue(t)' /\ AtWorker(t)'
  <2>1. NotPending(t)'
    BY <1>1, <1>5, ReadyBefore, PendingStep
  <2>2. added' = added
    BY <1>5, WorkerFrame DEF graphVars
  <2>3. CASE t \in added
    BY <2>1, <2>2, <2>3
  <2> SUFFICES ASSUME t \notin added PROVE AtQueue(t)' /\ AtWorker(t)'
    BY <2>1, <2>2, <2>3
  <2>4. ASSUME NEW x \in Task, Push(x), \A q \in Queue : ~Queued(x, q),
               x # t \/ taskState[t] = "ready"
        PROVE  \A q \in Queue : Queued(t, q)' => taskState[t] = "ready"
    BY <1>1, <2>4, QueuesPush
  <2>5. CASE Quiet(w)
    <3>1. taskState' = taskState
      BY <2>5, QuietFrame
    <3>2. ASSUME NEW d \in Task, Push(d), taskState[d] = "ready",
                 \A q \in Queue : ~Queued(d, q),
                 pc' = [pc EXCEPT ![w] = "notify"], UNCHANGED task
          PROVE  AtQueue(t)' /\ AtWorker(t)'
      <4>1. AtQueue(t)'
        BY <2>4, <3>1, <3>2
      <4>2. AtWorker(t)'
        BY <1>1, <3>1, <3>2 DEF Held, TypeOK
      <4> QED
        BY <4>1, <4>2
    <3>3. ASSUME UNCHANGED <<readyQueue, task>>, NEW to \in Points,
                 pc' = [pc EXCEPT ![w] = to],
                 to \in {"poll", "run"} => pc[w] \in {"poll", "leave"},
                 to = "leave" /\ task[w] # NoTask => pc[w] = "poll"
          PROVE  AtQueue(t)' /\ AtWorker(t)'
      <4>1. AtQueue(t)'
        BY <1>1, <3>1, <3>3 DEF Queued
      <4>2. Held(t, w) => task[w] # NoTask
        BY NameAssumption DEF Held
      <4>3. AtWorker(t)'
        BY <1>1, <3>1, <3>3, <4>2 DEF Held, TypeOK
      <4> QED
        BY <4>1, <4>3
    <3>4. CASE UNCHANGED <<readyQueue, task, pc>>
      BY <1>1, <3>1, <3>4 DEF Queued, Held
    <3> QED
      BY <2>5, <3>2, <3>3, <3>4, QuietCases
  <2>6. CASE Pulling(w)
    <3>1. taskState' = taskState
      BY <2>6, PullingFrame
    <3>2. ASSUME UNCHANGED <<readyQueue, task>>,
                 NEW to \in {"pullCommon", "noTask"}, pc' = [pc EXCEPT ![w] = to]
          PROVE  AtQueue(t)' /\ AtWorker(t)'
      BY <1>1, <3>1, <3>2 DEF Queued, Held, TypeOK
    <3>3. ASSUME NEW q \in {w, Common}, NEW x \in Task, Queued(x, q),
                 task' = [task EXCEPT ![w] = x], pc' = [pc EXCEPT ![w] = "poll"],
                 \A u \in Task, p \in Queue : Queued(u, p)' <=> Queued(u, p) /\ u # x
          PROVE  AtQueue(t)' /\ AtWorker(t)'
      <4>1. AtQueue(t)'
        BY <1>1, <3>1, <3>3
      <4>2. t = x => taskState[t] = "ready"
        BY <1>1, <3>3 DEF Queue
      <4>3. AtWorker(t)'
        BY <1>1, <3>1, <3>3, <4>2 DEF Held, TypeOK
      <4> QED
        BY <4>1, <4>3
    <3> QED
      BY <2>6, <3>2, <3>3, PullingFrame
  <2>7. CASE Dropping(w)
    <3>1. /\ UNCHANGED task
          /\ \A v \in Worker : pc'[v] \in {"poll", "leave", "run"} => pc'[v] = pc[v]
      BY <2>7, DroppingFrame DEF TypeOK
    <3>2. CASE UNCHANGED <<readyQueue, taskState>>
      BY <1>1, <3>1, <3>2 DEF Queued, Held
    <3>3. ASSUME NEW q \in {w, Common}, NEW x \in Task, Queued(x, q),
                 taskState' = [taskState EXCEPT ![x] = "drained"],
                 \A u \in Task, p \in Queue : Queued(u, p)' <=> Queued(u, p) /\ u # x
          PROVE  AtQueue(t)' /\ AtWorker(t)'
      <4>1. \A v \in Worker : ~Held(x, v)
        BY <3>3 DEF PlaceInv, QueuedOrHeld, Queue
      <4>2. t # x => taskState'[t] = taskState[t]
        BY <3>3 DEF TypeOK
      <4> QED
        BY <1>1, <3>1, <3>3, <4>1, <4>2 DEF Held
    <3> QED
      BY <2>7, <3>2, <3>3, DroppingFrame
  <2>8. CASE Requeuing(w)
    <3>1. PICK x \in Task, to \in {"noTask", "mainLoop"} :
            /\ Held(x, w) /\ \A q \in Queue : ~Queued(x, q)
            /\ task' = [task EXCEPT ![w] = NoTask] /\ pc' = [pc EXCEPT ![w] = to]
            /\ \/ Push(x) /\ (pc[w] = "poll" \/ x \in added)
               \/ UNCHANGED readyQueue
            /\ taskState' = taskState
      BY <2>8, RequeuingFrame
    <3>2. AtWorker(t)'
      BY <1>1, <3>1, NameAssumption DEF Held, TypeOK
    <3>3. AtQueue(t)'
      BY <1>1, <2>4, <3>1 DEF Queued
    <3> QED
      BY <3>2, <3>3
  <2>9. CASE Advancing(w)
    <3>1. PICK x \in Task :
            /\ Held(x, w)
            /\ \E st \in TaskStates : taskState' = [taskState EXCEPT ![x] = st]
            /\ \E to \in {"exec", "yielded", "notify"} :
                 pc' = [pc EXCEPT ![w] = to]
            /\ UNCHANGED <<readyQueue, task>>
      BY <2>9, AdvancingFrame DEF TaskStates
    <3>2. /\ \A q \in Queue : ~Queued(x, q)
          /\ \A v \in Worker : Held(x, v) => v = w
      BY <3>1 DEF PlaceInv, QueuedOrHeld, WorkersApart
    <3>3. t # x => taskState'[t] = taskState[t]
      BY <3>1 DEF TypeOK
    <3> QED
      BY <1>1, <3>1, <3>2, <3>3 DEF Queued, Held, TypeOK
  <2>10. CASE OnTaskFinish(w)
    <3>1. /\ task' = [task EXCEPT ![w] = NoTask]
          /\ pc' = [pc EXCEPT ![w] = "mainLoop"]
          /\ UNCHANGED <<readyQueue, taskState>>
      BY <2>10, FinishingFrame
    <3> QED
      BY <1>1, <3>1, NameAssumption DEF Queued, Held, TypeOK
  <2> QED
    BY <1>5, <2>5, <2>6, <2>7, <2>8, <2>9, <2>10, WorkerCases
<1>6. ASSUME NEW w \in Worker, NEW d \in Task, Notify(w, d)
      PROVE  /\ NotPending(t)'
             /\ t \notin added' => AtQueue(t)' /\ AtWorker(t)'
  <2>1. /\ UNCHANGED <<readyQueue, taskState, pendingOperations, added, task>>
        /\ \E to \in {"resume", "notify"} : pc' = [pc EXCEPT ![w] = to]
    BY <1>6 DEF Notify, Goto, bodyVars
  <2> QED
    BY <1>1, <2>1 DEF Queued, Held, TypeOK
<1> QED
  BY <1>2, <1>3, <1>4, <1>5, <1>6, NextCases

\* A worker's step leaves it attentive, or leaves the tasks and the queues
\* alone; what is attentive before such a step is so after it, unless the common
\* queue was found empty.
LEMMA AttentiveStep ==
  ASSUME OrderlyClient, Inv, CountInv, WorkerFits, ReadyIsFresh, WorkerFits',
         NEW w \in Worker, WorkerStep(w), ActiveTask' = {}
  PROVE  \/ Attentive(w)'
         \/ /\ UNCHANGED <<readyQueue, activeTaskCount, taskState, task>>
            /\ Attentive(w) => readyQueue[Common] = <<>>
            /\ \A v \in Worker \ {w} : pc'[v] = pc[v] /\ workerState'[v] = workerState[v]
<1> USE DEF Inv, TypeInv, TypeOK, Goto, Points, Pulled, InLoop
<1>1. ASSUME NEW to \in Pulled \cup {"drainCommon", "drainOwn", "pullOwn",
                                     "pullCommon", "asleep"},
             pc' = [pc EXCEPT ![w] = to]
      PROVE  Attentive(w)'
  BY <1>1 DEF Attentive
<1>2. ASSUME pc' = [pc EXCEPT ![w] = "mainLoop"], workerState'[w] = "running"
      PROVE  Attentive(w)'
  BY <1>2 DEF Attentive
<1>3. CASE EnterLoop(w) \/ PollSatisfied(w) \/ ResumeDependent(w) \/ Sleep(w)
  BY <1>1, <1>3 DEF EnterLoop, PollSatisfied, ResumeDependent, Sleep
<1>4. CASE PollDone(w)
  BY <1>4, NameAssumption DEF PollDone, Attentive
<1>5. CASE WakeUp(w)
  BY <1>2, <1>5 DEF WakeUp
<1>6. CASE \/ \E op \in Operation : AddPendingOperation(w, op)
           \/ \E a \in Affinities : SetWorkerAffinity(w, a)
  BY <1>1, <1>6 DEF AddPendingOperation, SetWorkerAffinity
<1>7. CASE CheckSuspension(w) \/ CheckTermination(w)
  BY <1>7 DEF CheckSuspension, CheckTermination, Attentive, PlaceInv,
              PointFits, Holding
<1>8. CASE LeaveLoop(w)
  <2>1. CASE task[w] # NoTask
    BY <1>1, <1>8, <2>1 DEF LeaveLoop
  <2>2. CASE task[w] = NoTask
    BY <1>8, <2>2 DEF LeaveLoop, Attentive
  <2> QED
    BY <2>1, <2>2
<1>9. CASE Terminate(w)
  BY <1>9 DEF Terminate, Attentive
<1>10. CASE Pulling(w)
  <2>1. /\ UNCHANGED <<activeTaskCount, taskState, workerState>>
        /\ \/ pc' = [pc EXCEPT ![w] = "poll"]
           \/ pc' = [pc EXCEPT ![w] = "pullCommon"]
           \/ /\ UNCHANGED <<readyQueue, task>>
              /\ pc' = [pc EXCEPT ![w] = "noTask"]
              /\ readyQueue[Common] = <<>>
    BY <1>10, PullingFrame
  <2> QED
    BY <1>1, <2>1
<1>11. CASE Dropping(w)
  <2>1. \/ pc' = [pc EXCEPT ![w] = "drainOwn"]
        \/ pc' = [pc EXCEPT ![w] = "pullOwn"]
        \/ pc' = [pc EXCEPT ![w] = pc[w]] /\ pc[w] \in {"drainCommon", "drainOwn"}
    BY <1>11, DroppingFrame
  <2> QED
    BY <1>1, <2>1
<1>12. CASE PollUnsatisfied(w)
  <2>1. PICK t \in Task :
          /\ Held(t, w) /\ pc[w] = "poll" /\ taskState[t] \in Resumable
          /\ UNCHANGED <<taskState, graphVars>> /\ pendingOperations[t] # <<>>
    BY <1>12, RequeuingFrame DEF Requeuing, PollUnsatisfied, Held
  <2>2. t \in added
    BY <2>1 DEF ReadyIsFresh
  <2>3. t \in ActiveTask'
    BY <2>1, <2>2 DEF ActiveTask, Resumable, graphVars
  <2> QED
    BY <2>3
<1>13. CASE OnTaskSuspend(w)
  <2>1. pc' = [pc EXCEPT ![w] = "mainLoop"] /\ pc[w] = "yielded"
    BY <1>13 DEF OnTaskSuspend
  <2>2. PICK t \in Task : Push(t) \/ UNCHANGED workerState
    BY <1>13, RequeuingFrame DEF Requeuing
  <2>3. workerState'[w] = "running"
    BY <2>1, <2>2, PushedState DEF WorkerFits
  <2> QED
    BY <1>2, <2>1, <2>3
<1>14. CASE Advancing(w)
  <2>1. \E to \in {"exec", "yielded", "notify"} : pc' = [pc EXCEPT ![w] = to]
    BY <1>14, AdvancingFrame
  <2> QED
    BY <1>1, <2>1
<1>15. CASE OnTaskFinish(w)
  <2>1. /\ pc' = [pc EXCEPT ![w] = "mainLoop"] /\ pc[w] = "notify"
        /\ workerState' = workerState
    BY <1>15, FinishingFrame
  <2> QED
    BY <1>2, <2>1 DEF WorkerFits
<1> QED
  BY <1>3, <1>4, <1>5, <1>6, <1>7, <1>8, <1>9, <1>10, <1>11, <1>12, <1>13,
     <1>14, <1>15, WorkerCases DEF Quiet, Requeuing

LEMMA LooksStep ==
  ASSUME OrderlyClient, Inv, CountInv, RestInv, WorkerFits', [Next]_vars
  PROVE  SomebodyLooks'
<1> USE DEF Inv, TypeInv, CountInv, RestInv
<1> SUFFICES ASSUME state' = "running", ActiveTask' = {},
                    NEW t \in Task, Queued(t, Common)'
             PROVE  \E w \in Worker : Attentive(w)'
  BY DEF SomebodyLooks
<1>1. CASE Run
  BY <1>1, WorkerAssumption DEF Run, Attentive
<1>2. CASE \/ (Control /\ ~Run) \/ UNCHANGED vars
           \/ \E x, u \in Task : AddDependency(x, u)
  <2>1. /\ UNCHANGED <<added, readyQueue, taskState, task, pc, workerState>>
        /\ state = "running"
    BY <1>2 DEF Control, Initialize, RunRejected, Await, Finalize,
      ForceTermination, SetFinishOnLastTask, AddDependency, workerVars,
      graphVars, runtimeVars, vars
  <2>2. ActiveTask = {} /\ Queued(t, Common)
    BY <2>1 DEF ActiveTask, Held, Queued
  <2> QED
    BY <2>1, <2>2 DEF SomebodyLooks, Attentive
<1>3. ASSUME NEW x \in Task, AddTask(x) PROVE FALSE
  BY <1>3, AddTaskActivity DEF TaskStarts
<1>4. ASSUME NEW w \in Worker, NEW d \in Task, Notify(w, d)
      PROVE  Attentive(w)'
  <2>1. \E to \in {"resume", "notify"} : pc' = [pc EXCEPT ![w] = to]
    BY <1>4 DEF Notify, Goto
  <2> QED
    BY <2>1 DEF Attentive, Pulled, TypeOK
<1>5. ASSUME NEW w \in Worker, WorkerStep(w), ~Attentive(w)'
      PROVE  \E v \in Worker : Attentive(v)'
  <2>1. /\ UNCHANGED <<readyQueue, activeTaskCount, taskState, task>>
        /\ Attentive(w) => readyQueue[Common] = <<>>
        /\ \A v \in Worker \ {w} :
             pc'[v] = pc[v] /\ workerState'[v] = workerState[v]
    BY <1>5, AttentiveStep
  <2>2. UNCHANGED added /\ state = "running"
    BY <1>5, WorkerFrame DEF graphVars, runtimeVars
  <2>3. ActiveTask = {} /\ Queued(t, Common)
    BY <2>1, <2>2 DEF ActiveTask, Held, Queued
  <2>4. PICK v \in Worker : Attentive(v)
    BY <2>2, <2>3 DEF SomebodyLooks
  <2>5. readyQueue[Common] # <<>>
    BY <2>3 DEF Queued
  <2>6. v # w
    BY <2>1, <2>4, <2>5
  <2> QED
    BY <2>1, <2>4, <2>6 DEF Attentive
<1> QED
  BY <1>1, <1>2, <1>3, <1>4, <1>5, NextCases

LEMMA InitRest == Init => RestInv
<1> SUFFICES ASSUME Init PROVE RestInv
  OBVIOUS
<1>1. \A t \in Task, q \in Queue : ~Queued(t, q)
  BY DEF Init, Queued
<1>2. \A w \in Worker : pc[w] = "stopped" /\ workerState[w] = "terminated"
  BY DEF Init
<1>3. \A t \in Task : pendingOperations[t] = <<>>
  BY DEF Init
<1>4. WorkerFits
  BY <1>2 DEF WorkerFits, Points, Pulled, InLoop
<1>5. ReadyIsFresh /\ SomebodyLooks
  BY <1>1, <1>2, <1>3 DEF ReadyIsFresh, SomebodyLooks, Queue
<1> QED
  BY <1>4, <1>5 DEF RestInv

\* What the workers are at, and that one of them looks where a task waits.
THEOREM Resting == OrderlyClient => (Spec => []RestInv)
<1> SUFFICES ASSUME OrderlyClient PROVE Spec => []RestInv
  OBVIOUS
<1>1. Inv /\ CountInv /\ RestInv /\ [Next]_vars => RestInv'
  BY FitsStep, ReadyStep, LooksStep DEF RestInv
<1> QED
  BY <1>1, InitRest, Counting, PTL DEF Spec

\* When all workers have stopped the queues are empty, although a task that was
\* never added is counted by nobody: a worker that finishes the last counted
\* task goes back to the common queue before it asks whether it may terminate.
\* The own queues need more, as only their worker looks there: that tasks have
\* no affinity, or that the application adds all of its tasks.
THEOREM RestsEmptyHolds ==
  /\ OrderlyClient /\ ~Allowed("externalAdd")
  /\ Affinities \subseteq {Common} \/ ~Allowed("partialGraph")
  => (Spec => []RestsEmpty)
<1> SUFFICES ASSUME OrderlyClient, ~Allowed("externalAdd"),
                    Affinities \subseteq {Common} \/ ~Allowed("partialGraph")
             PROVE  Spec => []RestsEmpty
  OBVIOUS
<1>1. ASSUME Inv, CountInv, RestInv, LeavesNoTaskBehind, AffinityRespected
      PROVE  RestsEmpty
  <2> USE DEF Inv, TypeInv, PlaceInv, CountInv, RestInv
  <2> SUFFICES ASSUME state = "running", \A w \in Worker : pc[w] = "stopped",
                      NEW t \in Task, Located(t)
               PROVE  FALSE
    BY DEF RestsEmpty
  <2>1. ActiveTask = {}
    BY <1>1, WorkerAssumption DEF WorkerFits, LeavesNoTaskBehind
  <2>2. PICK q \in Queue : Queued(t, q)
    BY <1>1, NameAssumption
    DEF Located, Held, Resuming, PointFits, Holding, Pulled
  <2>3. CASE Affinities \subseteq {Common}
    <3>1. q = Common
      BY <1>1, <2>2, <2>3 DEF AffinityRespected, TypeOK
    <3>2. PICK w \in Worker : Attentive(w)
      BY <1>1, <2>1, <2>2, <3>1 DEF SomebodyLooks
    <3> QED
      BY <3>2 DEF Attentive, Pulled
  <2>4. CASE ~Allowed("partialGraph")
    <3>1. Closed
      BY <1>1, <2>4 DEF DroppedIsCounted
    <3>2. t \in added
      BY <1>1, <3>1, LocatedIsAdded
    <3>3. taskState[t] \in Resumable
      BY <1>1, <2>2 DEF StateFits
    <3> QED
      BY <2>1, <3>2, <3>3 DEF ActiveTask, Resumable
  <2> QED
    BY <2>3, <2>4
<1> QED
  BY <1>1, Counting, Resting, LeavesNoTaskBehindHolds, AffinityRespectedHolds, PTL

-----------------------------------------------------------------------------
(* The scheduler implements TaskGraph: each of its steps is, under the     *)
(* mapping of RuntimeRefinement, a step of the task graph or leaves it as  *)
(* it is.                                                                  *)

\* A running task is in the hands of a worker that executes it.
RunningIsHeld ==
  \A t \in Task : taskState[t] = "running" =>
    \E w \in Worker : Held(t, w) /\ pc[w] = "exec"

RefinementInv ==
  /\ Inv /\ CountInv /\ WorkerFits
  /\ LeavesNoTaskBehind /\ RunningIsHeld

-----------------------------------------------------------------------------
(* The additional invariant.                                               *)

\* A task that is executed has just been started by the worker that holds it.
LEMMA AdvancingStates ==
  ASSUME Inv, NEW w \in Worker, Advancing(w)
  PROVE  \E t \in Task :
           /\ Held(t, w) /\ task' = task
           /\ \/ /\ pc' = [pc EXCEPT ![w] = "exec"]
                 /\ taskState' = [taskState EXCEPT ![t] = "running"]
              \/ /\ pc' = [pc EXCEPT ![w] = "yielded"]
                 /\ taskState' = [taskState EXCEPT ![t] = "suspended"]
              \/ /\ pc' = [pc EXCEPT ![w] = "notify"]
                 /\ taskState' = [taskState EXCEPT ![t] = "finished"]
<1>1. PICK t \in Task :
        /\ Held(t, w)
        /\ \/ /\ pc[w] = "run" /\ pc' = [pc EXCEPT ![w] = "exec"]
              /\ taskState' = [taskState EXCEPT ![t] = "running"]
           \/ /\ pc[w] = "exec" /\ pc' = [pc EXCEPT ![w] = "yielded"]
              /\ taskState' = [taskState EXCEPT ![t] = "suspended"]
           \/ /\ pc[w] = "exec" /\ pc' = [pc EXCEPT ![w] = "notify"]
              /\ taskState' = [taskState EXCEPT ![t] = "finished"]
        /\ task' = task
  BY AdvancingFrame
<1> QED
  BY <1>1

LEMMA RunningStep ==
  ASSUME Inv, RunningIsHeld, [Next]_vars
  PROVE  RunningIsHeld'
<1> USE DEF Inv, TypeInv, TypeOK
<1> SUFFICES ASSUME NEW t \in Task, taskState'[t] = "running"
             PROVE  \E w \in Worker : Held(t, w)' /\ pc'[w] = "exec"
  BY DEF RunningIsHeld
<1>1. ASSUME NEW w \in Worker, Held(t, w), pc[w] = "exec",
             \/ UNCHANGED <<pc, task>>
             \/ pc'[w] = "exec" /\ task'[w] = task[w]
      PROVE  Held(t, w)' /\ pc'[w] = "exec"
  BY <1>1 DEF Held
<1>2. CASE Control
  <2>1. UNCHANGED <<taskState, task>>
    BY <1>2 DEF Control, Initialize, Run, RunRejected, Await, Finalize,
      ForceTermination, SetFinishOnLastTask, workerVars
  <2>2. PICK w \in Worker : Held(t, w) /\ pc[w] = "exec"
    BY <2>1 DEF RunningIsHeld
  <2>3. state = "running"
    BY <2>2 DEF PlaceInv, PointFits
  <2>4. pc' = pc
    BY <1>2, <2>3 DEF Control, Initialize, Run, RunRejected, Await, Finalize,
      ForceTermination, SetFinishOnLastTask, workerVars
  <2> QED
    BY <1>1, <2>1, <2>2, <2>4
<1>3. CASE \/ UNCHANGED vars
           \/ \E x, u \in Task : AddDependency(x, u)
           \/ \E x \in Task : AddTask(x)
  <2>1. UNCHANGED <<taskState, task, pc>>
    BY <1>3 DEF AddDependency, AddTask, workerVars, vars
  <2> QED
    BY <1>1, <2>1 DEF RunningIsHeld
<1>4. ASSUME NEW w \in Worker, NEW d \in Task, Notify(w, d)
      PROVE  \E v \in Worker : Held(t, v)' /\ pc'[v] = "exec"
  <2>1. /\ UNCHANGED <<taskState, task>> /\ pc[w] = "notify"
        /\ \E to \in {"notify", "resume"} : pc' = [pc EXCEPT ![w] = to]
    BY <1>4 DEF Notify, Goto
  <2> QED
    BY <1>1, <2>1 DEF RunningIsHeld
<1>5. ASSUME NEW w \in Worker, WorkerStep(w)
      PROVE  \E v \in Worker : Held(t, v)' /\ pc'[v] = "exec"
  <2>1. ASSUME taskState[t] = "running", pc[w] # "exec" \/ UNCHANGED pc,
               \A v \in Worker : v # w => pc'[v] = pc[v] /\ task'[v] = task[v],
               pc[w] = "exec" => UNCHANGED task
        PROVE  \E v \in Worker : Held(t, v)' /\ pc'[v] = "exec"
    BY <1>1, <2>1 DEF RunningIsHeld
  <2>2. CASE Quiet(w)
    <3>1. UNCHANGED <<taskState, task>>
      BY <2>2, QuietFrame
    <3>2. \/ pc[w] # "exec" /\ \A v \in Worker : v # w => pc'[v] = pc[v]
          \/ pc' = pc
      BY <2>2 DEF Quiet, EnterLoop, PollSatisfied, PollDone, CheckSuspension,
        CheckTermination, LeaveLoop, Sleep, WakeUp, Terminate, ResumeDependent,
        AddPendingOperation, SetWorkerAffinity, Goto
    <3> QED
      BY <2>1, <3>1, <3>2
  <2>3. CASE Pulling(w)
    <3>1. taskState' = taskState /\ pc[w] \in {"pullOwn", "pullCommon"}
      BY <2>3, PullingFrame
    <3>2. /\ \E to \in {"poll", "pullCommon", "noTask"} :
               pc' = [pc EXCEPT ![w] = to]
          /\ task' = task \/ \E x \in Task : task' = [task EXCEPT ![w] = x]
      BY <2>3, PullingFrame
    <3>3. \A v \in Worker : v # w => pc'[v] = pc[v] /\ task'[v] = task[v]
      BY <3>2
    <3> QED
      BY <2>1, <3>1, <3>3
  <2>4. CASE Dropping(w)
    <3>1. /\ taskState'[t] = taskState[t] \/ taskState'[t] = "drained"
          /\ pc[w] \in {"drainCommon", "drainOwn"} /\ task' = task
          /\ \A v \in Worker : v # w => pc'[v] = pc[v]
      BY <2>4, DroppingFrame
    <3> QED
      BY <2>1, <3>1
  <2>5. CASE Requeuing(w)
    <3>1. /\ taskState' = taskState /\ pc[w] \in {"poll", "yielded"}
          /\ \A v \in Worker : v # w => pc'[v] = pc[v] /\ task'[v] = task[v]
      BY <2>5, RequeuingFrame
    <3> QED
      BY <2>1, <3>1
  <2>6. CASE OnTaskFinish(w)
    <3>1. /\ taskState' = taskState /\ pc[w] = "notify"
          /\ \A v \in Worker : v # w => pc'[v] = pc[v] /\ task'[v] = task[v]
      BY <2>6, FinishingFrame
    <3> QED
      BY <2>1, <3>1
  <2>7. CASE Advancing(w)
    <3>1. PICK x \in Task :
            /\ Held(x, w) /\ task' = task
            /\ \/ /\ pc' = [pc EXCEPT ![w] = "exec"]
                  /\ taskState' = [taskState EXCEPT ![x] = "running"]
               \/ /\ pc' = [pc EXCEPT ![w] = "yielded"]
                  /\ taskState' = [taskState EXCEPT ![x] = "suspended"]
               \/ /\ pc' = [pc EXCEPT ![w] = "notify"]
                  /\ taskState' = [taskState EXCEPT ![x] = "finished"]
      BY <2>7, AdvancingStates
    <3>2. CASE t = x
      BY <3>1, <3>2 DEF Held
    <3>3. CASE t # x
      <4>1. taskState[t] = "running"
        BY <3>1, <3>3
      <4>2. PICK v \in Worker : Held(t, v) /\ pc[v] = "exec"
        BY <4>1 DEF RunningIsHeld
      <4>3. v # w
        BY <3>1, <3>3, <4>2 DEF Held
      <4> QED
        BY <3>1, <4>2, <4>3 DEF Held
    <3> QED
      BY <3>2, <3>3
  <2> QED
    BY <1>5, <2>2, <2>3, <2>4, <2>5, <2>6, <2>7, WorkerCases
<1> QED
  BY <1>2, <1>3, <1>4, <1>5, NextCases

-----------------------------------------------------------------------------
(* The steps.                                                              *)

\* What the scheduler does besides moving tasks along is invisible.
LEMMA GraphStutters ==
  ASSUME UNCHANGED <<added, outputDependencies, taskState>>,
         (state = "running") <=> (state' = "running")
  PROVE  UNCHANGED Graph!vars
<1>1. (state = "running")' = (state = "running")
  OBVIOUS
<1> QED
  BY <1>1 DEF Graph!vars

\* run() and await() begin and end the run of the graph.
LEMMA ControlRefines ==
  ASSUME RefinementInv, Control
  PROVE  Graph!Next \/ UNCHANGED Graph!vars
<1> USE DEF RefinementInv, Inv, PlaceInv
<1>1. UNCHANGED <<added, outputDependencies, taskState>>
  BY DEF Control, Initialize, Run, RunRejected, Await, Finalize,
         ForceTermination, SetFinishOnLastTask, graphVars
<1>2. CASE Run
  <2>1. state # "running" /\ state' = "running"
    BY <1>2 DEF Run
  <2>2. Graph!Run
    BY <1>1, <2>1 DEF Graph!Run
  <2> QED
    BY <2>2 DEF Graph!Next
<1>3. CASE Await
  <2>1. state = "running" /\ state' # "running" /\ \A w \in Worker : pc[w] = "stopped"
    BY <1>3 DEF Await
  <2>2. ActiveTask = {}
    BY <2>1, WorkerAssumption DEF WorkerFits, LeavesNoTaskBehind
  <2>3. \A t \in added : taskState[t] \in {"finished", "drained"}
    BY <2>2 DEF ActiveTask
  <2>4. \A t \in Task : taskState[t] # "running"
    BY <2>1 DEF RunningIsHeld
  <2>5. Graph!Await
    BY <1>1, <2>1, <2>3, <2>4 DEF Graph!Await
  <2> QED
    BY <2>5 DEF Graph!Next
<1>4. CASE ~Run /\ ~Await
  <2>1. (state = "running") <=> (state' = "running")
    BY <1>4 DEF Control, Initialize, RunRejected, Finalize, ForceTermination,
                SetFinishOnLastTask
  <2> QED
    BY <1>1, <2>1, GraphStutters
<1> QED
  BY <1>2, <1>3, <1>4

LEMMA AddDependencyRefines ==
  ASSUME OrderlyClient, RefinementInv, NEW t \in Task, NEW u \in Task,
         AddDependency(t, u)
  PROVE  Graph!Next
<1> USE DEF RefinementInv, Inv, PlaceInv, TypeInv
<1> DEFINE deps == [x \in Task |-> {y \in Task : x \in outputDependencies[y]}]
<1>1. /\ Fresh(t) /\ UNCHANGED <<state, added, taskState>>
      /\ outputDependencies' = [outputDependencies EXCEPT ![u] = @ \cup {t}]
  BY DEF AddDependency, OrderlyClient, runtimeVars
<1>2. taskState[t] = "ready"
  BY <1>1 DEF UntouchedBefore
<1>3. \A x, y \in Task :
        x \in outputDependencies'[y] <=>
          x \in outputDependencies[y] \/ (x = t /\ y = u)
  BY <1>1 DEF TypeOK
<1>4. deps' = [deps EXCEPT ![t] = @ \cup {u}]
  BY <1>3
<1>5. Graph!Depend(t, u)
  BY <1>1, <1>2, <1>4 DEF Graph!Depend
<1> QED
  BY <1>5 DEF Graph!Next

LEMMA AddTaskRefines ==
  ASSUME OrderlyClient, NEW t \in Task, AddTask(t)
  PROVE  Graph!Next
<1>1. /\ t \notin added /\ added' = added \cup {t}
      /\ UNCHANGED <<state, outputDependencies, taskState>>
  BY DEF AddTask, MayAdd, Fresh, OrderlyClient, runtimeVars
<1>2. Graph!Add(t)
  BY <1>1 DEF Graph!Add
<1> QED
  BY <1>2 DEF Graph!Next

\* A worker runs a task when all of its dependencies have reported to it, and
\* those that report have been added and have finished.
LEMMA StartRefines ==
  ASSUME RefinementInv, NEW t \in Task, NEW w \in Worker, Held(t, w),
         taskState[t] \in Resumable,
         taskState' = [taskState EXCEPT ![t] = "running"],
         UNCHANGED <<state, graphVars>>, state = "running"
  PROVE  Graph!Next
<1> USE DEF RefinementInv, Inv, PlaceInv, TypeInv, CountInv
<1>1. ~Fresh(t) /\ ~(dependencyCount[t] > 0)
  BY DEF UntouchedBefore, Located
<1>2. Open(t) = {}
  <2>1. dependencyCount[t] = 0
    BY <1>1 DEF TypeOK
  <2> QED
    BY <2>1, OpenIsFinite, FS_EmptySet DEF DependenciesCounted
<1>3. ASSUME NEW u \in Task, t \in outputDependencies[u]
      PROVE  u \in added /\ taskState[u] = "finished"
  BY <1>2, <1>3 DEF Open, ToNotify, NotifiersEnded
<1>4. t \in added \/ \E u \in Task : t \in outputDependencies[u]
  BY <1>1 DEF Fresh, ReportsToDependents
<1>5. Graph!Start(t)
  <2> DEFINE deps == [x \in Task |-> {y \in Task : x \in outputDependencies[y]}]
  <2>1. t \in added \/ deps[t] # {}
    BY <1>4
  <2>2. \A u \in deps[t] : u \in added /\ taskState[u] = "finished"
    BY <1>3
  <2>3. Graph!Become(t, {"ready", "suspended"}, "running")
    BY DEF Graph!Become, Resumable, graphVars
  <2> QED
    BY <2>1, <2>2, <2>3 DEF Graph!Start
<1> QED
  BY <1>5 DEF Graph!Next

LEMMA WorkerRefines ==
  ASSUME RefinementInv, NEW w \in Worker, WorkerStep(w)
  PROVE  Graph!Next \/ UNCHANGED Graph!vars
<1> USE DEF RefinementInv, Inv, PlaceInv, TypeInv
<1>1. UNCHANGED <<state, graphVars>> /\ UNCHANGED <<added, outputDependencies>>
  BY WorkerFrame DEF runtimeVars, graphVars
<1>2. CASE Quiet(w) \/ Pulling(w) \/ Requeuing(w) \/ OnTaskFinish(w)
  <2>1. taskState' = taskState
    BY <1>2, QuietFrame, PullingFrame, RequeuingFrame, FinishingFrame
  <2> QED
    BY <1>1, <2>1, GraphStutters
<1>3. CASE Advancing(w)
  <2>1. PICK t \in Task :
          /\ Held(t, w) /\ pc[w] \in {"run", "exec"}
          /\ \/ /\ taskState[t] \in Resumable
                /\ taskState' = [taskState EXCEPT ![t] = "running"]
             \/ /\ taskState[t] = "running"
                /\ taskState' = [taskState EXCEPT ![t] = "suspended"]
             \/ /\ taskState[t] = "running"
                /\ taskState' = [taskState EXCEPT ![t] = "finished"]
    BY <1>3, AdvancingFrame
  <2>2. state = "running"
    BY <2>1 DEF PointFits
  <2>3. CASE /\ taskState[t] \in Resumable
             /\ taskState' = [taskState EXCEPT ![t] = "running"]
    BY <1>1, <2>1, <2>2, <2>3, StartRefines
  <2>4. CASE /\ taskState[t] = "running"
             /\ taskState' = [taskState EXCEPT ![t] = "suspended"]
    <3>1. Graph!Yield(t)
      BY <1>1, <2>2, <2>4 DEF Graph!Yield, Graph!Become
    <3> QED
      BY <3>1 DEF Graph!Next
  <2>5. CASE /\ taskState[t] = "running"
             /\ taskState' = [taskState EXCEPT ![t] = "finished"]
    <3>1. Graph!Finish(t)
      BY <1>1, <2>2, <2>5 DEF Graph!Finish, Graph!Become
    <3> QED
      BY <3>1 DEF Graph!Next
  <2> QED
    BY <2>1, <2>3, <2>4, <2>5
<1>4. CASE Dropping(w)
  <2>1. CASE UNCHANGED taskState
    BY <1>1, <2>1, GraphStutters
  <2>2. ASSUME NEW q \in {w, Common}, NEW t \in Task, Queued(t, q),
               taskState' = [taskState EXCEPT ![t] = "drained"]
        PROVE  Graph!Next
    <3>1. state = "running" /\ Draining
      BY <1>4, DroppingFrame DEF PointFits, Draining
    <3>2. Allowed("force")
      BY <3>1 DEF CountInv, DroppedIsCounted
    <3>3. taskState[t] \in {"ready", "suspended"}
      BY <2>2 DEF StateFits, Queue, Resumable
    <3>4. Graph!Drop(t)
      BY <1>1, <2>2, <3>1, <3>2, <3>3 DEF Graph!Drop, Graph!Become
    <3> QED
      BY <3>4 DEF Graph!Next
  <2> QED
    BY <1>4, <2>1, <2>2, DroppingFrame
<1> QED
  BY <1>2, <1>3, <1>4, WorkerCases

LEMMA NextRefines ==
  ASSUME OrderlyClient, RefinementInv, [Next]_vars
  PROVE  [Graph!Next]_(Graph!vars)
<1>1. CASE \E w \in Worker, d \in Task : Notify(w, d)
  <2>1. UNCHANGED <<state, added, outputDependencies, taskState>>
    BY <1>1 DEF Notify, runtimeVars
  <2> QED
    BY <2>1, GraphStutters
<1>2. CASE UNCHANGED vars
  <2>1. UNCHANGED <<state, added, outputDependencies, taskState>>
    BY <1>2 DEF vars, runtimeVars, graphVars
  <2> QED
    BY <2>1, GraphStutters
<1> QED
  BY <1>1, <1>2, NextCases, ControlRefines, AddDependencyRefines,
     AddTaskRefines, WorkerRefines

LEMMA InitRefines == Init => Graph!Init
<1> SUFFICES ASSUME Init PROVE Graph!Init
  OBVIOUS
<1>1. (state = "running") = FALSE
  BY DEF Init
<1>2. [t \in Task |-> {u \in Task : t \in outputDependencies[u]}]
        = [t \in Task |-> {}]
  BY DEF Init
<1> QED
  BY <1>1, <1>2 DEF Init, Graph!Init

-----------------------------------------------------------------------------
(* The theorem.                                                            *)

\* Whatever the workers, queues and counters do, they keep the promise of the
\* task graph: each task runs after its dependencies, once between suspensions,
\* finishes once, and await() returns when all added tasks have finished, or
\* have been dropped by a forced termination.
THEOREM RuntimeImplementsTaskGraph ==
  OrderlyClient /\ ~Allowed("externalAdd") => (Spec => ImplementsTaskGraph)
<1> SUFFICES ASSUME OrderlyClient, ~Allowed("externalAdd")
             PROVE  Spec => ImplementsTaskGraph
  OBVIOUS
<1>1. Init => RunningIsHeld
  BY DEF Init, RunningIsHeld
<1>2. Inv /\ RunningIsHeld /\ [Next]_vars => RunningIsHeld'
  BY RunningStep
<1>3. RestInv => WorkerFits
  BY DEF RestInv
<1>4. Spec => []RefinementInv
  BY <1>1, <1>2, <1>3, Counting, Resting, LeavesNoTaskBehindHolds, PTL
  DEF RefinementInv, Spec
<1>5. RefinementInv /\ [Next]_vars => [Graph!Next]_(Graph!vars)
  BY NextRefines
<1> QED
  BY <1>4, <1>5, InitRefines, PTL DEF ImplementsTaskGraph, Graph!Spec, Spec

=============================================================================
