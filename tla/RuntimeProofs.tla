--------------------------- MODULE RuntimeProofs ---------------------------
(***************************************************************************)
(* Proofs about Runtime, for any sets of tasks and workers and any bounds: *)
(* of its types and counts; that the scheduler holds each task in one      *)
(* place; and that it runs only tasks that can be run.                     *)
(*                                                                         *)
(* The latter two are about applications that build the graph of a task    *)
(* before they add it; the runs runtime_lateAdd and runtime_children show  *)
(* that of the others neither is true.                                     *)
(***************************************************************************)
EXTENDS Runtime, FiniteSetTheorems, TLAPS

\* What the main thread does apart from building the graph.
Control ==
  \/ Initialize \/ Run \/ RunRejected \/ Await \/ Finalize \/ ForceTermination
  \/ \E value \in BOOLEAN : SetFinishOnLastTask(value)

\* The steps of a worker and its task, without the one that reaches into the
\* dependency graph.
WorkerStep(w) ==
  \/ EnterLoop(w) \/ DrainCommon(w) \/ DrainOwn(w) \/ PullOwn(w)
  \/ PullCommon(w) \/ PollSatisfied(w) \/ PollUnsatisfied(w) \/ PollDone(w)
  \/ CheckSuspension(w) \/ CheckTermination(w) \/ LeaveLoop(w) \/ Sleep(w)
  \/ WakeUp(w) \/ Terminate(w) \/ RunTask(w) \/ OnTaskSuspend(w)
  \/ ResumeDependent(w) \/ OnTaskFinish(w) \/ Body(w)

\* The dependencies of a task that have not reported to it yet.
Open(t) == {u \in Task : t \in ToNotify(u)}

\* _dependencyCount against the _outputDependencies of the other tasks.
DependenciesCounted ==
  \A t \in Task : dependencyCount[t] = Cardinality(Open(t))

\* A task reports only to those that depend on it.
ReportsToDependents ==
  \A u \in Task : notified[u] \subseteq outputDependencies[u]

TypeInv == TypeOK /\ DependenciesCounted /\ ReportsToDependents

-----------------------------------------------------------------------------
(* Types, and the dependency counts on which they depend: a count that is  *)
(* decreased was positive.                                                 *)

LEMMA NextCases ==
  ASSUME [Next]_vars
  PROVE  \/ Control
         \/ \E t, u \in Task : AddDependency(t, u)
         \/ \E t \in Task : AddTask(t)
         \/ \E w \in Worker : WorkerStep(w)
         \/ \E w \in Worker, d \in Task : Notify(w, d)
         \/ UNCHANGED vars
  BY DEF Next, Client, Scheduler, Control, WorkerStep

LEMMA OpenIsFinite ==
  ASSUME NEW t \in Task
  PROVE  IsFiniteSet(Open(t)) /\ Cardinality(Open(t)) \in Nat
<1>1. IsFiniteSet(Open(t))
  BY TaskAssumption, FS_Subset DEF Open
<1> QED
  BY <1>1, FS_CardinalityType

LEMMA InitType == Init => TypeInv
<1> SUFFICES ASSUME Init PROVE TypeInv
  OBVIOUS
<1>1. TypeOK
  <2>1. readyQueue \in [Queue -> Seq(Task)]
    BY DEF Init
  <2>2. pendingOperations \in [Task -> Seq(Operation)]
    BY DEF Init
  <2>3. /\ taskState \in [Task -> TaskStates]
        /\ workerState \in [Worker -> WorkerStates]
        /\ pc \in [Worker -> Points]
    BY DEF Init, TaskStates, WorkerStates, Points
  <2>4. \A w \in Worker : pc[w] \notin Pulled /\ pc[w] # "resume"
    BY DEF Init, Pulled
  <2>5. /\ dependencyCount \in [Task -> Nat] /\ yields \in [Task -> Nat]
        /\ outputDependencies \in [Task -> SUBSET Task]
        /\ notified \in [Task -> SUBSET Task]
        /\ task \in [Worker -> Task \cup {NoTask}]
        /\ dependent \in [Worker -> Task \cup {NoTask}]
    BY DEF Init
  <2>6. /\ state \in {"uninitialized", "initialized", "running"}
        /\ activeTaskCount \in Int /\ activeTaskWorkerCount \in Int
        /\ added \in SUBSET Task /\ affinity \in [Task -> Affinities]
    BY DEF Init
  <2>7. forceTerminate \in BOOLEAN /\ finishOnLastTask \in BOOLEAN
    BY Zenon DEF Init
  <2> QED
    BY <2>1, <2>2, <2>3, <2>4, <2>5, <2>6, <2>7 DEF TypeOK
<1>2. ASSUME NEW t \in Task PROVE dependencyCount[t] = Cardinality(Open(t))
  <2>1. Open(t) = {}
    BY DEF Open, ToNotify, Init
  <2>2. dependencyCount[t] = 0
    BY DEF Init
  <2> QED
    BY <2>1, <2>2, FS_EmptySet
<1> QED
  BY <1>1, <1>2 DEF TypeInv, DependenciesCounted, ReportsToDependents, Init

\* A push appends the task to the queue of its affinity.
LEMMA PushType ==
  ASSUME TypeOK, NEW t \in Task, ResumeTask(t)
  PROVE  /\ readyQueue' \in [Queue -> Seq(Task)]
         /\ workerState' \in [Worker -> WorkerStates]
<1>1. CASE Push(t)
  <2>1. affinity[t] \in Queue
    BY ConfigAssumption DEF TypeOK, Queue
  <2>2. Append(readyQueue[affinity[t]], t) \in Seq(Task)
    BY <2>1 DEF TypeOK
  <2>3. readyQueue' \in [Queue -> Seq(Task)]
    BY <1>1, <2>1, <2>2 DEF Push, QueueOf, TypeOK
  <2>4. workerState' \in [Worker -> WorkerStates]
    BY <1>1 DEF Push, TypeOK, WorkerStates
  <2> QED
    BY <2>3, <2>4
<1>2. CASE UNCHANGED <<readyQueue, workerState>>
  BY <1>2 DEF TypeOK
<1> QED
  BY <1>1, <1>2 DEF ResumeTask

\* A pop leaves the tail of the queue, and its head is a task.
LEMMA PopType ==
  ASSUME TypeOK, NEW q \in Queue, readyQueue[q] # <<>>
  PROVE  /\ Head(readyQueue[q]) \in Task
         /\ [readyQueue EXCEPT ![q] = Tail(@)] \in [Queue -> Seq(Task)]
<1>1. readyQueue[q] \in Seq(Task)
  BY DEF TypeOK
<1>2. Head(readyQueue[q]) \in Task /\ Tail(readyQueue[q]) \in Seq(Task)
  BY <1>1
<1> QED
  BY <1>2 DEF TypeOK

LEMMA ControlType ==
  ASSUME TypeOK, Control
  PROVE  TypeOK'
<1> USE DEF TypeOK, runtimeVars, graphVars, bodyVars, workerVars
<1>1. CASE Initialize
  BY <1>1 DEF Initialize
<1>2. CASE Run
  BY <1>2 DEF Run, WorkerStates, Points, Pulled, InLoop
<1>3. CASE RunRejected
  BY <1>3 DEF RunRejected
<1>4. CASE Await
  BY <1>4 DEF Await
<1>5. CASE Finalize
  BY <1>5 DEF Finalize
<1>6. CASE ForceTermination
  BY <1>6 DEF ForceTermination
<1>7. CASE \E value \in BOOLEAN : SetFinishOnLastTask(value)
  BY <1>7 DEF SetFinishOnLastTask
<1> QED
  BY <1>1, <1>2, <1>3, <1>4, <1>5, <1>6, <1>7 DEF Control

LEMMA AddDependencyType ==
  ASSUME TypeOK, NEW t \in Task, NEW u \in Task, AddDependency(t, u)
  PROVE  TypeOK'
  BY DEF AddDependency, TypeOK, runtimeVars, graphVars, bodyVars, workerVars

LEMMA AddTaskType ==
  ASSUME TypeOK, NEW t \in Task, AddTask(t)
  PROVE  TypeOK'
  BY PushType DEF AddTask, TypeOK, runtimeVars, graphVars, bodyVars, workerVars

LEMMA WorkerStepType ==
  ASSUME TypeOK, NEW w \in Worker, WorkerStep(w)
  PROVE  TypeOK'
<1> USE DEF Goto, TypeOK, runtimeVars, graphVars, bodyVars, Points, Pulled, InLoop
<1>1. CASE EnterLoop(w)
  BY <1>1 DEF EnterLoop
<1>2. ASSUME NEW q \in Queue, NEW from \in Points, NEW to \in InLoop,
             Drain(w, q, from, to), from \notin Pulled, to # "poll"
      PROVE  TypeOK'
  <2>1. CASE readyQueue[q] = <<>>
    BY <1>2, <2>1 DEF Drain
  <2>2. CASE readyQueue[q] # <<>>
    <3>1. /\ readyQueue' = [readyQueue EXCEPT ![q] = Tail(@)]
          /\ taskState' = [taskState EXCEPT ![Head(readyQueue[q])] = "drained"]
          /\ activeTaskCount' = activeTaskCount - 1
          /\ pc' = [pc EXCEPT ![w] = from]
          /\ UNCHANGED <<runtimeVars, activeTaskWorkerCount, graphVars,
                         bodyVars, workerState, task, dependent>>
      BY <1>2, <2>2 DEF Drain, Drop
    <3>2. readyQueue' \in [Queue -> Seq(Task)]
      BY <2>2, <3>1, PopType
    <3>3. taskState' \in [Task -> TaskStates]
      BY <3>1 DEF TaskStates
    <3> QED
      BY <1>2, <3>1, <3>2, <3>3
  <2> QED
    BY <2>1, <2>2
<1>3. CASE DrainCommon(w) \/ DrainOwn(w)
  BY <1>2, <1>3 DEF DrainCommon, DrainOwn, Queue
<1>4. ASSUME NEW q \in Queue, NEW from \in Points, NEW otherwise \in InLoop,
             Pull(w, q, from, otherwise), otherwise # "poll"
      PROVE  TypeOK'
  <2>1. CASE readyQueue[q] = <<>>
    BY <1>4, <2>1 DEF Pull
  <2>2. CASE readyQueue[q] # <<>>
    <3>1. /\ readyQueue' = [readyQueue EXCEPT ![q] = Tail(@)]
          /\ task' = [task EXCEPT ![w] = Head(readyQueue[q])]
          /\ pc' = [pc EXCEPT ![w] = "poll"]
          /\ UNCHANGED <<runtimeVars, activeTaskCount, activeTaskWorkerCount,
                         taskState, graphVars, bodyVars, workerState, dependent>>
      BY <1>4, <2>2 DEF Pull
    <3>2. readyQueue' \in [Queue -> Seq(Task)] /\ Head(readyQueue[q]) \in Task
      BY <2>2, <3>1, PopType
    <3> QED
      BY <1>4, <3>1, <3>2
  <2> QED
    BY <2>1, <2>2
<1>5. CASE PullOwn(w) \/ PullCommon(w)
  BY <1>4, <1>5 DEF PullOwn, PullCommon, Queue
<1>6. CASE PollSatisfied(w)
  BY <1>6 DEF PollSatisfied
<1>7. CASE PollUnsatisfied(w)
  BY <1>7, PushType DEF PollUnsatisfied
<1>8. CASE PollDone(w)
  BY <1>8 DEF PollDone
<1>9. CASE CheckSuspension(w)
  BY <1>9 DEF CheckSuspension, WorkerStates
<1>10. CASE CheckTermination(w)
  BY <1>10 DEF CheckTermination, WorkerStates
<1>11. CASE LeaveLoop(w)
  BY <1>11 DEF LeaveLoop
<1>12. CASE Sleep(w) \/ WakeUp(w) \/ Terminate(w)
  <2>1. CASE Sleep(w)
    BY <2>1 DEF Sleep, WorkerStates
  <2>2. CASE WakeUp(w)
    BY <2>2 DEF WakeUp, WorkerStates
  <2>3. CASE Terminate(w)
    BY <2>3 DEF Terminate, WorkerStates
  <2> QED
    BY <1>12, <2>1, <2>2, <2>3
<1>13. CASE RunTask(w)
  BY <1>13 DEF RunTask, TaskStates
<1>14. CASE OnTaskSuspend(w)
  BY <1>14, PushType DEF OnTaskSuspend
<1>15. CASE ResumeDependent(w)
  BY <1>15, PushType DEF ResumeDependent
<1>16. CASE OnTaskFinish(w)
  BY <1>16 DEF OnTaskFinish
<1>17. ASSUME NEW op \in Operation, AddPendingOperation(w, op) PROVE TypeOK'
  BY <1>17 DEF AddPendingOperation
<1>18. ASSUME NEW a \in Affinities, SetWorkerAffinity(w, a) PROVE TypeOK'
  BY <1>18 DEF SetWorkerAffinity
<1>19. CASE Suspend(w)
  BY <1>19 DEF Suspend, TaskStates
<1>20. CASE Finish(w)
  BY <1>20 DEF Finish, TaskStates
<1> QED
  BY <1>1, <1>3, <1>5, <1>6, <1>7, <1>8, <1>9, <1>10, <1>11, <1>12, <1>13,
     <1>14, <1>15, <1>16, <1>17, <1>18, <1>19, <1>20 DEF WorkerStep, Body

LEMMA NotifyType ==
  ASSUME TypeInv, NEW w \in Worker, NEW d \in Task, Notify(w, d)
  PROVE  TypeOK'
<1>1. task[w] \in Task /\ d \in ToNotify(task[w])
  BY DEF Notify, Goto, TypeInv, TypeOK, Pulled
<1>2. dependencyCount[d] \in Nat \ {0}
  <2>1. Open(d) # {}
    BY <1>1 DEF Open
  <2> QED
    BY <2>1, OpenIsFinite, FS_EmptySet DEF TypeInv, DependenciesCounted
<1> QED
  BY <1>1, <1>2
  DEF Notify, Goto, LastDependency, TypeInv, TypeOK, Points, Pulled, InLoop,
      runtimeVars, bodyVars

\* The counts change together with the sets that they count.
LEMMA CountsUnchanged ==
  ASSUME DependenciesCounted,
         UNCHANGED <<dependencyCount, outputDependencies, notified>>
  PROVE  DependenciesCounted'
  BY DEF DependenciesCounted, Open, ToNotify

LEMMA AddDependencyCounts ==
  ASSUME TypeInv, NEW t \in Task, NEW u \in Task, AddDependency(t, u)
  PROVE  DependenciesCounted'
<1> SUFFICES ASSUME NEW d \in Task
             PROVE  dependencyCount'[d] = Cardinality(Open(d)')
  BY DEF DependenciesCounted
<1>1. /\ t \notin outputDependencies[u] /\ notified' = notified
      /\ dependencyCount' = [dependencyCount EXCEPT ![t] = @ + 1]
      /\ outputDependencies' = [outputDependencies EXCEPT ![u] = @ \cup {t}]
  BY DEF AddDependency, graphVars
<1>2. CASE d = t
  <2>1. Open(d)' = Open(d) \cup {u} /\ u \notin Open(d)
    BY <1>1, <1>2
    DEF Open, ToNotify, TypeInv, TypeOK, ReportsToDependents
  <2>2. Cardinality(Open(d)') = Cardinality(Open(d)) + 1
    BY <2>1, OpenIsFinite, FS_AddElement
  <2> QED
    BY <1>1, <1>2, <2>2 DEF TypeInv, TypeOK, DependenciesCounted
<1>3. CASE d # t
  <2>1. Open(d)' = Open(d)
    BY <1>1, <1>3 DEF Open, ToNotify, TypeInv, TypeOK
  <2> QED
    BY <1>1, <1>3, <2>1 DEF TypeInv, TypeOK, DependenciesCounted
<1> QED
  BY <1>2, <1>3

LEMMA NotifyCounts ==
  ASSUME TypeInv, NEW w \in Worker, NEW d \in Task, Notify(w, d)
  PROVE  DependenciesCounted'
<1> SUFFICES ASSUME NEW e \in Task
             PROVE  dependencyCount'[e] = Cardinality(Open(e)')
  BY DEF DependenciesCounted
<1> DEFINE t == task[w]
<1>1. /\ t \in Task /\ d \in ToNotify(t)
      /\ outputDependencies' = outputDependencies
      /\ dependencyCount' = [dependencyCount EXCEPT ![d] = @ - 1]
      /\ notified' = [notified EXCEPT ![t] = @ \cup {d}]
  BY DEF Notify, Goto, TypeInv, TypeOK, Pulled
<1>2. CASE e = d
  <2>1. Open(e)' = Open(e) \ {t} /\ t \in Open(e)
    BY <1>1, <1>2 DEF Open, ToNotify, TypeInv, TypeOK
  <2>2. Cardinality(Open(e)') = Cardinality(Open(e)) - 1
    BY <2>1, OpenIsFinite, FS_RemoveElement
  <2> QED
    BY <1>1, <1>2, <2>2 DEF TypeInv, TypeOK, DependenciesCounted
<1>3. CASE e # d
  <2>1. Open(e)' = Open(e)
    BY <1>1, <1>3 DEF Open, ToNotify, TypeInv, TypeOK
  <2> QED
    BY <1>1, <1>3, <2>1 DEF TypeInv, TypeOK, DependenciesCounted
<1> QED
  BY <1>2, <1>3

LEMMA NextType ==
  ASSUME TypeInv, [Next]_vars
  PROVE  TypeInv'
<1>1. CASE Control
  <2>1. UNCHANGED <<dependencyCount, outputDependencies, notified>>
    BY <1>1 DEF Control, Initialize, Run, RunRejected, Await, Finalize,
                ForceTermination, SetFinishOnLastTask, graphVars
  <2> QED
    BY <1>1, <2>1, ControlType, CountsUnchanged DEF TypeInv, ReportsToDependents
<1>2. ASSUME NEW t \in Task, NEW u \in Task, AddDependency(t, u) PROVE TypeInv'
  <2>1. TypeOK' /\ DependenciesCounted'
    BY <1>2, AddDependencyType, AddDependencyCounts DEF TypeInv
  <2>2. ReportsToDependents'
    BY <1>2 DEF TypeInv, ReportsToDependents, AddDependency, TypeOK
  <2> QED
    BY <2>1, <2>2 DEF TypeInv
<1>3. ASSUME NEW t \in Task, AddTask(t) PROVE TypeInv'
  BY <1>3, AddTaskType, CountsUnchanged
  DEF TypeInv, ReportsToDependents, AddTask
<1>4. ASSUME NEW w \in Worker, WorkerStep(w) PROVE TypeInv'
  <2>1. UNCHANGED <<dependencyCount, outputDependencies, notified>>
    BY <1>4
    DEF WorkerStep, Body, EnterLoop, DrainCommon, DrainOwn, Drain, PullOwn,
        PullCommon, Pull, PollSatisfied, PollUnsatisfied, PollDone,
        CheckSuspension, CheckTermination, LeaveLoop, Sleep, WakeUp, Terminate,
        RunTask, OnTaskSuspend, ResumeDependent, OnTaskFinish,
        AddPendingOperation, SetWorkerAffinity, Suspend, Finish, graphVars
  <2> QED
    BY <1>4, <2>1, WorkerStepType, CountsUnchanged
    DEF TypeInv, ReportsToDependents
<1>5. ASSUME NEW w \in Worker, NEW d \in Task, Notify(w, d) PROVE TypeInv'
  <2>1. ReportsToDependents'
    BY <1>5 DEF Notify, ToNotify, TypeInv, TypeOK, ReportsToDependents
  <2> QED
    BY <1>5, <2>1, NotifyType, NotifyCounts DEF TypeInv
<1>6. CASE UNCHANGED vars
  BY <1>6
  DEF vars, runtimeVars, graphVars, bodyVars, workerVars, TypeInv, TypeOK,
      DependenciesCounted, Open, ToNotify, ReportsToDependents
<1> QED
  BY <1>1, <1>2, <1>3, <1>4, <1>5, <1>6, NextCases

\* The dependency counts agree with the graph in every reachable state.
THEOREM TypesAndCounts == Spec => []TypeInv
<1>1. TypeInv /\ [Next]_vars => TypeInv'
  BY NextType
<1> QED
  BY <1>1, InitType, PTL DEF Spec

\* Every variable keeps its type; in particular no dependency count goes below
\* zero, where the code's unsigned one would wrap.
THEOREM TypeCorrect == Spec => []TypeOK
<1>1. TypeInv => TypeOK
  BY DEF TypeInv
<1> QED
  BY <1>1, TypesAndCounts, PTL

-----------------------------------------------------------------------------
(* Where the tasks are.                                                    *)

OrderlyClient == ~Allowed("anyOrder") /\ ~Allowed("awaitChildren")

Resumable == {"ready", "suspended"}

\* The points at which a worker has a task.
Holding == Pulled \cup {"leave"}

\* The parts of OnePlace: within and between queues, between workers, and
\* between the ones and the others.
QueuesApart ==
  /\ \A q \in Queue : \A i, j \in DOMAIN readyQueue[q] :
       i # j => readyQueue[q][i] # readyQueue[q][j]
  /\ \A t \in Task : \A p, q \in Queue :
       Queued(t, p) /\ Queued(t, q) => p = q

WorkersApart ==
  \A t \in Task : \A v, w \in Worker :
    /\ Held(t, v) /\ Held(t, w) => v = w
    /\ Resuming(t, v) /\ Resuming(t, w) => v = w
    /\ ~(Held(t, v) /\ Resuming(t, w))

QueuedOrHeld ==
  \A t \in Task : \A q \in Queue : \A w \in Worker :
    Queued(t, q) => ~Held(t, w) /\ ~Resuming(t, w)

\* A task that is not added or has open dependencies has not been touched:
\* this is why each push of resumeTask is the only one.
UntouchedBefore ==
  \A t \in Task : Fresh(t) \/ dependencyCount[t] > 0 =>
    ~Located(t) /\ taskState[t] = "ready"

\* The state of a task fits the place that it is in.
StateFits ==
  /\ \A t \in Task : \A q \in Queue : Queued(t, q) => taskState[t] \in Resumable
  /\ \A t \in Task : \A w \in Worker :
       /\ Resuming(t, w) => taskState[t] = "ready"
       /\ Held(t, w) =>
            /\ pc[w] \in {"poll", "leave", "run"} => taskState[t] \in Resumable
            /\ pc[w] = "exec" => taskState[t] = "running"
            /\ pc[w] = "yielded" => taskState[t] = "suspended"
            /\ pc[w] \in {"notify", "resume"} => taskState[t] = "finished"

\* Workers have a task or a dependent only where their loop says so, and are
\* stopped while TaskR does not run.
PointFits ==
  \A w \in Worker :
    /\ task[w] # NoTask => pc[w] \in Holding
    /\ dependent[w] # NoTask => pc[w] = "resume"
    /\ state # "running" => pc[w] = "stopped"

PlaceInv == /\ WorkersApart /\ QueuedOrHeld /\ UntouchedBefore
            /\ StateFits /\ PointFits

Inv == TypeInv /\ QueuesApart /\ PlaceInv

-----------------------------------------------------------------------------
(* What the operations on queues do to the places of tasks.                *)

LEMMA QueuesSame ==
  ASSUME TypeOK, QueuesApart, UNCHANGED readyQueue
  PROVE  /\ QueuesApart'
         /\ \A u \in Task, q \in Queue : Queued(u, q)' <=> Queued(u, q)
  BY DEF QueuesApart, Queued

LEMMA QueuesPush ==
  ASSUME TypeOK, QueuesApart, NEW t \in Task, Push(t),
         \A q \in Queue : ~Queued(t, q)
  PROVE  /\ QueuesApart'
         /\ \A u \in Task, q \in Queue :
              Queued(u, q)' <=> Queued(u, q) \/ (u = t /\ q = affinity[t])
<1>1. PICK a \in Queue : a = affinity[t]
  BY ConfigAssumption DEF TypeOK, Queue
<1>2. /\ readyQueue[a] \in Seq(Task)
      /\ readyQueue' = [readyQueue EXCEPT ![a] = Append(@, t)]
  BY <1>1 DEF Push, QueueOf, TypeOK
<1>3. /\ DOMAIN readyQueue'[a] = 1..(Len(readyQueue[a]) + 1)
      /\ DOMAIN readyQueue[a] = 1..Len(readyQueue[a])
      /\ Len(readyQueue[a]) \in Nat
      /\ readyQueue'[a][Len(readyQueue[a]) + 1] = t
      /\ \A i \in 1..Len(readyQueue[a]) : readyQueue'[a][i] = readyQueue[a][i]
  BY <1>1, <1>2 DEF TypeOK
<1>4. \A q \in Queue : q # a => readyQueue'[q] = readyQueue[q]
  BY <1>2 DEF TypeOK
<1>5. ASSUME NEW u \in Task, NEW q \in Queue
      PROVE  Queued(u, q)' <=> Queued(u, q) \/ (u = t /\ q = a)
  <2>1. CASE q # a
    BY <1>4, <2>1 DEF Queued
  <2>2. CASE q = a
    <3>1. ASSUME Queued(u, a)' PROVE Queued(u, a) \/ u = t
      <4>1. PICK i \in 1..(Len(readyQueue[a]) + 1) : readyQueue'[a][i] = u
        BY <1>3, <3>1 DEF Queued
      <4> QED
        BY <1>3, <4>1 DEF Queued
    <3>2. ASSUME Queued(u, a) PROVE Queued(u, a)'
      <4>1. PICK i \in 1..Len(readyQueue[a]) : readyQueue[a][i] = u
        BY <1>3, <3>2 DEF Queued
      <4>2. i \in 1..(Len(readyQueue[a]) + 1) /\ readyQueue'[a][i] = u
        BY <1>3, <4>1
      <4> QED
        BY <1>3, <4>2 DEF Queued
    <3>3. Queued(t, a)'
      <4>1. Len(readyQueue[a]) + 1 \in 1..(Len(readyQueue[a]) + 1)
        BY <1>3
      <4> QED
        BY <1>3, <4>1 DEF Queued
    <3> QED
      BY <2>2, <3>1, <3>2, <3>3
  <2> QED
    BY <2>1, <2>2
<1>6. ASSUME NEW q \in Queue, NEW i \in DOMAIN readyQueue'[q],
             NEW j \in DOMAIN readyQueue'[q], i # j
      PROVE  readyQueue'[q][i] # readyQueue'[q][j]
  <2>1. CASE q # a
    BY <1>4, <1>6, <2>1 DEF QueuesApart
  <2>2. CASE q = a
    <3>1. \A k \in 1..Len(readyQueue[a]) : readyQueue[a][k] # t
      BY <1>1, <1>3 DEF Queued
    <3>2. \A k, l \in 1..Len(readyQueue[a]) :
            k # l => readyQueue[a][k] # readyQueue[a][l]
      BY <1>1, <1>3 DEF QueuesApart
    <3>3. /\ i \in 1..Len(readyQueue[a]) \/ i = Len(readyQueue[a]) + 1
          /\ j \in 1..Len(readyQueue[a]) \/ j = Len(readyQueue[a]) + 1
      BY <1>3, <2>2
    <3> QED
      BY <1>3, <1>6, <2>2, <3>1, <3>2, <3>3
  <2> QED
    BY <2>1, <2>2
<1>7. \A u \in Task : \A p, q \in Queue :
        Queued(u, p)' /\ Queued(u, q)' => p = q
  BY <1>5 DEF QueuesApart
<1>8. QueuesApart'
  BY <1>6, <1>7 DEF QueuesApart
<1> QED
  BY <1>1, <1>5, <1>8

LEMMA QueuesPop ==
  ASSUME TypeOK, QueuesApart, NEW p \in Queue, readyQueue[p] # <<>>,
         readyQueue' = [readyQueue EXCEPT ![p] = Tail(@)]
  PROVE  /\ QueuesApart'
         /\ Head(readyQueue[p]) \in Task /\ Queued(Head(readyQueue[p]), p)
         /\ \A u \in Task, q \in Queue :
              Queued(u, q)' <=> Queued(u, q) /\ u # Head(readyQueue[p])
<1> DEFINE s == readyQueue[p]
           h == Head(s)
<1>1. /\ s \in Seq(Task) /\ readyQueue'[p] = Tail(s)
      /\ \A q \in Queue : q # p => readyQueue'[q] = readyQueue[q]
  BY DEF TypeOK
<1>2. /\ DOMAIN s = 1..Len(s) /\ Len(s) \in Nat /\ Len(s) >= 1 /\ h = s[1]
      /\ h \in Task
      /\ DOMAIN readyQueue'[p] = 1..(Len(s) - 1)
      /\ \A i \in 1..(Len(s) - 1) : readyQueue'[p][i] = s[i + 1]
  <2>1. s # <<>> /\ DOMAIN s = 1..Len(s) /\ Len(s) \in Nat
    BY <1>1
  <2>2. Len(s) >= 1 /\ h = s[1] /\ h \in Task
    BY <1>1, <2>1
  <2>3. /\ Tail(s) \in Seq(Task) /\ Len(Tail(s)) = Len(s) - 1
        /\ DOMAIN Tail(s) = 1..(Len(s) - 1)
        /\ \A i \in 1..(Len(s) - 1) : Tail(s)[i] = s[i + 1]
    BY <1>1, <2>1, <2>2
  <2> QED
    BY <1>1, <2>1, <2>2, <2>3
<1>3. Queued(h, p)
  BY <1>2 DEF Queued
<1>4. ASSUME NEW u \in Task, NEW q \in Queue
      PROVE  Queued(u, q)' <=> Queued(u, q) /\ u # h
  <2>1. CASE q # p
    BY <1>1, <1>2, <1>3, <2>1 DEF Queued, QueuesApart
  <2>2. CASE q = p
    <3>1. \A i \in 1..Len(s) : i # 1 => s[i] # h
      BY <1>2 DEF QueuesApart
    <3>2. ASSUME Queued(u, p)' PROVE Queued(u, p) /\ u # h
      <4>1. PICK i \in 1..(Len(s) - 1) : readyQueue'[p][i] = u
        BY <1>2, <3>2 DEF Queued
      <4>2. i + 1 \in 1..Len(s) /\ i + 1 # 1 /\ s[i + 1] = u
        BY <1>2, <4>1
      <4> QED
        BY <1>2, <3>1, <4>2 DEF Queued
    <3>3. ASSUME Queued(u, p), u # h PROVE Queued(u, p)'
      <4>1. PICK i \in 1..Len(s) : s[i] = u
        BY <1>2, <3>3 DEF Queued
      <4>2. i - 1 \in 1..(Len(s) - 1) /\ (i - 1) + 1 = i
        BY <1>2, <3>3, <4>1
      <4>3. readyQueue'[p][i - 1] = u
        BY <1>2, <4>1, <4>2
      <4> QED
        BY <1>2, <4>2, <4>3 DEF Queued
    <3> QED
      BY <2>2, <3>2, <3>3
  <2> QED
    BY <2>1, <2>2
<1>5. ASSUME NEW q \in Queue, NEW i \in DOMAIN readyQueue'[q],
             NEW j \in DOMAIN readyQueue'[q], i # j
      PROVE  readyQueue'[q][i] # readyQueue'[q][j]
  <2>1. CASE q # p
    BY <1>1, <1>5, <2>1 DEF QueuesApart
  <2>2. CASE q = p
    <3>1. i + 1 \in DOMAIN s /\ j + 1 \in DOMAIN s /\ i + 1 # j + 1
      BY <1>2, <1>5, <2>2
    <3>2. readyQueue'[q][i] = s[i + 1] /\ readyQueue'[q][j] = s[j + 1]
      BY <1>2, <2>2
    <3> QED
      BY <3>1, <3>2 DEF QueuesApart
  <2> QED
    BY <2>1, <2>2
<1>6. \A u \in Task : \A r, q \in Queue :
        Queued(u, r)' /\ Queued(u, q)' => r = q
  BY <1>4 DEF QueuesApart
<1> QED
  BY <1>2, <1>3, <1>4, <1>5, <1>6 DEF QueuesApart

-----------------------------------------------------------------------------
(* The invariant is kept by every step.                                    *)

LEMMA InitInv == Init => Inv
<1> SUFFICES ASSUME Init PROVE Inv
  OBVIOUS
<1>1. \A q \in Queue : readyQueue[q] = <<>> /\ DOMAIN readyQueue[q] = {}
  BY DEF Init
<1>2. \A t \in Task : \A q \in Queue : ~Queued(t, q)
  BY <1>1 DEF Queued
<1>3. \A t \in Task : \A w \in Worker : ~Held(t, w) /\ ~Resuming(t, w)
  BY NameAssumption DEF Init, Held, Resuming
<1>4. QueuesApart
  BY <1>1, <1>2 DEF QueuesApart
<1>5. WorkersApart /\ QueuedOrHeld
  BY <1>2, <1>3 DEF WorkersApart, QueuedOrHeld
<1>6. UntouchedBefore
  BY <1>2, <1>3 DEF UntouchedBefore, Located, Init
<1>7. StateFits
  BY <1>2, <1>3 DEF StateFits
<1>8. PointFits
  BY DEF PointFits, Init
<1> QED
  BY <1>4, <1>5, <1>6, <1>7, <1>8, InitType DEF Inv, PlaceInv

\* The main thread moves no task, except that it destroys the workers' queues.
LEMMA ControlInv ==
  ASSUME Inv, Control
  PROVE  QueuesApart' /\ PlaceInv'
<1> USE DEF Inv, PlaceInv, TypeInv
<1>1. UNCHANGED <<task, dependent, taskState, graphVars>>
  BY DEF Control, Initialize, Run, RunRejected, Await, Finalize,
         ForceTermination, SetFinishOnLastTask, workerVars
<1>2. /\ QueuesApart'
      /\ \A u \in Task, q \in Queue : Queued(u, q)' => Queued(u, q)
  <2>1. CASE UNCHANGED readyQueue
    BY <2>1, QueuesSame
  <2>2. CASE Finalize
    <3>1. \A q \in Queue :
            \/ readyQueue'[q] = readyQueue[q]
            \/ readyQueue'[q] = <<>> /\ DOMAIN readyQueue'[q] = {}
      BY <2>2 DEF Finalize
    <3> QED
      BY <3>1 DEF QueuesApart, Queued
  <2> QED
    BY <2>1, <2>2 DEF Control, Initialize, Run, RunRejected, Await,
                      ForceTermination, SetFinishOnLastTask
<1>3. PointFits' /\ \A w \in Worker : pc'[w] = pc[w] \/ task[w] = NoTask
  <2>1. CASE Run
    BY <2>1 DEF Run, PointFits, Holding, Pulled
  <2>2. CASE UNCHANGED pc /\ (state' # "running" => state # "running" \/ Await)
    BY <1>1, <2>2 DEF PointFits, Await
  <2> QED
    BY <2>1, <2>2 DEF Control, Initialize, RunRejected, Await, Finalize,
                      ForceTermination, SetFinishOnLastTask, workerVars,
                      runtimeVars
<1>4. WorkersApart' /\ QueuedOrHeld'
  BY <1>1, <1>2 DEF WorkersApart, QueuedOrHeld, Held, Resuming
<1>5. UntouchedBefore'
  BY <1>1, <1>2 DEF UntouchedBefore, Located, Held, Resuming, Fresh, graphVars
<1>6. StateFits'
  BY <1>1, <1>2, <1>3, NameAssumption DEF StateFits, Held, Resuming
<1> QED
  BY <1>2, <1>3, <1>4, <1>5, <1>6

\* A dependency is added only to a task that has not been touched.
LEMMA AddDependencyInv ==
  ASSUME OrderlyClient, Inv, NEW t \in Task, NEW u \in Task,
         AddDependency(t, u)
  PROVE  QueuesApart' /\ PlaceInv'
<1> USE DEF Inv, PlaceInv, TypeInv
<1>1. /\ Fresh(t)
      /\ UNCHANGED <<state, readyQueue, taskState, added, notified, pc, task,
                     dependent>>
      /\ dependencyCount' = [dependencyCount EXCEPT ![t] = @ + 1]
  BY DEF OrderlyClient, AddDependency, workerVars, runtimeVars
<1>2. /\ QueuesApart'
      /\ \A x \in Task, q \in Queue : Queued(x, q)' <=> Queued(x, q)
  BY <1>1, QueuesSame
<1>3. \A x \in Task : x # t => dependencyCount'[x] = dependencyCount[x]
  BY <1>1 DEF TypeOK
<1>4. \A x \in Task : (Fresh(x)' <=> Fresh(x)) /\ (Located(x)' <=> Located(x))
  BY <1>1, <1>2 DEF Fresh, Located, Held, Resuming
<1>5. UntouchedBefore'
  BY <1>1, <1>3, <1>4 DEF UntouchedBefore
<1>6. WorkersApart' /\ QueuedOrHeld'
  BY <1>1, <1>2 DEF WorkersApart, QueuedOrHeld, Held, Resuming
<1>7. StateFits' /\ PointFits'
  BY <1>1, <1>2 DEF StateFits, PointFits, Held, Resuming
<1> QED
  BY <1>2, <1>5, <1>6, <1>7

\* A task is added while it has not been touched, and is in a queue only then.
LEMMA AddTaskInv ==
  ASSUME OrderlyClient, Inv, NEW t \in Task, AddTask(t)
  PROVE  QueuesApart' /\ PlaceInv'
<1> USE DEF Inv, PlaceInv, TypeInv
<1>1. /\ Fresh(t) /\ ResumeTask(t)
      /\ UNCHANGED <<state, taskState, dependencyCount, notified, pc, task,
                     dependent>>
      /\ added' = added \cup {t}
  BY DEF OrderlyClient, AddTask, MayAdd, workerVars, runtimeVars
<1>2. taskState[t] = "ready" /\ ~Located(t)
  BY <1>1 DEF UntouchedBefore
<1>3. /\ QueuesApart'
      /\ \A x \in Task, q \in Queue :
           Queued(x, q)' => Queued(x, q) \/ (x = t /\ dependencyCount[t] = 0)
  <2>1. CASE Push(t) /\ dependencyCount[t] = 0
    BY <1>2, <2>1, QueuesPush DEF Located
  <2>2. CASE UNCHANGED readyQueue
    BY <2>2, QueuesSame
  <2> QED
    BY <1>1, <2>1, <2>2 DEF ResumeTask
<1>4. WorkersApart' /\ QueuedOrHeld'
  BY <1>1, <1>2, <1>3 DEF WorkersApart, QueuedOrHeld, Held, Resuming, Located
<1>5. UntouchedBefore'
  BY <1>1, <1>3 DEF UntouchedBefore, Fresh, Located, Held, Resuming
<1>6. StateFits' /\ PointFits'
  BY <1>1, <1>2, <1>3 DEF StateFits, PointFits, Held, Resuming, Resumable
<1> QED
  BY <1>3, <1>4, <1>5, <1>6

\* Steps of a worker that move no task.
LEMMA MoveInv ==
  ASSUME Inv, NEW w \in Worker, NEW to \in Points,
         pc' = [pc EXCEPT ![w] = to],
         UNCHANGED <<state, readyQueue, task, dependent, taskState, graphVars>>,
         pc[w] # "stopped",
         \/ to = pc[w]
         \/ {pc[w], to} \subseteq {"poll", "leave", "run"}
         \/ task[w] = NoTask /\ dependent[w] = NoTask
  PROVE  QueuesApart' /\ PlaceInv'
<1> USE DEF Inv, PlaceInv, TypeInv
<1>1. /\ QueuesApart'
      /\ \A u \in Task, q \in Queue : Queued(u, q)' <=> Queued(u, q)
  BY QueuesSame
<1>2. WorkersApart' /\ QueuedOrHeld'
  BY <1>1 DEF WorkersApart, QueuedOrHeld, Held, Resuming
<1>3. UntouchedBefore'
  BY <1>1 DEF UntouchedBefore, Located, Held, Resuming, Fresh, graphVars
<1>4. StateFits'
  BY <1>1, NameAssumption DEF StateFits, Held, Resuming, TypeOK
<1>5. PointFits'
  BY DEF PointFits, Holding, Pulled, TypeOK
<1> QED
  BY <1>1, <1>2, <1>3, <1>4, <1>5

\* The head of a queue leaves it: to the worker that pulls it, or to nowhere.
LEMMA PullInv ==
  ASSUME Inv, NEW w \in Worker, NEW q \in Queue, NEW from \in Points \ Holding,
         NEW otherwise \in Points, from # "stopped",
         Pull(w, q, from, otherwise)
  PROVE  QueuesApart' /\ PlaceInv'
<1> USE DEF Inv, PlaceInv, TypeInv
<1>1. pc[w] = from /\ task[w] = NoTask /\ dependent[w] = NoTask
  BY DEF Pull, Goto, PointFits, Holding, Pulled
<1>2. CASE readyQueue[q] = <<>>
  <2>1. /\ pc' = [pc EXCEPT ![w] = otherwise]
        /\ UNCHANGED <<state, readyQueue, task, dependent, taskState, graphVars>>
    BY <1>2 DEF Pull, Goto, runtimeVars
  <2> QED
    BY <1>1, <2>1, MoveInv
<1>3. CASE readyQueue[q] # <<>>
  <2> DEFINE h == Head(readyQueue[q])
  <2>1. /\ pc' = [pc EXCEPT ![w] = "poll"]
        /\ task' = [task EXCEPT ![w] = h]
        /\ readyQueue' = [readyQueue EXCEPT ![q] = Tail(@)]
        /\ UNCHANGED <<state, dependent, taskState, graphVars>>
    BY <1>3 DEF Pull, Goto, runtimeVars
  <2>2. PICK t \in Task : t = h /\ Queued(t, q)
    BY <1>3, <2>1, QueuesPop
  <2>3. /\ QueuesApart'
        /\ \A u \in Task, p \in Queue : Queued(u, p)' <=> Queued(u, p) /\ u # t
    BY <1>3, <2>1, <2>2, QueuesPop
  <2>4. /\ \A v \in Worker : ~Held(t, v) /\ ~Resuming(t, v)
        /\ taskState[t] \in Resumable /\ ~Fresh(t) /\ ~(dependencyCount[t] > 0)
    BY <2>2 DEF QueuedOrHeld, StateFits, UntouchedBefore, Located
  <2>5. \A u \in Task, v \in Worker :
          /\ Held(u, v)' <=> (IF v = w THEN u = t ELSE Held(u, v))
          /\ Resuming(u, v)' <=> Resuming(u, v)
    BY <2>1, <2>2 DEF Held, Resuming, TypeOK
  <2>6. WorkersApart' /\ QueuedOrHeld'
    BY <2>3, <2>4, <2>5 DEF WorkersApart, QueuedOrHeld
  <2>7. UntouchedBefore'
    BY <2>1, <2>3, <2>4, <2>5 DEF UntouchedBefore, Located, Fresh, graphVars
  <2>8. StateFits'
    BY <2>1, <2>3, <2>4, <2>5 DEF StateFits, TypeOK
  <2>9. PointFits'
    BY <1>1, <2>1 DEF PointFits, Holding, Pulled, TypeOK
  <2> QED
    BY <2>3, <2>6, <2>7, <2>8, <2>9
<1> QED
  BY <1>2, <1>3

LEMMA DrainInv ==
  ASSUME Inv, NEW w \in Worker, NEW q \in Queue, NEW from \in Points \ Holding,
         NEW to \in Points, from # "stopped",
         Drain(w, q, from, to)
  PROVE  QueuesApart' /\ PlaceInv'
<1> USE DEF Inv, PlaceInv, TypeInv
<1>1. pc[w] = from /\ task[w] = NoTask /\ dependent[w] = NoTask
  BY DEF Drain, Goto, PointFits, Holding, Pulled
<1>2. CASE readyQueue[q] = <<>>
  <2>1. /\ pc' = [pc EXCEPT ![w] = to]
        /\ UNCHANGED <<state, readyQueue, task, dependent, taskState, graphVars>>
    BY <1>2 DEF Drain, Goto, runtimeVars
  <2> QED
    BY <1>1, <2>1, MoveInv
<1>3. CASE readyQueue[q] # <<>>
  <2> DEFINE h == Head(readyQueue[q])
  <2>1. /\ pc' = [pc EXCEPT ![w] = from]
        /\ taskState' = [taskState EXCEPT ![h] = "drained"]
        /\ readyQueue' = [readyQueue EXCEPT ![q] = Tail(@)]
        /\ UNCHANGED <<state, task, dependent, graphVars>>
    BY <1>3 DEF Drain, Drop, Goto, runtimeVars
  <2>2. PICK t \in Task : t = h /\ Queued(t, q)
    BY <1>3, <2>1, QueuesPop
  <2>3. /\ QueuesApart'
        /\ \A u \in Task, p \in Queue : Queued(u, p)' <=> Queued(u, p) /\ u # t
    BY <1>3, <2>1, <2>2, QueuesPop
  <2>4. /\ \A v \in Worker : ~Held(t, v) /\ ~Resuming(t, v)
        /\ ~Fresh(t) /\ ~(dependencyCount[t] > 0)
    BY <2>2 DEF QueuedOrHeld, UntouchedBefore, Located
  <2>5. \A u \in Task, v \in Worker :
          (Held(u, v)' <=> Held(u, v)) /\ (Resuming(u, v)' <=> Resuming(u, v))
    BY <2>1 DEF Held, Resuming
  <2>6. \A u \in Task : u # t => taskState'[u] = taskState[u]
    BY <2>1, <2>2 DEF TypeOK
  <2>7. WorkersApart' /\ QueuedOrHeld'
    BY <2>3, <2>5 DEF WorkersApart, QueuedOrHeld
  <2>8. UntouchedBefore'
    BY <2>1, <2>3, <2>4, <2>5, <2>6
    DEF UntouchedBefore, Located, Fresh, graphVars
  <2>9. pc' = pc
    BY <1>1, <2>1 DEF TypeOK
  <2>10. StateFits'
    BY <2>3, <2>4, <2>5, <2>6, <2>9 DEF StateFits
  <2>11. PointFits'
    BY <2>1, <2>9 DEF PointFits
  <2> QED
    BY <2>3, <2>7, <2>8, <2>10, <2>11
<1> QED
  BY <1>2, <1>3

\* A failed poll and a suspension put the task of the worker back in a queue.
LEMMA RequeueInv ==
  ASSUME Inv, NEW w \in Worker, NEW to \in {"noTask", "mainLoop"},
         pc[w] \in {"poll", "yielded"},
         pc' = [pc EXCEPT ![w] = to],
         ResumeTask(task[w]) \/ UNCHANGED <<readyQueue, workerState>>,
         task' = [task EXCEPT ![w] = NoTask],
         UNCHANGED <<state, taskState, graphVars, dependent>>
  PROVE  QueuesApart' /\ PlaceInv'
<1> USE DEF Inv, PlaceInv, TypeInv
<1>1. PICK t \in Task : t = task[w]
  BY DEF TypeOK, Pulled
<1>2. /\ Held(t, w) /\ taskState[t] \in Resumable /\ ~Fresh(t)
      /\ ~(dependencyCount[t] > 0) /\ dependent[w] = NoTask
  BY <1>1 DEF Held, StateFits, UntouchedBefore, Located, PointFits, Resumable
<1>3. /\ \A q \in Queue : ~Queued(t, q)
      /\ \A v \in Worker : ~Resuming(t, v) /\ (Held(t, v) => v = w)
  BY <1>2 DEF QueuedOrHeld, WorkersApart
<1>4. /\ QueuesApart'
      /\ \A x \in Task, q \in Queue : Queued(x, q)' => Queued(x, q) \/ x = t
      /\ \A x \in Task, q \in Queue : Queued(x, q) => Queued(x, q)'
  <2>1. CASE Push(t)
    BY <1>3, <2>1, QueuesPush
  <2>2. CASE UNCHANGED readyQueue
    BY <2>2, QueuesSame
  <2> QED
    BY <1>1, <2>1, <2>2 DEF ResumeTask
<1>5. \A u \in Task, v \in Worker :
        /\ Held(u, v)' <=> Held(u, v) /\ v # w
        /\ Resuming(u, v)' <=> Resuming(u, v)
  BY NameAssumption DEF Held, Resuming, TypeOK
<1>6. WorkersApart' /\ QueuedOrHeld'
  BY <1>3, <1>4, <1>5 DEF WorkersApart, QueuedOrHeld
<1>7. UntouchedBefore'
  BY <1>2, <1>4, <1>5 DEF UntouchedBefore, Located, Fresh, graphVars
<1>8. StateFits'
  BY <1>2, <1>4, <1>5 DEF StateFits, TypeOK
<1>9. PointFits'
  BY <1>2 DEF PointFits, Holding, Pulled, TypeOK
<1> QED
  BY <1>4, <1>6, <1>7, <1>8, <1>9

\* The task that a worker has takes its next state.
LEMMA ExecuteInv ==
  ASSUME Inv, NEW w \in Worker, RunTask(w) \/ Suspend(w) \/ Finish(w)
  PROVE  QueuesApart' /\ PlaceInv'
<1> USE DEF Inv, PlaceInv, TypeInv
<1>1. PICK to \in {"exec", "yielded", "notify"},
           st \in {"running", "suspended", "finished"} :
        /\ <<to, st>> \in {<<"exec", "running">>, <<"yielded", "suspended">>,
                          <<"notify", "finished">>}
        /\ pc[w] \in {"run", "exec"} /\ pc' = [pc EXCEPT ![w] = to]
        /\ taskState' = [taskState EXCEPT ![task[w]] = st]
        /\ UNCHANGED <<state, readyQueue, graphVars, task, dependent>>
  BY DEF RunTask, Suspend, Finish, Goto, runtimeVars
<1>2. PICK t \in Task : t = task[w]
  BY <1>1 DEF TypeOK, Pulled
<1>3. /\ Held(t, w) /\ ~Fresh(t) /\ ~(dependencyCount[t] > 0)
      /\ dependent[w] = NoTask
  BY <1>1, <1>2 DEF Held, UntouchedBefore, Located, PointFits
<1>4. /\ \A q \in Queue : ~Queued(t, q)
      /\ \A v \in Worker : ~Resuming(t, v) /\ (Held(t, v) => v = w)
  BY <1>3 DEF QueuedOrHeld, WorkersApart
<1>5. /\ QueuesApart'
      /\ \A x \in Task, q \in Queue : Queued(x, q)' <=> Queued(x, q)
  BY <1>1, QueuesSame
<1>6. \A u \in Task, v \in Worker :
        (Held(u, v)' <=> Held(u, v)) /\ (Resuming(u, v)' <=> Resuming(u, v))
  BY <1>1 DEF Held, Resuming
<1>7. /\ taskState'[t] = st
      /\ \A u \in Task : u # t => taskState'[u] = taskState[u]
  BY <1>1, <1>2 DEF TypeOK
<1>8. WorkersApart' /\ QueuedOrHeld'
  BY <1>5, <1>6 DEF WorkersApart, QueuedOrHeld
<1>9. UntouchedBefore'
  BY <1>1, <1>3, <1>5, <1>6, <1>7
  DEF UntouchedBefore, Located, Fresh, graphVars
<1>10. StateFits'
  <2>1. ASSUME NEW u \in Task, NEW q \in Queue, Queued(u, q)'
        PROVE  taskState'[u] \in Resumable
    BY <1>4, <1>5, <1>7, <2>1 DEF StateFits
  <2>2. ASSUME NEW u \in Task, NEW v \in Worker, Resuming(u, v)'
        PROVE  taskState'[u] = "ready"
    BY <1>4, <1>6, <1>7, <2>2 DEF StateFits
  <2>3. ASSUME NEW u \in Task, NEW v \in Worker, Held(u, v)', v # w
        PROVE  /\ pc'[v] = pc[v] /\ Held(u, v) /\ taskState'[u] = taskState[u]
    BY <1>1, <1>4, <1>6, <1>7, <2>3 DEF TypeOK
  <2>4. ASSUME NEW u \in Task, Held(u, w)'
        PROVE  u = t /\ pc'[w] = to
    BY <1>1, <1>2, <1>6, <2>4 DEF Held, TypeOK
  <2> QED
    BY <1>1, <1>7, <2>1, <2>2, <2>3, <2>4 DEF StateFits
<1>11. PointFits'
  BY <1>1, <1>3 DEF PointFits, Holding, Pulled, TypeOK
<1> QED
  BY <1>5, <1>8, <1>9, <1>10, <1>11

\* Only the last of its dependencies brings a task to a worker's hands, and the
\* worker puts it into a queue.
LEMMA NotifyInv ==
  ASSUME Inv, NEW w \in Worker, NEW d \in Task, Notify(w, d)
  PROVE  QueuesApart' /\ PlaceInv'
<1> USE DEF Inv, PlaceInv, TypeInv
<1> DEFINE last == LastDependency(d)
<1>1. /\ pc[w] = "notify" /\ task[w] \in Task /\ d \in ToNotify(task[w])
      /\ pc' = [pc EXCEPT ![w] = IF last THEN "resume" ELSE "notify"]
      /\ dependent' = [dependent EXCEPT ![w] = IF last THEN d ELSE NoTask]
      /\ dependencyCount' = [dependencyCount EXCEPT ![d] = @ - 1]
      /\ notified' = [notified EXCEPT ![task[w]] = @ \cup {d}]
      /\ UNCHANGED <<state, readyQueue, taskState, added, task>>
  BY DEF Notify, Goto, TypeOK, Pulled, runtimeVars
<1>2. dependencyCount[d] \in Nat \ {0}
  <2>1. Open(d) # {}
    BY <1>1 DEF Open
  <2> QED
    BY <2>1, OpenIsFinite, FS_EmptySet DEF DependenciesCounted
<1>3. ~Located(d) /\ taskState[d] = "ready"
  BY <1>2 DEF UntouchedBefore
<1>4. /\ QueuesApart'
      /\ \A x \in Task, q \in Queue : Queued(x, q)' <=> Queued(x, q)
  BY <1>1, QueuesSame
<1>5. /\ ~Fresh(d)'
      /\ \A u \in Task : Fresh(u)' => Fresh(u)
  BY <1>1 DEF Fresh, TypeOK
<1>6. /\ last <=> dependencyCount'[d] = 0
      /\ \A u \in Task : u # d => dependencyCount'[u] = dependencyCount[u]
  BY <1>1, <1>2 DEF LastDependency, TypeOK
<1>7. \A u \in Task, v \in Worker :
        /\ Held(u, v)' <=> Held(u, v)
        /\ Resuming(u, v)' <=> (IF v = w THEN last /\ u = d ELSE Resuming(u, v))
  BY <1>1, NameAssumption DEF Held, Resuming, TypeOK
<1>8. WorkersApart' /\ QueuedOrHeld'
  BY <1>3, <1>4, <1>7 DEF WorkersApart, QueuedOrHeld, Located
<1>9. UntouchedBefore'
  <2>1. \A u \in Task : u # d => (Located(u)' => Located(u))
    BY <1>4, <1>7 DEF Located
  <2>2. ~last => ~Located(d)'
    BY <1>3, <1>4, <1>7 DEF Located
  <2> QED
    BY <1>1, <1>3, <1>5, <1>6, <2>1, <2>2 DEF UntouchedBefore
<1>10. StateFits'
  BY <1>1, <1>3, <1>4, <1>7 DEF StateFits, TypeOK
<1>11. PointFits'
  BY <1>1, NameAssumption DEF PointFits, Holding, Pulled, TypeOK
<1> QED
  BY <1>4, <1>8, <1>9, <1>10, <1>11

LEMMA ResumeDependentInv ==
  ASSUME Inv, NEW w \in Worker, ResumeDependent(w)
  PROVE  QueuesApart' /\ PlaceInv'
<1> USE DEF Inv, PlaceInv, TypeInv
<1>1. PICK d \in Task : d = dependent[w]
  BY DEF ResumeDependent, Goto, TypeOK
<1>2. /\ pc[w] = "resume" /\ pc' = [pc EXCEPT ![w] = "notify"]
      /\ ResumeTask(d) /\ dependent' = [dependent EXCEPT ![w] = NoTask]
      /\ UNCHANGED <<state, taskState, graphVars, task>>
  BY <1>1 DEF ResumeDependent, Goto, runtimeVars
<1>3. /\ Resuming(d, w) /\ taskState[d] = "ready" /\ ~Fresh(d)
      /\ ~(dependencyCount[d] > 0)
  BY <1>1 DEF Resuming, StateFits, UntouchedBefore, Located
<1>4. /\ \A q \in Queue : ~Queued(d, q)
      /\ \A v \in Worker : ~Held(d, v) /\ (Resuming(d, v) => v = w)
  BY <1>3 DEF QueuedOrHeld, WorkersApart
<1>5. /\ QueuesApart'
      /\ \A x \in Task, q \in Queue : Queued(x, q)' => Queued(x, q) \/ x = d
  <2>1. CASE Push(d)
    BY <1>4, <2>1, QueuesPush
  <2>2. CASE UNCHANGED readyQueue
    BY <2>2, QueuesSame
  <2> QED
    BY <1>2, <2>1, <2>2 DEF ResumeTask
<1>6. \A u \in Task, v \in Worker :
        /\ Held(u, v)' <=> Held(u, v)
        /\ Resuming(u, v)' <=> Resuming(u, v) /\ v # w
  BY <1>2, NameAssumption DEF Held, Resuming, TypeOK
<1>7. WorkersApart' /\ QueuedOrHeld'
  BY <1>4, <1>5, <1>6 DEF WorkersApart, QueuedOrHeld
<1>8. UntouchedBefore'
  BY <1>2, <1>3, <1>5, <1>6 DEF UntouchedBefore, Located, Fresh, graphVars
<1>9. StateFits'
  BY <1>2, <1>3, <1>5, <1>6 DEF StateFits, TypeOK, Resumable
<1>10. PointFits'
  BY <1>2 DEF PointFits, Holding, Pulled, TypeOK
<1> QED
  BY <1>5, <1>7, <1>8, <1>9, <1>10

\* A finished task is let go.
LEMMA OnTaskFinishInv ==
  ASSUME Inv, NEW w \in Worker, OnTaskFinish(w)
  PROVE  QueuesApart' /\ PlaceInv'
<1> USE DEF Inv, PlaceInv, TypeInv
<1>1. /\ pc[w] = "notify" /\ pc' = [pc EXCEPT ![w] = "mainLoop"]
      /\ task' = [task EXCEPT ![w] = NoTask]
      /\ UNCHANGED <<state, readyQueue, taskState, graphVars, dependent>>
  BY DEF OnTaskFinish, Goto, runtimeVars
<1>2. /\ QueuesApart'
      /\ \A x \in Task, q \in Queue : Queued(x, q)' <=> Queued(x, q)
  BY <1>1, QueuesSame
<1>3. \A u \in Task, v \in Worker :
        (Held(u, v)' => Held(u, v) /\ v # w) /\ (Resuming(u, v)' <=> Resuming(u, v))
  BY <1>1, NameAssumption DEF Held, Resuming, TypeOK
<1>4. WorkersApart' /\ QueuedOrHeld'
  BY <1>2, <1>3 DEF WorkersApart, QueuedOrHeld
<1>5. UntouchedBefore'
  BY <1>1, <1>2, <1>3 DEF UntouchedBefore, Located, Fresh, graphVars
<1>6. StateFits'
  BY <1>1, <1>2, <1>3 DEF StateFits, TypeOK
<1>7. PointFits'
  BY <1>1 DEF PointFits, Holding, Pulled, TypeOK
<1> QED
  BY <1>2, <1>4, <1>5, <1>6, <1>7

LEMMA WorkerStepInv ==
  ASSUME Inv, NEW w \in Worker, WorkerStep(w)
  PROVE  QueuesApart' /\ PlaceInv'
<1> DEFINE Moves(to) ==
      /\ pc' = [pc EXCEPT ![w] = to] /\ to \in Points /\ pc[w] # "stopped"
      /\ UNCHANGED <<state, readyQueue, task, dependent, taskState, graphVars>>
<1> USE DEF Points, Pulled, InLoop
<1>1. CASE PollSatisfied(w) \/ PollDone(w)
  <2>1. \E to \in {"poll", "leave"} : Moves(to) /\ pc[w] = "poll"
    BY <1>1 DEF PollSatisfied, PollDone, Goto, runtimeVars
  <2> QED
    BY <2>1, MoveInv
<1>2. ASSUME NEW op \in Operation, AddPendingOperation(w, op)
      PROVE  QueuesApart' /\ PlaceInv'
  <2>1. Moves("exec") /\ pc[w] = "exec"
    BY <1>2 DEF AddPendingOperation, Goto, runtimeVars
  <2> QED
    BY <2>1, MoveInv
<1>3. ASSUME NEW a \in Affinities, SetWorkerAffinity(w, a)
       PROVE  QueuesApart' /\ PlaceInv'
  <2>1. Moves("exec") /\ pc[w] = "exec"
    BY <1>3 DEF SetWorkerAffinity, Goto, runtimeVars
  <2> QED
    BY <2>1, MoveInv
<1>4. CASE LeaveLoop(w)
  <2>1. CASE task[w] = NoTask
    <3>1. Moves("mainLoop") /\ dependent[w] = NoTask
      BY <1>4, <2>1 DEF LeaveLoop, Goto, runtimeVars, Inv, PlaceInv, PointFits
    <3> QED
      BY <2>1, <3>1, MoveInv
  <2>2. CASE task[w] # NoTask
    <3>1. Moves("run") /\ pc[w] = "leave"
      BY <1>4, <2>2 DEF LeaveLoop, Goto, runtimeVars
    <3> QED
      BY <3>1, MoveInv
  <2> QED
    BY <2>1, <2>2
<1>5. CASE \/ EnterLoop(w) \/ CheckSuspension(w) \/ CheckTermination(w)
           \/ Sleep(w) \/ WakeUp(w) \/ Terminate(w)
  <2>1. \E to \in Points : Moves(to) /\ pc[w] \notin Holding
    BY <1>5 DEF EnterLoop, CheckSuspension, CheckTermination, Sleep, WakeUp,
                Terminate, Goto, runtimeVars, Holding
  <2>2. task[w] = NoTask /\ dependent[w] = NoTask
    BY <2>1 DEF Inv, PlaceInv, PointFits, Holding
  <2> QED
    BY <2>1, <2>2, MoveInv
<1>6. CASE DrainCommon(w) \/ DrainOwn(w)
  BY <1>6, DrainInv DEF DrainCommon, DrainOwn, Queue, Holding
<1>7. CASE PullOwn(w) \/ PullCommon(w)
  BY <1>7, PullInv DEF PullOwn, PullCommon, Queue, Holding
<1>8. CASE PollUnsatisfied(w)
  BY <1>8, RequeueInv DEF PollUnsatisfied, Goto, runtimeVars, bodyVars
<1>9. CASE OnTaskSuspend(w)
  BY <1>9, RequeueInv DEF OnTaskSuspend, Goto, runtimeVars, bodyVars
<1>10. CASE RunTask(w) \/ Suspend(w) \/ Finish(w)
  BY <1>10, ExecuteInv
<1>11. CASE ResumeDependent(w)
  BY <1>11, ResumeDependentInv
<1>12. CASE OnTaskFinish(w)
  BY <1>12, OnTaskFinishInv
<1> QED
  BY <1>1, <1>2, <1>4, <1>5, <1>6, <1>7, <1>8, <1>9, <1>10, <1>11, <1>12, <1>3
  DEF WorkerStep, Body

LEMMA NextInv ==
  ASSUME OrderlyClient, Inv, [Next]_vars
  PROVE  Inv'
<1>1. TypeInv'
  BY NextType DEF Inv
<1>2. QueuesApart' /\ PlaceInv'
  <2>1. CASE UNCHANGED vars
    BY <2>1
    DEF vars, graphVars, workerVars, runtimeVars, Inv, QueuesApart, PlaceInv,
        WorkersApart, QueuedOrHeld, UntouchedBefore, StateFits, PointFits,
        Queued, Held, Resuming, Located, Fresh
  <2> QED
    BY <2>1, NextCases, ControlInv, AddDependencyInv, AddTaskInv, NotifyInv,
       WorkerStepInv
<1> QED
  BY <1>1, <1>2 DEF Inv

\* The places of all tasks stay apart for ever.
THEOREM Placement == OrderlyClient => (Spec => []Inv)
<1> SUFFICES ASSUME OrderlyClient PROVE Spec => []Inv
  OBVIOUS
<1>1. Inv /\ [Next]_vars => Inv'
  BY NextInv
<1> QED
  BY <1>1, InitInv, PTL DEF Spec

\* However many workers, tasks and dependencies there are: no task is pushed
\* twice, none is queued while a worker has it, and no two workers have it.
THEOREM OnePlaceHolds == OrderlyClient => (Spec => []OnePlace)
<1>1. Inv => OnePlace
  BY DEF Inv, PlaceInv, QueuesApart, WorkersApart, QueuedOrHeld, OnePlace
<1> QED
  BY <1>1, Placement, PTL

\* A worker never runs a task that is running or has finished, for which HiCR
\* would throw.
THEOREM RunsOnlyResumableHolds == OrderlyClient => (Spec => []RunsOnlyResumable)
<1>1. Inv => RunsOnlyResumable
  BY DEF Inv, PlaceInv, StateFits, RunsOnlyResumable, Held, TypeInv, TypeOK,
         Pulled, Resumable
<1> QED
  BY <1>1, Placement, PTL

=============================================================================
