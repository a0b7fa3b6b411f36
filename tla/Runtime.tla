------------------------------ MODULE Runtime ------------------------------
(***************************************************************************)
(* The task scheduler of TaskR: class taskr::Runtime (runtime.hpp) with    *)
(* the tasks (task.hpp) and task workers (worker.hpp) it drives.  Every    *)
(* access to state shared between threads - an atomic counter, a lock-free *)
(* queue, a worker's state - is a step of its own; what a thread does to   *)
(* its own task between two of them is part of the step.                   *)
(*                                                                         *)
(* The configuration is TaskR's default one as far as services go: no      *)
(* service workers, and task workers that run no services.                 *)
(***************************************************************************)
EXTENDS Integers, Sequences, FiniteSets

CONSTANTS
  Task,            \* the task objects, numbered so that dependencies go down
  Worker,          \* the task workers
  Common,          \* affinity -1; also names the common ready queue
  NoTask,          \* nullptr
  External,        \* a pending operation that completes outside TaskR
  Affinities,      \* the affinities the application gives its tasks
  MinimumActiveTaskWorkers,
  InactivitySuspends,  \* _taskWorkerInactivityTimeMs >= 0
  ResumeOnSuspend,     \* the application's onTaskSuspend handler resumes
  QueueCapacity,
  MaxYields,       \* bound: how often a task suspends itself
  MaxPending,      \* bound: how many pending operations a task adds per run
  ClientFeatures   \* what the application does beyond the disciplined use

\* awaitChildren: tasks add tasks that they then depend on (fibonacci);
\* partialGraph: a dependent is never added (jacobi3d); waitForTask: pending
\* operations wait for what another task does; externalAdd: tasks are added
\* while TaskR runs, not only by tasks; anyOrder: without regard to order.
Features == {"awaitChildren", "partialGraph", "waitForTask", "externalAdd",
             "anyOrder", "force", "toggle"}

ASSUME TaskAssumption   == Task \subseteq Nat /\ IsFiniteSet(Task)
ASSUME WorkerAssumption == IsFiniteSet(Worker) /\ Worker # {}
ASSUME NameAssumption   == /\ Common \notin Worker
                           /\ NoTask \notin Task
                           /\ External \notin Task
ASSUME ConfigAssumption ==
  /\ Affinities \subseteq Worker \cup {Common}
  /\ MinimumActiveTaskWorkers \in Nat
  /\ InactivitySuspends \in BOOLEAN
  /\ ResumeOnSuspend \in BOOLEAN
  /\ QueueCapacity \in Nat \ {0}
  /\ MaxYields \in Nat
  /\ MaxPending \in Nat
  /\ ClientFeatures \subseteq Features

VARIABLES
  state,                  \* _state of the runtime
  forceTerminate,         \* _forceTerminate
  finishOnLastTask,       \* _finishOnLastTask
  activeTaskCount,        \* _activeTaskCount; size_t wraps below 0 to -1
  activeTaskWorkerCount,  \* _activeTaskWorkerCount
  readyQueue,             \* the common queue and each worker's own
  taskState,              \* HiCR state of each task
  added,                  \* addTask was called: the task has its callback map
  dependencyCount,        \* _dependencyCount
  outputDependencies,     \* _outputDependencies
  notified,               \* how far setFinishedTask's loop got on each task
  affinity,               \* _workerAffinity
  pendingOperations,      \* _pendingOperations
  yields,                 \* suspensions so far, bounded by MaxYields
  workerState,            \* HiCR state of each worker
  pc,                     \* where each worker is
  task,                   \* the task a worker has pulled
  dependent               \* the dependent a finishing worker is resuming

runtimeVars == <<state, forceTerminate, finishOnLastTask>>
graphVars   == <<added, dependencyCount, outputDependencies, notified>>
bodyVars    == <<affinity, pendingOperations, yields>>
workerVars  == <<pc, task, dependent>>

vars == <<runtimeVars, activeTaskCount, activeTaskWorkerCount, readyQueue,
          taskState, graphVars, bodyVars, workerState, workerVars>>

Queue == Worker \cup {Common}

TaskStates   == {"ready", "running", "suspended", "finished", "drained"}
WorkerStates == {"running", "suspending", "suspended", "resuming",
                 "terminating", "terminated"}

\* The points of a worker's loop at which it holds a task, or none.
Pulled   == {"poll", "run", "exec", "yielded", "notify", "resume"}
InLoop   == {"drainCommon", "drainOwn", "pullOwn", "pullCommon", "poll",
             "noTask", "checkTermination", "leave"}
Points   == Pulled \cup InLoop \cup {"mainLoop", "asleep", "stopped"}

\* What keeps a task from running further: its pending operations, in order.
Operation == Task \cup {External}

\* Allowed(f): the application makes use of f.
Allowed(f) == f \in ClientFeatures

\* A task some worker is executing right now, so able to call into TaskR.
Executing(t) == \E w \in Worker : pc[w] = "exec" /\ task[w] = t

Init ==
  /\ state = "uninitialized"
  /\ forceTerminate = FALSE
  /\ finishOnLastTask = TRUE
  /\ activeTaskCount = 0
  /\ activeTaskWorkerCount = 0
  /\ readyQueue = [q \in Queue |-> <<>>]
  /\ taskState = [t \in Task |-> "ready"]
  /\ added = {}
  /\ dependencyCount = [t \in Task |-> 0]
  /\ outputDependencies = [t \in Task |-> {}]
  /\ notified = [t \in Task |-> {}]
  /\ affinity \in [Task -> Affinities]
  /\ pendingOperations = [t \in Task |-> <<>>]
  /\ yields = [t \in Task |-> 0]
  /\ workerState = [w \in Worker |-> "terminated"]
  /\ pc = [w \in Worker |-> "stopped"]
  /\ task = [w \in Worker |-> NoTask]
  /\ dependent = [w \in Worker |-> NoTask]

-----------------------------------------------------------------------------
(* Operations shared by the application and the workers.                   *)

\* The queue that a task waits in: its worker's own, or the common one.
CommonQueueAlways(t) == Common
QueueOf(t) == affinity[t]

\* The push spins while the queue is full.  Pushing to a worker's own queue
\* resumes the worker, which has an effect only if it is suspended.
Push(t) ==
  LET q == QueueOf(t) IN
  /\ Len(readyQueue[q]) < QueueCapacity
  /\ readyQueue' = [readyQueue EXCEPT ![q] = Append(@, t)]
  /\ workerState' = [w \in Worker |->
       IF w = q /\ workerState[w] = "suspended" THEN "resuming"
                                                ELSE workerState[w]]

\* resumeTask: a task that still has dependencies is left alone.
ResumeUnchecked(t) == Push(t)
ResumeTask(t) ==
  \/ dependencyCount[t] = 0 /\ Push(t)
  \/ dependencyCount[t] > 0 /\ UNCHANGED <<readyQueue, workerState>>

\* A task gets its callback map from addTask.
NoCallbackMap(t) == FALSE
HasCallbackMap(t) == t \in added

\* Worker ids exist only between initialize() and finalize().  resumeTask throws
\* when it would push a task to a worker that is not there, after addTask has
\* counted the task; the applications modelled here do not ask it to.
AffinityIsInvalid(t) ==
  dependencyCount[t] = 0 /\ affinity[t] # Common /\ state = "uninitialized"

-----------------------------------------------------------------------------
(* The application: the main thread's calls, and the calls tasks make.     *)

Initialize ==
  /\ state = "uninitialized"
  /\ state' = "initialized"
  /\ UNCHANGED <<forceTerminate, finishOnLastTask, activeTaskCount,
                 activeTaskWorkerCount, readyQueue, taskState, graphVars,
                 bodyVars, workerState, workerVars>>

\* The application has added all or none of the tasks connected by dependencies;
\* one that runs the graph without some of them is Allowed("partialGraph").
GraphIsComplete ==
  \A t, u \in Task :
    t \in outputDependencies[u] => (t \in added <=> u \in added)

Run ==
  /\ state = "initialized"
  /\ GraphIsComplete \/ Allowed("partialGraph")
  /\ state' = "running"
  /\ forceTerminate' = FALSE
  /\ workerState' = [w \in Worker |-> "running"]
  /\ pc' = [w \in Worker |-> "mainLoop"]
  /\ UNCHANGED <<finishOnLastTask, activeTaskCount, activeTaskWorkerCount,
                 readyQueue, taskState, graphVars, bodyVars, task, dependent>>

\* run() that throws: it has cleared the flag before it looks at the state.
RunRejected ==
  /\ state # "initialized"
  /\ forceTerminate
  /\ forceTerminate' = FALSE
  /\ UNCHANGED <<state, finishOnLastTask, activeTaskCount,
                 activeTaskWorkerCount, readyQueue, taskState, graphVars,
                 bodyVars, workerState, workerVars>>

Await ==
  /\ state = "running"
  /\ \A w \in Worker : pc[w] = "stopped"
  /\ state' = "initialized"
  /\ UNCHANGED <<forceTerminate, finishOnLastTask, activeTaskCount,
                 activeTaskWorkerCount, readyQueue, taskState, graphVars,
                 bodyVars, workerState, workerVars>>

\* The workers, and with them their own queues, are gone; the common queue
\* stays.  The disciplined application finalizes when nothing is active.
Finalize ==
  /\ state = "initialized"
  /\ activeTaskCount = 0 \/ ClientFeatures # {}
  /\ state' = "uninitialized"
  /\ readyQueue' = [q \in Queue |-> IF q = Common THEN readyQueue[q] ELSE <<>>]
  /\ UNCHANGED <<forceTerminate, finishOnLastTask, activeTaskCount,
                 activeTaskWorkerCount, taskState, graphVars, bodyVars,
                 workerState, workerVars>>

\* An application that leaves tasks out of its graph does not force the
\* termination: dropping a task that was never added is counted as an end.
ForceTermination ==
  /\ Allowed("force")
  /\ GraphIsComplete \/ ~Allowed("partialGraph")
  /\ ~forceTerminate
  /\ forceTerminate' = TRUE
  /\ UNCHANGED <<state, finishOnLastTask, activeTaskCount,
                 activeTaskWorkerCount, readyQueue, taskState, graphVars,
                 bodyVars, workerState, workerVars>>

SetFinishOnLastTask(value) ==
  /\ Allowed("toggle")
  /\ finishOnLastTask # value
  /\ finishOnLastTask' = value
  /\ UNCHANGED <<state, forceTerminate, activeTaskCount,
                 activeTaskWorkerCount, readyQueue, taskState, graphVars,
                 bodyVars, workerState, workerVars>>

\* A task whose graph is still being built: no dependency has reported to it.
Fresh(t) == t \notin added /\ \A u \in Task : t \notin notified[u]

\* t->addDependency(u).  The disciplined application builds the graph of a
\* task before adding it, and depends on nothing that may have been started:
\* a task that has finished already reports to nobody any more.
\* Tasks are numbered so that the graph has no cycle.
AddDependency(t, u) ==
  /\ u < t /\ t \notin outputDependencies[u]
  /\ \/ Fresh(t) /\ u \notin added
     \/ Fresh(t) /\ state # "running" /\ taskState[u] = "ready"
     \/ t \notin added /\ Allowed("anyOrder")
     \/ Executing(t) /\ u \notin added /\ Allowed("awaitChildren")
  /\ dependencyCount' = [dependencyCount EXCEPT ![t] = @ + 1]
  /\ outputDependencies' = [outputDependencies EXCEPT ![u] = @ \cup {t}]
  /\ UNCHANGED <<runtimeVars, activeTaskCount, activeTaskWorkerCount,
                 readyQueue, taskState, added, notified, bodyVars,
                 workerState, workerVars>>

\* When a task may be added: while it is fresh and, once TaskR runs, after the
\* tasks that it will itself notify, and from within an added task unless the
\* application can do with a task that comes too late for the run.
MayAdd(t) ==
  \/ Fresh(t) /\ state # "running"
  \/ /\ Fresh(t) /\ outputDependencies[t] \subseteq added
     /\ Allowed("externalAdd") \/ \E u \in added : Executing(u)
  \/ t \notin added /\ Allowed("anyOrder")

\* addTask counts the task, makes it known to its callbacks and resumes it.
AddTask(t) ==
  /\ MayAdd(t) /\ ~AffinityIsInvalid(t)
  /\ activeTaskCount' = activeTaskCount + 1
  /\ added' = added \cup {t}
  /\ ResumeTask(t)
  /\ UNCHANGED <<runtimeVars, activeTaskWorkerCount, taskState,
                 dependencyCount, outputDependencies, notified, bodyVars,
                 workerVars>>

Client ==
  \/ Initialize \/ Run \/ RunRejected \/ Await \/ Finalize \/ ForceTermination
  \/ \E value \in BOOLEAN : SetFinishOnLastTask(value)
  \/ \E t, u \in Task : AddDependency(t, u)
  \/ \E t \in Task : AddTask(t)

-----------------------------------------------------------------------------
(* The worker's main loop and taskWorkerLoop, the function it pulls from.  *)

\* The worker goes from one point of its loop to another.
Goto(w, from, to) == pc[w] = from /\ pc' = [pc EXCEPT ![w] = to]

EnterLoop(w) ==
  /\ workerState[w] = "running"
  /\ Goto(w, "mainLoop", IF forceTerminate THEN "drainCommon" ELSE "pullOwn")
  /\ activeTaskWorkerCount' = activeTaskWorkerCount + 1
  /\ UNCHANGED <<runtimeVars, activeTaskCount, readyQueue, taskState,
                 graphVars, bodyVars, workerState, task, dependent>>

\* A forced termination empties the common queue and the worker's own.  The
\* tasks taken out are dropped: nobody runs them or notifies their dependents.
DropUncounted(q) ==
  /\ readyQueue' = [readyQueue EXCEPT ![q] = Tail(@)]
  /\ taskState' = [taskState EXCEPT ![Head(readyQueue[q])] = "drained"]
  /\ UNCHANGED activeTaskCount

Drop(q) ==
  /\ readyQueue' = [readyQueue EXCEPT ![q] = Tail(@)]
  /\ taskState' = [taskState EXCEPT ![Head(readyQueue[q])] = "drained"]
  /\ activeTaskCount' = activeTaskCount - 1

Drain(w, q, from, to) ==
  \/ /\ readyQueue[q] # <<>>
     /\ Goto(w, from, from)
     /\ Drop(q)
     /\ UNCHANGED <<runtimeVars, activeTaskWorkerCount, graphVars, bodyVars,
                    workerState, task, dependent>>
  \/ /\ readyQueue[q] = <<>>
     /\ Goto(w, from, to)
     /\ UNCHANGED <<runtimeVars, activeTaskCount, activeTaskWorkerCount,
                    readyQueue, taskState, graphVars, bodyVars, workerState,
                    task, dependent>>

DrainCommon(w) == Drain(w, Common, "drainCommon", "drainOwn")
DrainOwn(w)    == Drain(w, w, "drainOwn", "pullOwn")

\* Queue::pop: the front task, or none and the worker goes to `otherwise'.
Pull(w, q, from, otherwise) ==
  \/ /\ readyQueue[q] # <<>>
     /\ Goto(w, from, "poll")
     /\ task' = [task EXCEPT ![w] = Head(readyQueue[q])]
     /\ readyQueue' = [readyQueue EXCEPT ![q] = Tail(@)]
     /\ UNCHANGED <<runtimeVars, activeTaskCount, activeTaskWorkerCount,
                    taskState, graphVars, bodyVars, workerState, dependent>>
  \/ /\ readyQueue[q] = <<>>
     /\ Goto(w, from, otherwise)
     /\ UNCHANGED <<runtimeVars, activeTaskCount, activeTaskWorkerCount,
                    readyQueue, taskState, graphVars, bodyVars, workerState,
                    task, dependent>>

PullOwnOnly(w) == Pull(w, w, "pullOwn", "noTask")
PullOwn(w)     == Pull(w, w, "pullOwn", "pullCommon")
PullCommon(w)  == Pull(w, Common, "pullCommon", "noTask")

\* What polling an operation may answer.  One that waits for something TaskR
\* does not control may answer either way.
MaySucceed(op) == IF op = External THEN TRUE ELSE taskState[op] = "finished"
MayFail(op)    == IF op = External THEN TRUE ELSE taskState[op] # "finished"

PollSatisfied(w) ==
  /\ Goto(w, "poll", "poll")
  /\ pendingOperations[task[w]] # <<>>
  /\ MaySucceed(Head(pendingOperations[task[w]]))
  /\ pendingOperations' = [pendingOperations EXCEPT ![task[w]] = Tail(@)]
  /\ UNCHANGED <<runtimeVars, activeTaskCount, activeTaskWorkerCount,
                 readyQueue, taskState, graphVars, affinity, yields,
                 workerState, task, dependent>>

PollUnsatisfied(w) ==
  /\ Goto(w, "poll", "noTask")
  /\ pendingOperations[task[w]] # <<>>
  /\ MayFail(Head(pendingOperations[task[w]]))
  /\ ResumeTask(task[w])
  /\ task' = [task EXCEPT ![w] = NoTask]
  /\ UNCHANGED <<runtimeVars, activeTaskCount, activeTaskWorkerCount,
                 taskState, graphVars, bodyVars, dependent>>

PollDoneChecks(w) ==
  /\ Goto(w, "poll", "checkTermination")
  /\ pendingOperations[task[w]] = <<>>
  /\ UNCHANGED <<runtimeVars, activeTaskCount, activeTaskWorkerCount,
                 readyQueue, taskState, graphVars, bodyVars, workerState,
                 task, dependent>>

PollDone(w) ==
  /\ Goto(w, "poll", "leave")
  /\ pendingOperations[task[w]] = <<>>
  /\ UNCHANGED <<runtimeVars, activeTaskCount, activeTaskWorkerCount,
                 readyQueue, taskState, graphVars, bodyVars, workerState,
                 task, dependent>>

\* checkTaskWorkerSuspension: how long the worker has failed to find a task is
\* left open, so it may fall asleep on any failure - if its reading of
\* _activeTaskWorkerCount lets it.
CheckSuspension(w) ==
  /\ Goto(w, "noTask", "checkTermination")
  /\ \/ UNCHANGED workerState
     \/ /\ InactivitySuspends
        /\ activeTaskWorkerCount > MinimumActiveTaskWorkers
        /\ workerState' = [workerState EXCEPT ![w] = "suspending"]
  /\ UNCHANGED <<runtimeVars, activeTaskCount, activeTaskWorkerCount,
                 readyQueue, taskState, graphVars, bodyVars, task, dependent>>

QueuesAreEmpty == finishOnLastTask /\ \A q \in Queue : readyQueue[q] = <<>>
AllFinished    == finishOnLastTask /\ activeTaskCount = 0

CheckTermination(w) ==
  /\ Goto(w, "checkTermination", "leave")
  /\ workerState' = IF AllFinished
                    THEN [workerState EXCEPT ![w] = "terminating"]
                    ELSE workerState
  /\ UNCHANGED <<runtimeVars, activeTaskCount, activeTaskWorkerCount,
                 readyQueue, taskState, graphVars, bodyVars, task, dependent>>

LeaveLoop(w) ==
  /\ Goto(w, "leave", IF task[w] = NoTask THEN "mainLoop" ELSE "run")
  /\ activeTaskWorkerCount' = activeTaskWorkerCount - 1
  /\ UNCHANGED <<runtimeVars, activeTaskCount, readyQueue, taskState,
                 graphVars, bodyVars, workerState, task, dependent>>

Sleep(w) ==
  /\ Goto(w, "mainLoop", "asleep")
  /\ workerState[w] = "suspending"
  /\ workerState' = [workerState EXCEPT ![w] = "suspended"]
  /\ UNCHANGED <<runtimeVars, activeTaskCount, activeTaskWorkerCount,
                 readyQueue, taskState, graphVars, bodyVars, task, dependent>>

\* checkResumeWorker, polled by a sleeping worker at every suspend interval.
CheckResumeOnRequest(w) ==
  \/ activeTaskWorkerCount <= MinimumActiveTaskWorkers
  \/ workerState[w] = "resuming"
  \/ activeTaskCount = 0

CheckResumeWorker(w) ==
  \/ activeTaskWorkerCount <= MinimumActiveTaskWorkers
  \/ workerState[w] = "resuming"
  \/ activeTaskCount = 0
  \/ readyQueue[w] # <<>>

WakeUp(w) ==
  /\ Goto(w, "asleep", "mainLoop")
  /\ CheckResumeWorker(w)
  /\ workerState' = [workerState EXCEPT ![w] = "running"]
  /\ UNCHANGED <<runtimeVars, activeTaskCount, activeTaskWorkerCount,
                 readyQueue, taskState, graphVars, bodyVars, task, dependent>>

Terminate(w) ==
  /\ Goto(w, "mainLoop", "stopped")
  /\ workerState[w] = "terminating"
  /\ workerState' = [workerState EXCEPT ![w] = "terminated"]
  /\ UNCHANGED <<runtimeVars, activeTaskCount, activeTaskWorkerCount,
                 readyQueue, taskState, graphVars, bodyVars, task, dependent>>

-----------------------------------------------------------------------------
(* Running a task, and what its function may do.                           *)

\* HiCR runs a task that is ready or suspended, and throws on any other.
RunTask(w) ==
  /\ Goto(w, "run", "exec")
  /\ taskState[task[w]] \in {"ready", "suspended"}
  /\ taskState' = [taskState EXCEPT ![task[w]] = "running"]
  /\ UNCHANGED <<runtimeVars, activeTaskCount, activeTaskWorkerCount,
                 readyQueue, graphVars, bodyVars, workerState, task,
                 dependent>>

AddPendingOperation(w, op) ==
  /\ Goto(w, "exec", "exec")
  /\ Len(pendingOperations[task[w]]) < MaxPending
  /\ op # External => Allowed("waitForTask") /\ op < task[w]
  /\ pendingOperations' =
       [pendingOperations EXCEPT ![task[w]] = Append(@, op)]
  /\ UNCHANGED <<runtimeVars, activeTaskCount, activeTaskWorkerCount,
                 readyQueue, taskState, graphVars, affinity, yields,
                 workerState, task, dependent>>

SetWorkerAffinity(w, a) ==
  /\ Goto(w, "exec", "exec")
  /\ affinity[task[w]] # a
  /\ affinity' = [affinity EXCEPT ![task[w]] = a]
  /\ UNCHANGED <<runtimeVars, activeTaskCount, activeTaskWorkerCount,
                 readyQueue, taskState, graphVars, pendingOperations, yields,
                 workerState, task, dependent>>

\* A task suspends itself when something is there to resume it: the onTaskSuspend
\* handler, or the tasks it has come to depend on.
Suspend(w) ==
  /\ Goto(w, "exec", "yielded")
  /\ yields[task[w]] < MaxYields
  /\ \/ ResumeOnSuspend
     \/ \E u \in Task : task[w] \in outputDependencies[u]
  /\ yields' = [yields EXCEPT ![task[w]] = @ + 1]
  /\ taskState' = [taskState EXCEPT ![task[w]] = "suspended"]
  /\ UNCHANGED <<runtimeVars, activeTaskCount, activeTaskWorkerCount,
                 readyQueue, graphVars, affinity, pendingOperations,
                 workerState, task, dependent>>

\* onTaskSuspendCallback; with the usual handler it resumes the task at once.
OnTaskSuspend(w) ==
  /\ Goto(w, "yielded", "mainLoop")
  /\ IF HasCallbackMap(task[w]) /\ ResumeOnSuspend
     THEN ResumeTask(task[w])
     ELSE UNCHANGED <<readyQueue, workerState>>
  /\ task' = [task EXCEPT ![w] = NoTask]
  /\ UNCHANGED <<runtimeVars, activeTaskCount, activeTaskWorkerCount,
                 taskState, graphVars, bodyVars, dependent>>

Finish(w) ==
  /\ Goto(w, "exec", "notify")
  /\ taskState' = [taskState EXCEPT ![task[w]] = "finished"]
  /\ UNCHANGED <<runtimeVars, activeTaskCount, activeTaskWorkerCount,
                 readyQueue, graphVars, bodyVars, workerState, task,
                 dependent>>

\* The dependents that setFinishedTask's loop has still to visit.
EveryDependent(t) == outputDependencies[t]
ToNotify(t) == outputDependencies[t] \ notified[t]

\* The decrement returned zero: only whoever made it resumes the task.
OneOfTheLast(d)   == dependencyCount[d] <= 2
NoneLeftBefore(d) == dependencyCount[d] = 0
LastDependency(d) == dependencyCount[d] = 1

\* One turn of setFinishedTask's loop.
Notify(w, d) ==
  LET t == task[w] IN
  /\ Goto(w, "notify", IF LastDependency(d) THEN "resume" ELSE "notify")
  /\ HasCallbackMap(t) /\ d \in ToNotify(t)
  /\ notified' = [notified EXCEPT ![t] = @ \cup {d}]
  /\ dependencyCount' = [dependencyCount EXCEPT ![d] = @ - 1]
  /\ dependent' = [dependent EXCEPT
                     ![w] = IF LastDependency(d) THEN d ELSE NoTask]
  /\ UNCHANGED <<runtimeVars, activeTaskCount, activeTaskWorkerCount,
                 readyQueue, taskState, added, outputDependencies, bodyVars,
                 workerState, task>>

ResumeDependent(w) ==
  /\ Goto(w, "resume", "notify")
  /\ ResumeTask(dependent[w])
  /\ dependent' = [dependent EXCEPT ![w] = NoTask]
  /\ UNCHANGED <<runtimeVars, activeTaskCount, activeTaskWorkerCount,
                 taskState, graphVars, bodyVars, task>>

\* The rest of onTaskFinishCallback.  The end of a task without callback map
\* notifies nobody and is not counted.
OnTaskFinish(w) ==
  /\ Goto(w, "notify", "mainLoop")
  /\ \/ /\ HasCallbackMap(task[w]) /\ ToNotify(task[w]) = {}
        /\ activeTaskCount' = activeTaskCount - 1
     \/ ~HasCallbackMap(task[w]) /\ UNCHANGED activeTaskCount
  /\ task' = [task EXCEPT ![w] = NoTask]
  /\ UNCHANGED <<runtimeVars, activeTaskWorkerCount, readyQueue, taskState,
                 graphVars, bodyVars, workerState, dependent>>

\* What a worker does by itself, and what the task's function decides.
Scheduler(w) ==
  \/ EnterLoop(w) \/ DrainCommon(w) \/ DrainOwn(w) \/ PullOwn(w)
  \/ PullCommon(w) \/ PollSatisfied(w) \/ PollUnsatisfied(w) \/ PollDone(w)
  \/ CheckSuspension(w) \/ CheckTermination(w) \/ LeaveLoop(w) \/ Sleep(w)
  \/ WakeUp(w) \/ Terminate(w) \/ RunTask(w) \/ OnTaskSuspend(w)
  \/ \E d \in Task : Notify(w, d)
  \/ ResumeDependent(w) \/ OnTaskFinish(w)

Body(w) ==
  \/ \E op \in Operation : AddPendingOperation(w, op)
  \/ \E a \in Affinities : SetWorkerAffinity(w, a)
  \/ Suspend(w) \/ Finish(w)

Next == Client \/ \E w \in Worker : Scheduler(w) \/ Body(w)

Spec == Init /\ [][Next]_vars

\* Threads are scheduled, main calls await, every function a task runs comes
\* to its end, and an operation that can answer yes is not told no for ever.
Fairness ==
  /\ WF_vars(Await)
  /\ \A w \in Worker : /\ WF_vars(Scheduler(w))
                       /\ WF_vars(Suspend(w) \/ Finish(w))
  /\ \A t \in Task :
       SF_vars(\E w \in Worker : task[w] = t /\ PollSatisfied(w))

FairSpec == Spec /\ Fairness

-----------------------------------------------------------------------------
(* Properties.                                                             *)

TypeOK ==
  /\ state \in {"uninitialized", "initialized", "running"}
  /\ forceTerminate \in BOOLEAN
  /\ finishOnLastTask \in BOOLEAN
  /\ activeTaskCount \in Int
  /\ activeTaskWorkerCount \in Int
  /\ readyQueue \in [Queue -> Seq(Task)]
  /\ taskState \in [Task -> TaskStates]
  /\ added \in SUBSET Task
  /\ dependencyCount \in [Task -> Nat]
  /\ outputDependencies \in [Task -> SUBSET Task]
  /\ notified \in [Task -> SUBSET Task]
  /\ affinity \in [Task -> Affinities]
  /\ pendingOperations \in [Task -> Seq(Operation)]
  /\ yields \in [Task -> Nat]
  /\ workerState \in [Worker -> WorkerStates]
  /\ pc \in [Worker -> Points]
  /\ task \in [Worker -> Task \cup {NoTask}]
  /\ dependent \in [Worker -> Task \cup {NoTask}]
  /\ \A w \in Worker : /\ pc[w] \in Pulled => task[w] \in Task
                       /\ pc[w] = "resume" => dependent[w] \in Task

\* Where the scheduler holds a task: in a queue, by the worker that pulled it,
\* or by the worker about to resume it.
Queued(t, q)   == \E i \in DOMAIN readyQueue[q] : readyQueue[q][i] = t
Held(t, w)     == task[w] = t
Resuming(t, w) == dependent[w] = t

Located(t) == \/ \E q \in Queue : Queued(t, q)
              \/ \E w \in Worker : Held(t, w) \/ Resuming(t, w)

\* A task is in at most one place: no two workers can come to run it at once,
\* and none can run it again after its end.  Every push of resumeTask - from
\* addTask, a finished dependency, a failed poll or a suspension handler - has
\* to be the only one.
OnePlace ==
  /\ \A q \in Queue : \A i, j \in DOMAIN readyQueue[q] :
       i # j => readyQueue[q][i] # readyQueue[q][j]
  /\ \A t \in Task : \A p, q \in Queue :
       Queued(t, p) /\ Queued(t, q) => p = q
  /\ \A t \in Task : \A v, w \in Worker :
       /\ Held(t, v) /\ Held(t, w) => v = w
       /\ Resuming(t, v) /\ Resuming(t, w) => v = w
       /\ ~(Held(t, v) /\ Resuming(t, w))
  /\ \A t \in Task : \A q \in Queue : \A w \in Worker :
       Queued(t, q) => ~Held(t, w) /\ ~Resuming(t, w)

\* What HiCR's Task::run demands, and throws without: a worker only ever runs
\* a task that is ready or suspended.
RunsOnlyResumable ==
  \A w \in Worker : pc[w] = "run" => taskState[task[w]] \in {"ready", "suspended"}

\* An added task that has not finished is either somewhere in the scheduler
\* or still waits for a dependency that has yet to report to it: no wakeup is
\* lost between the last decrement of its count and the push it causes.  Where
\* dependencies can be dropped, that they do report is for ForceTerminates.
NoTaskLost ==
  \A t \in added :
    taskState[t] \notin {"finished", "drained"} =>
      \/ Located(t)
      \/ \E u \in Task : t \in outputDependencies[u] \ notified[u]

\* _activeTaskCount counts the added tasks that have not been finished with:
\* the workers terminate on what it says.
ActiveTask == {t \in added : \/ taskState[t] \notin {"finished", "drained"}
                             \/ \E w \in Worker : Held(t, w)}

CountIsAccurate == activeTaskCount = Cardinality(ActiveTask)

\* While TaskR runs, a worker gives up only when every added task has
\* finished and its callbacks are over: what run() promises of await().
LeavesNoTaskBehind ==
  \A w \in Worker :
    state = "running" /\ workerState[w] \in {"terminating", "terminated"} =>
      ActiveTask = {}

\* Once all workers have stopped, nothing is left to run: also a task that no
\* counter knows of, because it was never added, was pulled before they stopped.
\* (One with an affinity may be pushed to a worker that no longer looks.)
RestsEmpty ==
  state = "running" /\ (\A w \in Worker : pc[w] = "stopped") =>
    \A t \in Task : ~Located(t)

\* A task with an affinity waits in its worker's own queue, and only that
\* worker pulls it, also after it has given itself another affinity.
AffinityRespected ==
  \A t \in Task :
    /\ \A q \in Queue : Queued(t, q) => q = affinity[t]
    /\ \A w \in Worker : Held(t, w) /\ pc[w] \in {"poll", "leave", "run"} =>
                           affinity[t] \in {Common, w}

\* A forced run ends, unless the request was withdrawn by another run().
ForceTerminates ==
  state = "running" /\ forceTerminate
    ~> state = "initialized" \/ ~forceTerminate

\* A task that is still running is not in a queue for another worker to run.
NotQueuedWhileRunning ==
  \A t \in Task : \A q \in Queue : Queued(t, q) => taskState[t] # "running"

\* Every run ends: its tasks all get to run, and once they have finished the
\* workers find out, including the sleeping ones.  Excepted is an application
\* that leaves an added task waiting for one that it never adds.
AwaitReturns ==
  state = "running" ~> state = "initialized" \/ ~GraphIsComplete

=============================================================================
