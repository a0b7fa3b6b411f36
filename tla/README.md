# TaskR in TLA+

TLA+ modules, TLC configurations and TLAPS proofs for TaskR, the dependency-driven tasking
runtime in `src/include/taskr`. Every definition is translated from that code; `PROJECT.json`
maps each one to the lines it stands for. References below are to files under `src/`.

- [The system](#the-system): components, their state and operations, how they interact, what is hard
- [The modules](#the-modules): which module models what, and how state and actions correspond
- [What is checked](#what-is-checked): runs, bounds, fairness, findings
- [What is proved](#what-is-proved)
- [What is not modelled](#what-is-not-modelled)
- [Plan](#plan)

## The system

### Components

| component | state | operations |
|---|---|---|
| **Runtime** `include/taskr/runtime.hpp` | `_state`, `_forceTerminate`, `_finishOnLastTask`, `_activeTaskCount`, `_activeTaskWorkerCount`, `_commonReadyTaskQueue`, `_serviceQueue`, the workers | application: `initialize`, `run`, `await`, `finalize`, `addTask`, `resumeTask`, `addService`, `forceTermination`, `setFinishOnLastTask`; a worker: `taskWorkerLoop`, `serviceWorkerLoop`, `checkTaskWorkerSuspension`, `checkResumeWorker`, `checkTermination`; callbacks: `onTaskExecute`, `onTaskSuspend`, `onTaskFinish`, `setFinishedTask` |
| **Task** `task.hpp`, `taskImpl.hpp` | `_dependencyCount` (atomic), `_outputDependencies`, `_pendingOperations`, `_workerAffinity`, its HiCR state | `addDependency`, `addPendingOperation`, `setWorkerAffinity`, `suspend` |
| **Worker** `worker.hpp` | its own ready queue, its HiCR state, the time since it last had a task | `resume`, `checkResumeCondition`, HiCR's main loop |
| **Queue** `queue.hpp`, `common.hpp` | a bounded lock-free FIFO (atomic_queue) | `push` (spins when full), `pop` (null when empty) |
| **Mutex** `mutex.hpp` | `_internalMutex`, `_ownerTask`, `_queue` | `lock`, `trylock`, `unlock`, `ownsLock` |
| **ConditionVariable** `conditionVariable.hpp` | `_mutex` (a Mutex), `_waitingTasks`: addresses of flags on the stacks of the waiting tasks | `wait`, `wait` with predicate, `waitFor`, `waitFor` with predicate, `notifyOne`, `notifyAll` |
| **Service** `service.hpp` | interval, time of the last run, whether it is enabled, callable; the runtime's `_serviceQueue` | application: `addService`, `enable`, `disable`, `setInterval`; `serviceWorkerLoop`, `tryRunService`, also called by task workers between tasks |
| **Jacobi solver** `examples/jacobi3d` | per process: the grid cut into blocks, two arrays, pack and unpack buffers, channels to other processes | reset, compute, pack, send, receive, unpack, residual, as tasks; an MPI version without tasks |
| **Cholesky factorization** `examples/cholesky` | the matrix, its blocks, the grid of tasks that update each block | the kernels, in a TaskR, an OmpSs-2 and a sequential version |
| **Other examples** `examples/` | counters, values guarded by a mutex or a condition variable | flat sets of tasks, chains, jobs, tasks that suspend or change their worker |
| **Python bindings** `pytaskr/` | choice of backend and resources | construction, one-to-one calls |

HiCR (tasks, workers, processing units, callback maps), atomic_queue and nOS-V are external. They
are modelled from how TaskR uses them, and the map marks the definitions that stand for them.

### Interactions

- The main thread and running tasks call `addTask`, which counts the task, gives it the runtime's
  callback map and pushes it to a ready queue if it has no open dependency.
- A worker's HiCR main loop asks `taskWorkerLoop` for a task, runs it, and calls back on suspension
  and end. All workers share the common queue and the counters; each has a queue of its own, into
  which others push.
- `onTaskFinish` walks over the task's dependents, decreases their counts, resumes those that reach
  zero, and only then decreases the count of active tasks, on which workers decide to terminate.
- A waiting task - on a mutex, a condition variable, an external event - adds a pending operation
  and suspends. The suspension handler puts it back in a queue at once; whoever pulls it polls its
  operations in order and requeues it at the first that is not satisfied.
- A worker without task for some time falls asleep; it polls `checkResumeWorker` to wake up.
- Service workers, and task workers if they are told to, pop a service, run it if it is enabled and
  its interval has passed, and push it back. `await` joins service workers too; they learn of the end
  from the count of active tasks.
- The Jacobi solver's processes exchange faces over bounded channels that both sides build
  independently: tasks poll them as pending operations.

### What is hard about it

The hazards, each at its line with the properties that would catch it, are in `PROJECT.json`. In
short: two workers finish the last two dependencies of a task together; dependencies finish while
their dependent is being added or is still running; the count of tasks has to outlive the pushes
that a task's end causes; a push races with the queue's owner falling asleep; the count of active
workers is compared first and decreased later; a forced termination drops tasks others wait for;
`unlock` writes the owner twice while others read it unguarded, and a notification writes flags that
are polled unguarded; it meets a task that is not asleep yet, or one that has timed out; a service is in nobody's queue while it is handled; a block
of the Jacobi solver runs ahead of its neighbour; a Cholesky kernel overwrites a block that others read.

### What makes each component correct

- *Runtime*: a task is in one place at most; it starts after its dependencies, and only when it can
  be run; none is lost; the count is exact; workers stop when and only when nothing is left to do;
  tasks with an affinity stay with their worker; sleep loses no wakeup.
- *Mutex*: one owner, first in first out, nobody overtakes, nobody is forgotten, all are served.
- *ConditionVariable*: no lost notification, no write to a dead flag, no deadlock between the two
  mutexes, the mutex is held on return and the reason for returning is true.
- *Service*: run by one worker at a time, never lost from the queue, none starved, no run kept from
  ending.
- *Jacobi*: every block computes each iteration from its neighbours' previous one, whatever the order
  of tasks and messages; the residual is that of the whole grid.
- *Cholesky and the other examples*: what a task sees is what it would see if tasks ran one by one in
  the order they are added; the values they assert come out; they end.

## The modules

| module | what |
|---|---|
| `TaskGraph` | abstract: what TaskR promises its user, without workers, queues or counters |
| `Runtime` | the scheduler: runtime, tasks, task workers and their queues, and the application |
| `RuntimeRefinement` | `Runtime` implements `TaskGraph` |
| `MCRuntime` | instances of it for TLC |
| `RuntimeProofs` | theorems about `Runtime`: types and counts, and where tasks are |
| `SchedulerProofs` | theorems about `Runtime`: the count of tasks, none lost, when workers stop, and that it implements `TaskGraph` |
| `Services` | the scheduler with services: composed with `Runtime`; `MCServices` is its instance |
| `ServicesProofs` | theorems about `Services`, and that it leaves `Runtime` as it is |
| `FifoLock` | abstract: a lock that passes to those who wait in their order |
| `Mutex` | taskr::Mutex; `MCMutex` is its instance |
| `MutexProofs` | theorems about `Mutex`, its refinement of `FifoLock` among them |
| `ConditionVariable` | taskr::ConditionVariable over two `FifoLock`s; `MCConditionVariable` instances |
| `ConditionVariableProofs` | theorems about `ConditionVariable` |
| `ConditionVariableExamples` | the four programs of examples/conditionVariable over it; `MCConditionVariableExamples` |
| `Stencil` | abstract: blocks that advance in step with their neighbours |
| `Decomposition` | the arithmetic of `Grid::initialize`: processes, blocks, faces, neighbours, ghost cells |
| `DecompositionProofs` | lemmas about that arithmetic, all that the proofs about the solver know of it |
| `JacobiGrid` | the cells of a process and what its operations do to them, common to both versions |
| `Jacobi` | the solver written with TaskR: its tasks, dependencies, channels and main threads |
| `JacobiProofs` | theorems about `Jacobi`, its refinement of `Stencil` among them |
| `JacobiMPI` | the solver written with MPI; `MCJacobi` runs either |
| `JacobiMPIProofs` | theorems about the program of `MCJacobi`, that is of both versions |
| `Cholesky` | the kernels, and the dependencies that each version declares |
| `Programs` | the example programs as data: the calls of the main thread, the functions of the tasks |
| `Applications` | runs any of them on `TaskGraph` and `FifoLock`; `MCApplications` |

Components compose through the abstractions that the detailed modules are shown to implement:
`ConditionVariable` and `Applications` use `FifoLock`, which `Mutex` implements; `Applications` uses
`TaskGraph`, which `Runtime` implements; `Jacobi` takes TaskR at the same promise. `Services` is the
other kind of composition: it extends `Runtime` itself, because services and tasks share workers.

### Runtime

The granularity: each access to state that threads share is a step. `pc[w]` is where worker `w` is
in HiCR's main loop and, below it, in `taskWorkerLoop`:

| `pc` | code | next |
|---|---|---|
| `mainLoop` | HiCR's loop reads the worker's state | `EnterLoop`, `Sleep`, `Terminate` |
| `drainCommon`, `drainOwn` | runtime.hpp:541-555, forced termination | `DrainCommon`, `DrainOwn` |
| `pullOwn`, `pullCommon` | 574-578 | `PullOwn`, `PullCommon` |
| `poll` | 582-600, the pending operations of the pulled task | `PollSatisfied`, `PollUnsatisfied`, `PollDone` |
| `noTask` | `checkTaskWorkerSuspension`, 662 | `CheckSuspension` |
| `checkTermination` | 625 | `CheckTermination` |
| `leave` | 618-623, the count of active workers is decreased last | `LeaveLoop` |
| `run`, `exec`, `yielded` | HiCR runs the task; its function; it has suspended | `RunTask`, `Body`, `OnTaskSuspend` |
| `notify`, `resume` | `setFinishedTask`'s loop, 421-432 | `Notify`, `ResumeDependent`, `OnTaskFinish` |
| `asleep` | HiCR polls `checkResumeWorker`, 641 | `WakeUp` |
| `stopped` | the thread has ended | |

Variables are named after the members they stand for. `dependencyCount` and `outputDependencies`
are the two sides of a dependency; `notified` is how far the loop over the dependents has come on
each task. `activeTaskCount` is an integer where the code has a `size_t`: a negative value is the
wrap-around. `added` holds the tasks that have a callback map: HiCR skips callbacks of a task
without one.

Abstractions, each coarser or more permissive than the code:

- `resumeTask` (read the dependency count, push, `resume()` the queue's owner) is one step, and so
  is `addTask`; so are a forced termination's `pop` and the decrement that belongs to it. Initializing
  is one step and so is starting the workers.
- The inactivity timer is a free choice: a worker may fall asleep after any failure to find a task.
- `outputDependencies` is a set: the order in which dependents are visited is any.
- `resume()` acts only on a worker that is already suspended, which is what HiCR's worker does.
- The uninitialized `_forceTerminate` starts as FALSE: only `run()` precedes its first reading, and
  clears it.
- Services are left to module `Services`; `Runtime` by itself is the default configuration without.

**The application** is part of the model, because TaskR states few rules for its callers.
`Client` and `Body` contain a disciplined one: it builds the dependencies of a task before it adds
the task and before any of them may have ended (`Fresh`, `AddDependency`), adds tasks before the run
or from within tasks, dependents last (`MayAdd`), and finalizes when nothing is active. What
applications of the repository do beyond this is switched on by `ClientFeatures`: `awaitChildren`
(examples/fibonacci), `partialGraph` (examples/jacobi3d, whose last iteration leaves declared
dependents out), `waitForTask` (pending operations that another task satisfies; for safety `External` stands for them as
well, since it may be found satisfied or not at any time), `externalAdd`
(adding from outside during the run), `anyOrder` (no rule on the order at all: `addTask` "can be called
at any point"), `force` and `toggle` (the termination controls). An application that leaves tasks out
(`partialGraph`) does not force the termination, see the findings. `TaskGraph` allows the loss of tasks
only where `force` is allowed (`MayDrop`).

### Services

`point[e]` is where executor `e` - a service worker, or a task worker at `pullOwn` - is in its handling
of services, and `service[e]` the service it has popped:

| `point` | code | next |
|---|---|---|
| `checkTermination` | `serviceWorkerLoop` looks at the task count, runtime.hpp:506 | `CheckServiceTermination` |
| `pop` | takes the next service, if any | `PopService` |
| `tryRun` | `tryRunService`: is it enabled, has its interval passed? | `TryRunService` |
| `running` | the service's function; the interval counts from its end | `RunService` |
| `putBack` | pushes it again, whether it ran or not | `PutBack` |
| `over` | a task worker goes on to look for a task | `TaskWorkerStep` |

Time is whether a service is `rested`: running it makes it unrested, `IntervalPasses` rests it.
`Managed` names the services that the application enables, disables and sets intervals of;
`setInterval` is called between runs, the others at any time. A service is added once. `RunAll` and
`AwaitAll` start and join service workers along with the task workers.

### Mutex

Points `locking`, `trying`, `unlocking`, `handing` are inside `_internalMutex`. `Clear` and `Hand`
are the two writes of `unlock`; `Resume` is the pending operation of the waiting task, which reads
the owner without `_internalMutex`; `queued` is the gap between queueing and suspending. `Unlock`
reads the owner unguarded first, as the code does. `VisibleOwner` hides the moment between the two
writes from the abstract lock.

### ConditionVariable

A task's flag is listed under its name; when the call that owns the flag returns, an address still
in the list, or in a notifier's hand (`taken`), turns into `NoTask`, a dangling pointer. `Timeout` and
`Notified` are the two answers of the pending operation, with the order in which each overload looks
at time and flag. The calls with a predicate register again (`WaitAgain`) as the loop in the code does.
What happens on a write through a dangling address is left out: that there is one is the violation.
`value` is the data the caller's mutex protects; `condition[t]` is the predicate of a call, as the set of
values that satisfy it.

Notifiers write the flags under `_mutex`, but the pending operations read them without it. So each
write and each pop of a notification is a step: `notifyOne` pops (`TakeFirst`, 278-279) and then writes
(`SetTaken`, 280); `notifyAll` writes (`SetFirst`, 297-300) and then pops (`PopFirst`, 301), once per flag;
`EndNotify` releases `_mutex`. Tasks wake, take the caller's mutex back, return and time out at any point
in between. The flags are plain `bool`s, so that these reads and writes are a data race by the letter of
C++; the model takes them as atomic, which they are on the platforms TaskR runs on as long as the compiler
reads the flag in each poll. The list itself is used under `_mutex` only, and a step that appends to it
releases `_mutex` too (`Enlist`). The poll of `waitFor` is one step that may time out although its flag is
set: it looks at the flag first, and a notification may come before it looks at the time. That also allows
a timeout when the flag was set before the poll, which the code does not have.

`ConditionVariableExamples` gives the two tasks of each program their instructions (`Program`), one
waiting call, lock operation or notification each. A loop that notifies until it sees a value is two
instructions, the look at the value and the notification (`NotifyUntil`), with anything in between.
Timeouts that a program calls "forever" do not happen. The example `any` is the unrestricted application of `ConditionVariable`.

### The Jacobi solver

`Decomposition` is instantiated per geometry (processes and blocks per dimension, grid size,
iterations, processes launched) and gives types, neighbours, ranks and cells of each face;
`JacobiGrid!Initialized` keeps them as constants of the run. A cell's value says which cell and which
iteration it is the right value of; one computed from anything else is `Wrong`. `OnlyRightValues` is
therefore about every read of the run.

In `Jacobi`, a task without suspension is one step; `RaceFree` is what makes that sound: tasks that may
run at the same time touch no memory that one of them writes. `Dependencies` is what the loops of
jacobi3d.hpp:71-135 declare. The last iteration's Pack, Send, Receive and Unpack tasks are declared and
never added: TaskR runs them all the same when their dependencies end, without callbacks (`Added`), so a
Receive that finds nothing suspends for good (`LoseReceive`). A channel is identified by the memory
slots both ends build it from (`ProducerEnd`, `ConsumerEnd`, with the keys of grid.cpp); a wrong key is
a channel nobody reads. The residual channel holds one token per process, and the root reads a token
after it has popped it.

In `JacobiMPI`, a send completes before its receive (`Deliver`) or only with it (`Rendezvous`). Both
versions have `ImplementsStencil`: each step advances one block, after its neighbours, or none.

### Cholesky and the other programs

A kernel is the set of blocks it reads and the one it updates. `TaskRDependencies` is the dependency
grid of cholesky.hpp:39-59, which remembers writers only; `OmpSsDependencies` what `in` and `inout`
mean. `Programs` lists for each example the calls of its main thread and the functions of its tasks.
`Applications` executes them; `writers[d]` is who has written datum `d`, in order, so that
`SameAsSequential` compares every read and write with the sequential program.

## What is checked

| run | instance | shows |
|---|---|---|
| `runtime_graph` | 3 tasks, 2 workers, one suspension and one pending operation per task, incomplete graphs, forced termination, toggled finishing | `TypeOK`, `OnePlace`, `RunsOnlyResumable`, `NoTaskLost`, `CountIsAccurate`, `LeavesNoTaskBehind`, `RestsEmpty`, and that the scheduler implements `TaskGraph` |
| `runtime_await` | 2 tasks, 2 workers, all affinities, sleeping workers | every run ends, every task is served (`ServesTaskGraph` is the fair abstract specification), affinities are respected |
| `services` | 2 tasks, one task worker that runs services, one service worker, 2 services, forced termination, toggled finishing | `OneServicePlace`, `ServicesRest`, `CountIsAccurate` through all of it, every run ends in spite of services, no service starves |
| `mutex` | 4 tasks | exclusion, no barging, nobody forgotten, FIFO refinement, everybody served |
| `condvar_wait` | 3 tasks, all four calls, timeouts at any moment | sleeping tasks stay listed or in a notifier's hand, only timeouts leave an address that may be written to, no notification is lost but on a call that has timed out, no deadlock, honest returns |
| `condvar_timeout` | 2 tasks, all four calls, by any application and by the four example programs | a notified task goes on, the programs' waits end for the reason they expect (but for one), the programs end |
| `jacobi` | both versions, six decompositions of up to 27 cells, up to 3 processes, 2 or 3 iterations | right values, race freedom, complete residual, the refinement of `Stencil`, termination |
| `examples` | 13 programs; a matrix of 4 by 4 blocks | as if sequential, no dependency on a finished task, the asserted values, termination |
| `runtime_children`, `runtime_lateAdd`, `runtime_forced`, `condvar_dangling` | as small as the case allows | expected violations, see below |

**Bounds.** `MaxYields` and `MaxPending` bound how often a task suspends and how many operations it
adds per run of its function; `QueueCapacity` is the number of tasks, so that a full queue (push
spins) does not occur; `MaxListed` keeps tasks from entering a wait while that many flags are
listed. Why these are enough: the counter's race needs one task with two dependencies and two
workers; a double push needs one task and two pushers; a lost wakeup needs one sleeper and one
pusher; overtaking in a lock needs an owner, a waiter and a third; a stolen notification needs a
notifier, a task that has gone and one that waits; a service can be lost or run twice with two
executors, and starved with two services. The decompositions cover remote faces, local ones and both,
a process between two others, a domain that does not divide and a wrong number of processes (the
last two abort, as the code does). Three iterations show a block running ahead and the buffers used
again, since arrays alternate. Four blocks per dimension are the least with a `gemm` that follows a
`gemm` on the same block. Symmetry is declared for workers where no
affinity names one, and for tasks of the condition variable in a run without liveness.

**Fairness.** A worker is an operating-system thread: weak fairness of `Scheduler(w)`. A task's
function ends or suspends: weak fairness of `Suspend(w) \/ Finish(w)`. The main thread calls
`await`. An operation that can be satisfied is found satisfied in the end, though it may be polled
in vain in between: strong fairness of `PollSatisfied` per task. For the locks: a task that runs goes
on (weak fairness of `Step`), and one that has the lock gives it up (strong fairness of `Unlock`,
since the internal `std::mutex` it needs may be taken by others again and again). An executor of
services goes on (weak fairness of `ServiceStep`), service functions end, and time passes
(`IntervalPasses`). In the examples of the condition variable a deadline, which is fixed when the wait
begins (conditionVariable.hpp:147), is found passed in the end: strong fairness of `DoTimeout`, since a
task may be polled at any time in between. The Jacobi and the example programs are finite: every
behaviour that does not stop ends, so weak fairness of the whole next-state relation suffices; it
stands for TaskR's promise that what may start is started, which `ServesTaskGraph` shows.

**Deadlock** is checked in the runtime's passing runs, the services' and the mutex's. Programs that end
(`jacobi`, `examples`) may stop, and `Terminates` and `ProgramsEnd` say that they stop only there. The
condition variable's runs say `CHECK_DEADLOCK FALSE`: all tasks may be waiting for a notification, and `NoLockDeadlock` says
that nothing else stops them. The violation runs use applications that can get stuck.

### Findings

Each is a counterexample of a run, found while the code was being modelled.

1. `runtime_children` / `NotQueuedWhileRunning`. A task that depends on children it has just added
   (examples/fibonacci) is pushed when the last child ends, also if it has not reached its
   `suspend()` yet; a second worker may pull and run it while it runs. `resumeTask` checks the
   dependency count only.
2. `runtime_lateAdd` / `OnePlace`. With dependents added after their dependencies have ended, which
   the documentation of `addTask` allows, the notification pushes the task and `addTask` pushes it again.
3. `runtime_forced` / `ForceTerminates`. A forced termination drops queued tasks without telling
   their dependents, which stay counted: no worker terminates.
4. `condvar_dangling` / `NoDeadFlagWritten`. `waitFor` that times out leaves the address of a dead local
   variable in the list; the next notification writes to it.

What came up besides, in reading or in traces, and has no run of its own:

- `notifyOne` may take the flag of a call that has timed out (conditionVariable.hpp:278), whether that call
  has returned (finding 4) or not yet, and wakes nobody, while a task that waits sleeps on:
  `EveryNotificationArrives` has to except such flags. `wait` without predicate checks too late that its
  caller owns the mutex (66), and `getWaitingTaskCount` reads the list unguarded (312).
- `addTask` of a task with an affinity before `initialize()` throws after counting it. All workers can
  fall asleep in spite of `minimumActiveTaskWorkers`, because each compares the count before it leaves
  it. A worker's own queue starves the common one while a task in it polls in vain: `AwaitReturns` fails
  in `runtime_await` with `waitForTask`. A forced termination drops tasks that were pushed but never
  added, too, and counts them as ended (runtime.hpp:547), so that the counter wraps: `CountIsAccurate`
  fails with `partialGraph` and `force` if `ForceTermination` is not guarded. The configuration
  key tested at runtime.hpp:187 is not the key read.
- A task of an incomplete graph that was never added but is bound to a worker is pushed to that worker's
  own queue when its dependencies end (runtime.hpp:430), which nobody counts: the worker may have
  found its queue empty and gone on to terminate (618-639), and the task stays there. `RestsEmpty` is
  false with `partialGraph` and affinities; its proof needs one of them absent.
- A task added from outside, or by a service, when the count has reached zero meets workers that have
  terminated, and service workers that see a task left: `await` does not return. `disable()` may return
  while the service runs.
- examples/conditionVariable: `WaitCondition` hangs if its second thread waits before the first sets the
  value (line 44 skips the notifications, the value being 1 already; `ExamplesEnd` leaves it out). In `WaitFor`,
  thread 2 finds the value not set (84), thread 1 sets it and starts its second wait, and then thread 2
  notifies: the wait that is to time out is notified, and the program exits with its own error (67-71).
  `WaitsEndAsExpected` fails in `condvar_timeout` if this wait is not excepted. `WaitForCondition` notifies after a timeout, the situation of finding 4.
- examples/jacobi3d: the README speaks of a 13-point stencil, the code computes 7 points with
  `gDepth` always 1; `Grid::reset` writes ghost cells of neighbouring blocks concurrently, harmless as
  they are overwritten before they are read (`OnlyRightValues`); each local block builds a residual
  channel; reading a residual token after its pop is safe only because the channel has a slot per process
  (`ResidualIsComplete` fails with one slot).
- examples/cholesky: the parallel loop of sequential/init.hpp changes one seed; a dimension that the
  number of blocks does not divide writes out of bounds in `convertToBlockMatrix`; `choleskyDriver`
  returns without finalizing if the result is not checked.

## What is proved

`MutexProofs`, for any set of tasks, from `NoTaskAssumption` (no task is the null task):
`TypeCorrect`, `MutualExclusionHolds`, `NoBarging`, `NobodyForgotten`, and `Refinement`, that `Mutex`
implements `FifoLock`. None of the properties is inductive: mutual exclusion needs that the point of
a task agrees with `_ownerTask` (`OwnerHasLock`) and that the guarded sections exclude each other
(`GuardHeld`), and handing over keeps that only if the queue holds waiting tasks, once each and never
the owner (`QueueWaits`). `Inv` is their conjunction; one lemma per action shows that it is kept.
The refinement takes one step of a task at a time: a lock taken is `Obtain`, a task queued is `Wait`,
`Hand` is `Release`, everything else stutters.

`RuntimeProofs`, for any finite set of tasks, any set of workers and any application, from
`TaskAssumption`, `ConfigAssumption` and `NameAssumption` of `Runtime` (tasks are finitely many
numbers, the null task and the outside caller are no tasks, the common queue is no worker, the
configuration's values have their types):
`TypeCorrect`. `TypeOK` says that a dependency count is a natural number, which `setFinishedTask`
keeps by decreasing it without looking. So the invariant `TypeInv` adds that the count of a task is
the cardinality of its open dependencies, those that have yet to report to it
(`DependenciesCounted`), and that a task reports only to its dependents (`ReportsToDependents`): a
count that is decreased was positive.

In the same module, from the same assumptions and for applications that satisfy `OrderlyClient`
(neither `anyOrder` nor `awaitChildren` in `ClientFeatures`; with either the properties are false,
findings 1 and 2): `OnePlaceHolds` and `RunsOnlyResumableHolds`. `OnePlace` is split into its places
(`QueuesApart`, `WorkersApart`, `QueuedOrHeld`). What makes it inductive is `UntouchedBefore`: a task
that is not added, or has an open dependency, is in no place at all and still ready. Hence a push by
the last notification, and one by `addTask`, meet a task that nobody has; every other push comes from
the worker that holds the task. `StateFits` relates the HiCR state of a task to its place and the
point of its worker, `PointFits` says at which points a worker has a task. One lemma per operation on
queues (`QueuesPush`, `QueuesPop`, ...) says what it does to the places, and one per group of actions
that the invariant is kept.

`SchedulerProofs` builds on it, for the same applications.
- `CountIsAccurateHolds`. A task is counted by `addTask` and discounted by the worker that has reported
  its end or dropped it, so the count is right only if none is discounted that was not counted: what a
  worker reports is an added task's end (`NotifiersEnded`), and what a forced termination finds in the
  queues was added (`DroppedIsCounted`), since every dependent of an added task is added by then
  (`Closed`). `CountInv` is their conjunction. Each step keeps the active tasks, starts one or ends one.
- `LeavesNoTaskBehindHolds`, for applications that do not add from outside during the run
  (`externalAdd`; with it the property is false, see the findings). A worker terminates at a count of
  zero, hence with no active task; a task that adds others is active, so nobody adds any from then on.
- `AffinityRespectedHolds`. A queue holds tasks of its own affinity only, and a worker pulls from its own
  queue and the common one; a task changes its affinity only while it is executed.
- `NoTaskLostUnlessDestroyed`, for applications that resume what suspends (`ResumeOnSuspend`, without
  which the application keeps suspended tasks itself) and that finalize at rest (`FinalizesAtRest`):
  `finalize()` destroys the workers' own queues, and may be called while tasks are in them. `NoTaskLostHolds`
  derives the latter for a disciplined application (`ClientFeatures = {}`), and for one without affinities.
- `RestsEmptyHolds`, with neither `externalAdd` nor both affinities and incomplete graphs (false with
  both, see above). A task that nobody counts is the difficulty: `SomebodyLooks` says that as long as one
  waits in the common queue some worker is at a point from which it looks there before it asks whether
  it may terminate. It takes `WorkerFits`, which relates the HiCR state of a worker to its point, and
  `ReadyIsFresh`: a task that was never added has no pending operations and is not requeued.

Its last part is `RuntimeImplementsTaskGraph`, for the applications of `LeavesNoTaskBehindHolds`.
`RunTask`, `Suspend`, `Finish` are `Start`, `Yield`, `Finish` of the task graph, a dropped task is
`Drop`, `addTask`, `addDependency`, `run` and `await` are themselves, all else stutters. `Start` needs
that a task held by a worker has no open dependency (`OnePlaceHolds`'s invariant), `Await` that all added tasks
have ended (`LeavesNoTaskBehind`) and that no task runs that is in nobody's hands (`RunningIsHeld`).

`ServicesProofs`, for any tasks, workers and services, from `ServiceAssumption` (service workers are no
task workers, the null service is none) and the assumptions of `Runtime`. `SchedulerUndisturbed`: a step
of `ServicesNext` is a step of `Next` or leaves the scheduler alone, so whatever is proved of `Runtime`
holds with services; `OnePlaceWithServices`, `CountWithServices` and `TaskGraphWithServices` are such
consequences. `OneServicePlaceHolds` and
`ServicesRestHolds` follow from the invariant `ServiceInv`: services in the queue are distinct and
different from those that executors have (`ServicesApart`), the known services are exactly these
(`KnownServices`), an executor has a service at the points between popping and putting back only, and a
task worker only at `pullOwn` (`ServiceFits`), and nobody is at work while TaskR does not run (`NobodyAtWork`).
`ServiceFits` is what a task worker needs to end, or to run a task, without a service in its hands;
`NobodyAtWork` is what `run` needs to start executors afresh.

`JacobiProofs`, for any set of launches, that is any grid, numbers of processes and blocks, ghost depth and
number of iterations, also launches that the grid is not divisible by or that have too few processes, which
abort. It is about `Spec` of `Jacobi`, the solver on TaskR, with TaskR at the promise of `TaskGraph`. The
assumptions are `GhostDepthAssumption` and `GeometryAssumption` (types), and `ThicknessAssumption`: no block is
thinner than the ghost cells around it, which with `gDepth = 1`, all the drivers use, follows from
divisibility. With thinner blocks the code is wrong: a layer would reach into the block behind the neighbour.

The geometry is in `DecompositionProofs`. What the proofs need of it: blocks share no cell and fill their
process, processes share no cell of the domain and fill it (`GlobalCell` is injective on them); a face is
remote only at the edge of a process, and a neighbour's neighbour behind the opposite face is the block
itself; a cell behind a face is inside the neighbour, or in the ghost layer that the message of the face
fills, or beyond the domain; the layer a message is packed from is, cell by cell, where it is unpacked to; a
cell of the stencil of an inside cell is inside, in the layer of exactly one face, or outside.

The invariant of the solver has four parts, each inductive together with those before it:
- `IInv`, on the order of tasks: a task that has started has its dependencies, and itself in all earlier
  iterations, behind it (`InOrder`). `JacobiTasksAreRaceFree` follows: for each two kinds of tasks and each
  relation of their blocks, the difference of iterations at which they could run together is excluded by a
  chain of dependencies (a Pack and the Compute after the next, by way of Send), or their cells are apart.
  As the property of the run is about both versions, so is the theorem; it excepts the MPI version, which has
  no tasks.
- `Right`, on the data: which tasks of a phase have started (`PhasesOK`), how far tasks of several steps are
  (`StepsOK`), zeros around the domain (`Surrounded`, except while a block resets the ghost cells of another),
  the arrays (`ArraysRight`: what Compute or Unpack writes for iteration n stays until the same task writes
  the same array, at n + 2), the pack buffers (`PacksRight`), the channels, each a window of the messages of
  its face in order (`ChannelsRight`), and the tokens received (`TokensRight`). `JacobiOnlyRightValues` is a
  part of it. The difficult step is Unpack: that what it takes from its channel is the message of its
  iteration, from the neighbour behind that face.
- `Counted`: how many iterations each block has computed, and that none of its cells is further. With it a
  Compute is a step of `Stencil` and all else stutters, `JacobiImplementsStencil`. That a neighbour in the same
  process has come far enough is a dependency; for one in another process it is the chain from the block's
  Compute back to Unpack, Receive, the neighbour's Send, its Pack and its Compute, across the channel.
- `Accounted`: where the residual is. Residual tasks of a process add up disjoint sets of cells
  (`SumsRight`), processes push their sums to slots that are never written twice, and the root has added those
  it has received (`GatherRight`; the order in which processes come is any, so it is existential). A slot
  that the root frees before it reads it is not overwritten because there is one per process.
  `JacobiResidualIsComplete`: when the root is done, its sum has each cell of the domain once, with the value
  after the last iteration.

`JacobiMPIProofs` is about `MCSpec`, the specification that the `jacobi` run checks: the solver on TaskR or,
with one block in each process, the one on MPI. For any launches, from the same assumptions:
`SolverOnlyRightValues`, `SolverResidualIsComplete`, `SolverImplementsStencil`, and `SolverStaysInStep`, that
neighbouring blocks are at most one iteration apart, which is why two arrays suffice (it follows from
`Stencil` alone). The TaskR half is that of `JacobiProofs`; the invariant of the MPI half is `MPIInv`:
- `StagesOK`: requests are open only while a process waits, and only for its remote faces; a process is out of
  the loop exactly after the last iteration.
- `MailRight`: what is between two processes on one tag is the window of messages from the first that the
  receiver has not taken to the last that the sender has handed over. Both numbers are the process's
  iteration, plus one if the request of this iteration is complete (`Completed`). It is what tells messages
  of different iterations apart, which have the same source and tag: the oldest is that of the receiver's
  iteration, and one that goes straight from buffer to buffer is too, since then nothing is on the way and
  both are in the same iteration.
- `BuffersRight`: a send buffer keeps the message of its iteration until all requests of its process are
  complete, and so does a receive buffer from the completion of its receive.
- `CellsRight`: own cells, ghost cells and the zeros around the domain are those that the next iteration
  reads; while a process waits, the ghosts of the array just written are still missing.
- `CellsInReach`: no cell is further than its block, so that a sweep is a step of `Stencil` and all else
  stutters. A neighbour has come far enough because its message has been received.
- `SumsGiven`: each process out of the loop has given the sum of its own cells, and `MPI_Reduce` adds
  disjoint parts that fill the domain.

`ConditionVariableProofs`, for any set of tasks, values and predicates, any choice of waiting calls and any
`MaxListed`, from `TaskAssumption`, `BoundAssumption` and `ValueAssumption`: `SleepersAreListedHolds`,
`NoLockDeadlockHolds`, `OnlyTimeoutsDangleHolds`, `EveryNotificationArrivesHolds` and
`ReturnsAsPromisedHolds`. One invariant gives them all (`Agreement`):
- `CallersMutex` and `InnerMutex` say for each of the two mutexes who claims it, that is owns it or waits
  for it, by the points of the tasks, and that a lock that somebody claims has an owner (`InOrder`). A
  request adds its task to the claimants, a release takes its task out (`RequestClaims`,
  `ReleaseClaims`). Absence of deadlock follows: follow a task to the owner of what it waits for, and
  that one can go on, since who works on the list holds `_mutex` last, and who sleeps holds nothing.
- `FlagsListed`: a flag is in the list at most once, only between registration and return, and is there
  unless it has been set or is about to be; one that is set and still there belongs to a call that timed
  out, or is the first and in the hand of a `notifyAll` that pops it next. Registering again needs that
  the flag is gone: after a timeout `waitFor` with a predicate does not register again, and after a
  notification it waits for `_mutex`, which the notifier gives up only after the pop. `InHand` says the
  same of the address that `notifyOne` has popped and not written to. Both need that one task at most is
  at work on the list, which `InnerMutex` gives. `CallsAgree` relates calls and timeouts to the points.

The properties of steps hold of `Spec`; the example programs of the `condvar_timeout` run also set the value
outside of the mutex, so for them they are model-checked.

**Only model-checked**: liveness under fairness (`AwaitReturns`, `ServesTaskGraph`, `EndsInSpiteOfServices`,
`ServicesAreServed`, `EveryWaiterGetsLock`, `NotifiedTaskGoesOn`, `ExamplesEnd`, `Terminates`, `ProgramsEnd`),
which with `ENABLED` is out of the prover's reach here; and the properties of `Applications` (`SameAsSequential`, `NoCallOnFinishedTask`, `AssertionsHold`) and
`WaitsEndAsExpected`. These are about given programs, sequences of calls that are computed over their
parameters by folds: what such a definition computes for every parameter takes an induction over data. TLC
explores each of those programs completely. `runtime_graph`'s properties hold for more applications than the
run has; the runs that expect violations show that the hypotheses of the theorems cannot be dropped.

## What is not modelled

- Time: timers are free choices, an interval has passed or not.
- Full queues: capacity is chosen so that `push` does not spin for long. (Full channels are modelled.)
- Services that call into TaskR.
- Instrumentation (TraCR), which only writes output; parsing of the configuration.
- `Function` and `HashSet`, which have no state of their own; the Python bindings, a constructor that
  picks a backend and one-to-one calls, and the Python examples, which repeat the C++ ones.
- The drivers of the examples (main functions that read arguments and pick resources) and printing;
  numerical contents: values are told apart by where and when they are computed. The Fibonacci
  example is the client feature `awaitChildren` of `Runtime`, since it is outside what `TaskGraph`
  promises.

## Plan

1. Done: `Runtime` with `TaskGraph`; `Mutex` with `FifoLock`; `ConditionVariable` and its examples;
   `Services`; the Jacobi solvers with `Stencil`; `Cholesky` and the example programs; the proofs above.
   Proved: the safety of `Mutex`, `Runtime`, `Services`, `ConditionVariable` and both Jacobi solvers, and the
   refinements of `FifoLock`, `TaskGraph` and `Stencil`.
2. Proofs: the safety of `ConditionVariable` for its example programs.
3. `BoundedQueue`: full queues, and who can be left spinning.
4. Mutex and Runtime composed: a task that waits for a lock in a worker's own queue while the owner
   of the lock waits in the common one.
5. Resource selection of `pytaskr` as a pure operator against its documentation.
