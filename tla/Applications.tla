---------------------------- MODULE Applications ----------------------------
(***************************************************************************)
(* The example programs run on what TaskR promises: TaskGraph for tasks    *)
(* and FifoLock for the mutex.  The main thread makes its calls in order,  *)
(* tasks go through their functions, and data remember who wrote them.     *)
(***************************************************************************)
EXTENDS Programs

CONSTANT NoTask

VARIABLES
  program,   \* the example at hand
  pc,        \* the number of the main thread's next call
  step,      \* how many operations of its function each task has done
  affinity,  \* the worker that each task is bound to
  writers,   \* per datum, the positions in the program of those who wrote it
  value,     \* the counter of the mutex example
  register,  \* what each task has loaded of it
  owner, queue,                            \* of the mutex
  running, added, dependencies, status     \* of the task graph

graph == <<running, added, dependencies, status>>
counter == <<value, register, owner, queue>>
vars == <<program, pc, step, affinity, writers, counter, graph>>

Task == UNION {DOMAIN ProgramOf[p].tasks : p \in DOMAIN ProgramOf}

Graph == INSTANCE TaskGraph WITH MayDrop <- FALSE
Lock  == INSTANCE FifoLock

Calls == ProgramOf[program].calls
Tasks == ProgramOf[program].tasks
Body(t) == Tasks[t].body

Data(p) ==
  (UNION {ProgramOf[p].tasks[t].writes : t \in DOMAIN ProgramOf[p].tasks})
  \cup UNION {ProgramOf[p].calls[n].writes :
                n \in {m \in DOMAIN ProgramOf[p].calls : ProgramOf[p].calls[m].op = "compute"}}

Init ==
  /\ program \in DOMAIN ProgramOf
  /\ pc = 1
  /\ step = [t \in DOMAIN Tasks |-> 0]
  /\ affinity = [t \in DOMAIN Tasks |-> Tasks[t].affinity]
  /\ writers = [d \in Data(program) |-> <<>>]
  /\ value = 0
  /\ register = [t \in DOMAIN Tasks |-> 0]
  /\ Graph!Init /\ Lock!Init

-----------------------------------------------------------------------------
(* The main thread.                                                        *)

Ended == pc > Len(Calls)
NextCall(op) == ~Ended /\ Calls[pc].op = op /\ pc' = pc + 1

AddDependency ==
  /\ NextCall("depend")
  /\ Graph!Depend(Calls[pc].task, Calls[pc].on)
  /\ UNCHANGED <<program, step, affinity, writers, counter>>

AddTask ==
  /\ NextCall("add")
  /\ Graph!Add(Calls[pc].task)
  /\ UNCHANGED <<program, step, affinity, writers, counter>>

RunTaskR ==
  /\ NextCall("run")
  /\ Graph!Run
  /\ UNCHANGED <<program, step, affinity, writers, counter>>

AwaitTaskR ==
  /\ NextCall("await")
  /\ Graph!Await
  /\ UNCHANGED <<program, step, affinity, writers, counter>>

Write(data, position) ==
  writers' = [d \in DOMAIN writers |->
                IF d \in data THEN Append(writers[d], position) ELSE writers[d]]

ComputeInMain ==
  /\ NextCall("compute")
  /\ Write(Calls[pc].writes, pc)
  /\ UNCHANGED <<program, step, affinity, counter, graph>>

-----------------------------------------------------------------------------
(* The tasks.                                                              *)

\* A task that waits for the mutex is resumed with it.  OmpSs-2 takes a task and
\* its dependencies at once.
Start(t) ==
  /\ program = "ompss" => t \in added
  /\ \A n \in DOMAIN queue : queue[n] # t
  /\ Graph!Start(t)
  /\ UNCHANGED <<program, pc, step, affinity, writers, counter>>

NextOperation(t, op) ==
  /\ status[t] = "running" /\ step[t] < Len(Body(t))
  /\ Body(t)[step[t] + 1] = op
  /\ step' = [step EXCEPT ![t] = @ + 1]

SuspendTask(t) ==
  /\ NextOperation(t, "suspend")
  /\ Graph!Yield(t)
  /\ UNCHANGED <<program, pc, affinity, writers, counter>>

SetWorkerAffinity(t) ==
  /\ NextOperation(t, "next worker")
  /\ affinity' = [affinity EXCEPT ![t] = @ + 1]
  /\ UNCHANGED <<program, pc, writers, counter, graph>>

LockMutex(t) ==
  /\ NextOperation(t, "lock")
  /\ \/ Lock!Obtain(t) /\ UNCHANGED graph
     \/ Lock!Wait(t) /\ Graph!Yield(t)
  /\ UNCHANGED <<program, pc, affinity, writers, value, register>>

UnlockMutex(t) ==
  /\ NextOperation(t, "unlock")
  /\ Lock!Release(t)
  /\ UNCHANGED <<program, pc, affinity, writers, value, register, graph>>

\* value++ reads and writes.
Load(t) ==
  /\ NextOperation(t, "load")
  /\ register' = [register EXCEPT ![t] = value]
  /\ UNCHANGED <<program, pc, affinity, writers, value, owner, queue, graph>>

Store(t) ==
  /\ NextOperation(t, "store")
  /\ value' = register[t] + 1
  /\ UNCHANGED <<program, pc, affinity, writers, register, owner, queue, graph>>

\* A task stands in the program where it is added.
Position(t) == CHOOSE n \in DOMAIN Calls : Calls[n].op = "add" /\ Calls[n].task = t

Finish(t) ==
  /\ step[t] = Len(Body(t))
  /\ Graph!Finish(t)
  /\ Write(Tasks[t].writes, Position(t))
  /\ UNCHANGED <<program, pc, step, affinity, counter>>

Next ==
  \/ AddDependency \/ AddTask \/ RunTaskR \/ AwaitTaskR \/ ComputeInMain
  \/ \E t \in DOMAIN Tasks :
       \/ Start(t) \/ Finish(t) \/ SuspendTask(t) \/ SetWorkerAffinity(t)
       \/ LockMutex(t) \/ UnlockMutex(t) \/ Load(t) \/ Store(t)

\* TaskR starts what may start, and threads keep running.
Spec == Init /\ [][Next]_vars /\ WF_vars(Next)

-----------------------------------------------------------------------------
(* Properties.                                                             *)

\* Whatever a task or the main thread reads or writes is, for as long as it
\* runs, what the program would give it if tasks ran one by one in the order
\* they are added: TaskR's and OmpSs's Cholesky compute what the sequential
\* version computes, and no two tasks race on a row, an element or a block.
AccessesAt(n) ==
  IF Calls[n].op = "add" THEN Tasks[Calls[n].task].reads \cup Tasks[Calls[n].task].writes
  ELSE IF Calls[n].op = "compute" THEN Calls[n].reads \cup Calls[n].writes ELSE {}
WritesAt(n) ==
  IF Calls[n].op = "add" THEN Tasks[Calls[n].task].writes
  ELSE IF Calls[n].op = "compute" THEN Calls[n].writes ELSE {}
InOrder(d, n) == SelectSeq([m \in 1..(n - 1) |-> m], LAMBDA m : d \in WritesAt(m))

Active(n) ==
  \/ Calls[n].op = "add" /\ status[Calls[n].task] = "running"
  \/ n = pc /\ Calls[n].op = "compute"
SameAsSequential ==
  \A n \in DOMAIN Calls : Active(n) =>
    \A d \in AccessesAt(n) : writers[d] = InOrder(d, n)

\* A program never declares a dependency on a task that has finished: TaskR has
\* told its dependents and the program has deleted it.  (OmpSs-2 keeps track.)
NoCallOnFinishedTask ==
  ~Ended /\ program # "ompss" /\ Calls[pc].op = "depend" => status[Calls[pc].on] # "finished"

\* The checks that the programs make themselves: the counter of the mutex
\* example at its end, and that both workers a task wants exist.
AssertionsHold ==
  /\ program = "mutex" /\ Ended => value = Concurrent * Iterations
  /\ \A t \in DOMAIN Tasks : affinity[t] # Anywhere => affinity[t] \in 0..(WorkerCount - 1)

\* Every program comes to its end, with each of its tasks run to its end.
ProgramsEnd == <>(Ended /\ \A t \in DOMAIN Tasks : status[t] = "finished")

=============================================================================
