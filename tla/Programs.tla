------------------------------ MODULE Programs ------------------------------
(***************************************************************************)
(* The example programs as what they ask of TaskR: the calls of the main   *)
(* thread in their order, and per task what its function does.  Tasks have *)
(* the numbers that the programs give them.                                *)
(***************************************************************************)
EXTENDS Cholesky

CONSTANTS
  Repetitions,   \* REPETITIONS of abcTasks
  Iterations,    \* ITERATIONS of abcTasks, the jobs, and the mutex example
  BranchCount, TaskCount,   \* arguments of manyParallel and suspend
  Suspends,      \* NSUSPENDS
  Concurrent,    \* _CONCURRENT_TASKS, and the tasks of other flat examples
  WorkerCount,   \* argument of workerSpecific
  WorkTaskCount, \* argument of energySaver
  Dimension      \* of the matrix to factorize, in blocks of one element

Depend(t, u) == [op |-> "depend", task |-> t, on |-> u]
Add(t)       == [op |-> "add", task |-> t]
Run          == [op |-> "run"]
Await        == [op |-> "await"]
\* The main thread itself reads and writes data.
Compute(reads, writes) == [op |-> "compute", reads |-> reads, writes |-> writes]

\* A task's function, operation by operation, its affinity and its data.
Anywhere == 0 - 1
Does(body)       == [body |-> body, affinity |-> Anywhere, reads |-> {}, writes |-> {}]
On(worker, body) == [Does(body) EXCEPT !.affinity = worker]
Updates(reads, writes) == [Does(<<>>) EXCEPT !.reads = reads, !.writes = writes]

Same(n, task) == [t \in 0..(n - 1) |-> task]
Program(calls, tasks) == [calls |-> calls, tasks |-> tasks]

AddAll(n) == For(0, n - 1, LAMBDA i : <<Add(i)>>)
Flat(n, task) == Program(AddAll(n) \o <<Run, Await>>, Same(n, task))

-----------------------------------------------------------------------------
(* Independent tasks.                                                      *)

Simple == Flat(1, Does(<<>>))
ResourceList == Flat(Concurrent, Does(<<>>))

\* An operation on a clock, which will have passed when the task is resumed.
PendingOperation == Flat(Concurrent, Does(<<"suspend">>))

\* As if the task's function did not take the mutex.
Unprotected == <<"load", "store">>
Increment == <<"lock", "load", "store", "unlock">>
Mutex == Flat(Concurrent, Does(For(1, Iterations, LAMBDA i : Increment)))

\* Even workers first; then each task moves to the next one.
WorkerSpecific ==
  LET half == WorkerCount \div 2 IN
  Program(AddAll(half) \o <<Run, Await>>,
          [i \in 0..(half - 1) |-> On(2 * i, <<"next worker", "suspend">>)])

-----------------------------------------------------------------------------
(* Chains.                                                                 *)

\* As if the pointer to the previous task were declared outside of the loop.
LinkAlways(t, i) == IF t > 0 THEN <<Depend(t, t - 1)>> ELSE <<>>
LinkToPrevious(t, i) == IF i > 0 THEN <<Depend(t, t - 1)>> ELSE <<>>

AbcTasks ==
  LET Abc(a, i) == LinkToPrevious(a, i) \o
        <<Depend(a + 1, a), Depend(a + 2, a + 1), Add(a), Add(a + 1), Add(a + 2)>>
      Repetition(r) ==
        For(0, Iterations - 1, LAMBDA i : Abc(r * Iterations * 3 + i * 3, i)) \o <<Run, Await>>
  IN Program(For(0, Repetitions - 1, LAMBDA r : Repetition(r)),
             Same(Repetitions * Iterations * 3, Does(<<>>)))

ChainsOf(task) ==
  LET Branch(b) == For(0, TaskCount - 1, LAMBDA i :
                       LinkToPrevious(b * TaskCount + i, i) \o <<Add(b * TaskCount + i)>>)
  IN Program(For(0, BranchCount - 1, LAMBDA b : Branch(b)) \o <<Run, Await>>,
             Same(BranchCount * TaskCount, task))
ManyParallel == ChainsOf(Does(<<>>))
Suspend      == ChainsOf(Does([i \in 1..Suspends |-> "suspend"]))

\* A job links all its tasks before it adds them; main() runs two jobs at once.
\* As if a task A waited for its own task C.
OwnLast(i) == i * 3 + 2
LastBefore(i) == i * 3 - 1
Job(id) ==
  LET base == 3 * Iterations * id IN
  For(0, Iterations - 1, LAMBDA i : <<Depend(base + i * 3 + 2, base + i * 3 + 1)>>)
  \o For(0, Iterations - 1, LAMBDA i : <<Depend(base + i * 3 + 1, base + i * 3)>>)
  \o For(1, Iterations - 1, LAMBDA i : <<Depend(base + i * 3, base + LastBefore(i))>>)
  \o For(0, 3 * Iterations - 1, LAMBDA k : <<Add(base + k)>>)
MultiJob == Program(Job(0) \o Job(1) \o <<Run, Await>>,
                    Same(6 * Iterations, Does(<<>>)))

\* Three batches of work with a task to wait for between them; the two waiting
\* tasks are added last.
EnergySaver ==
  LET w == WorkTaskCount
      wait1 == 0
      wait2 == 2 * w + 1 IN
  Program(
    For(0, w - 1, LAMBDA i : <<Depend(wait1, i + 1), Add(i + 1)>>)
    \o For(0, w - 1, LAMBDA i : <<Depend(w + i + 1, wait1), Depend(wait2, w + i + 1), Add(w + i + 1)>>)
    \o For(0, w - 1, LAMBDA i : <<Depend(2 * w + i + 2, wait2), Add(2 * w + i + 2)>>)
    \o <<Add(wait1), Add(wait2), Run, Await>>,
    Same(3 * w + 2, Does(<<>>)))

-----------------------------------------------------------------------------
(* The factorization.  Data are the elements of the matrix and its blocks. *)

Index == 0..(Dimension - 1)
Element(r, c) == <<"matrix", r, c>>
Block(b) == <<"block", b[1], b[2]>>
Elements == {Element(r, c) : r \in Index, c \in Index}
BlockData == {Block(b) : b \in Index \X Index}

\* initMatrix: a task fills a row; another makes row and column symmetric.
Row(i) == Updates({}, {Element(i, c) : c \in Index})
Symmetric(i) ==
  LET pairs == {Element(i, j) : j \in 0..i} \cup {Element(j, i) : j \in 0..i}
  IN Updates(pairs, pairs)
InitTask(t) == IF t < Dimension THEN Row(t) ELSE Symmetric(t - Dimension)
Diagonal == {Element(i, i) : i \in Index}
Phase(first) == [i \in 1..Dimension |-> Add(first + i - 1)]

InitMatrix ==
  Phase(0) \o <<Run, Await>> \o Phase(Dimension) \o <<Run, Await, Compute(Diagonal, Diagonal)>>
ReadMatrixFromFile == <<Compute({}, Elements)>>

Kernels == Factorization(Dimension)
KernelTask(n) == Updates({Block(b) : b \in Blocks(Kernels[n])}, {Block(Kernels[n].inout)})

TaskRGraph == [n \in DOMAIN Kernels |-> TaskRDependencies(Kernels, n)]
OmpSsGraph == [n \in DOMAIN Kernels |-> OmpSsDependencies(Kernels, n)]

\* A task per kernel, after those that its dependencies name.
Submit(first, dependencies) ==
  For(1, Len(Kernels), LAMBDA n :
    LET on == SetToSeq(dependencies[n]) IN
    [m \in 1..Len(on) |-> Depend(first + n - 1, first + on[m] - 1)] \o <<Add(first + n - 1)>>)

\* choleskyDriver: fill the matrix, cut it into blocks, factorize, and put it
\* together again if the result is to be checked.
CutIntoBlocks == <<Compute(Elements, BlockData)>>
CheckResult   == <<Compute(BlockData, Elements), Compute(Elements, {})>>

CholeskyTasks(first) ==
  [t \in 0..(first + Len(Kernels) - 1) |->
     IF t < first THEN InitTask(t) ELSE KernelTask(t - first + 1)]

CholeskyFromFile ==
  Program(ReadMatrixFromFile \o CutIntoBlocks \o Submit(0, TaskRGraph)
          \o <<Run, Await>> \o CheckResult, CholeskyTasks(0))
CholeskyRandom ==
  Program(InitMatrix \o CutIntoBlocks \o Submit(2 * Dimension, TaskRGraph)
          \o <<Run, Await>>, CholeskyTasks(2 * Dimension))

\* OmpSs-2 starts tasks as they are submitted.
CholeskyOmpSs ==
  Program(<<Run>> \o Phase(0) \o <<Await, Run>> \o Phase(Dimension) \o <<Await>>
          \o <<Compute(Diagonal, Diagonal)>> \o CutIntoBlocks
          \o <<Run>> \o Submit(2 * Dimension, OmpSsGraph) \o <<Await>> \o CheckResult,
          CholeskyTasks(2 * Dimension))

ProgramOf ==
  [simple |-> Simple, resourceList |-> ResourceList, pendingOperation |-> PendingOperation,
   mutex |-> Mutex, workerSpecific |-> WorkerSpecific, abcTasks |-> AbcTasks,
   manyParallel |-> ManyParallel, suspend |-> Suspend, multiJob |-> MultiJob,
   energySaver |-> EnergySaver, cholesky |-> CholeskyRandom,
   choleskyFromFile |-> CholeskyFromFile, ompss |-> CholeskyOmpSs]

=============================================================================
