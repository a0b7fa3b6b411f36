SPECIFICATION Spec
CONSTANTS
  NoTask = NoTask
  Repetitions = 2
  Iterations = 2
  BranchCount = 2
  TaskCount = 3
  Suspends = 2
  Concurrent = 3
  WorkerCount = 5
  WorkTaskCount = 2
  Dimension = 4
INVARIANTS
  SameAsSequential
  NoCallOnFinishedTask
  AssertionsHold
PROPERTIES
  ProgramsEnd
CHECK_DEADLOCK FALSE
