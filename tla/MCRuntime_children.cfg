SPECIFICATION Spec
CONSTANTS
  w1 = w1
  w2 = w2
  Worker = {w1, w2}
  Task <- ThreeTasks
  Common = Common
  NoTask = NoTask
  External = External
  Affinities <- CommonOnly
  MinimumActiveTaskWorkers = 1
  InactivitySuspends = FALSE
  ResumeOnSuspend = FALSE
  QueueCapacity = 3
  MaxYields = 1
  MaxPending = 0
  ClientFeatures = {"awaitChildren"}
SYMMETRY WorkerSymmetry
INVARIANTS
  NotQueuedWhileRunning
CHECK_DEADLOCK FALSE
