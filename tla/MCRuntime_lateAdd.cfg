SPECIFICATION Spec
CONSTANTS
  w1 = w1
  w2 = w2
  Worker = {w1, w2}
  Task <- ThreeTasks
  Common = Common
  NoTask = NoTask
  External = External
  Affinities <- CommonOnly
  MinimumActiveTaskWorkers = 1
  InactivitySuspends = FALSE
  ResumeOnSuspend = TRUE
  QueueCapacity = 3
  MaxYields = 0
  MaxPending = 0
  ClientFeatures = {"anyOrder", "externalAdd"}
SYMMETRY WorkerSymmetry
INVARIANTS
  OnePlace
CHECK_DEADLOCK FALSE
