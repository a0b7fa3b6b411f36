SPECIFICATION FairServicesSpec
CONSTANTS
  Worker = {w1}
  ServiceWorker = {v1}
  Service = {s1, s2}
  NoService = NoService
  MakeTaskWorkersRunServices = TRUE
  ServiceCapacity = 2
  Managed = {s1}
  Task <- TwoTasks
  Common = Common
  NoTask = NoTask
  External = External
  Affinities <- CommonOnly
  MinimumActiveTaskWorkers = 0
  InactivitySuspends = TRUE
  ResumeOnSuspend = TRUE
  QueueCapacity = 2
  MaxYields = 0
  MaxPending = 0
  ClientFeatures = {"force", "toggle"}
INVARIANTS
  CountIsAccurate
  OneServicePlace
  ServicesRest
PROPERTIES
  EndsInSpiteOfServices
  ServicesAreServed
