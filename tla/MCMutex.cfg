SPECIFICATION FairSpec
CONSTANTS
  Task = {t1, t2, t3, t4}
  NoTask = NoTask
INVARIANTS
  MutualExclusion
  NeverFreeForOthers
  WaitersAreServed
PROPERTIES
  ImplementsFifoLock
  EveryWaiterGetsLock
