SPECIFICATION FairSpec
CONSTANTS
  Pipeline = {p1}
  Stages = 2
  MaxWorkers = 2
  MaxSize = 7
  MaxIdentity = 2
  MaxGeneration = 2
  MaxHandles = 4
  FrameworkPrepared = 1
  FrameworkSlot = 1
  FrameworkWorker = 1
  Requests <- MemoryRequests
INVARIANTS
  HandleResolvesToItsWorker
  LifetimesNest
  MemoryWithinLimits
PROPERTIES
  SealedMemoryStands
  CleanupEnds
CHECK_DEADLOCK FALSE
