CONSTANTS
  NWorkers = 2
  QueueCapacity = 1
  Producers = {p1, p2, p3}
  MaxJobs = 4
SPECIFICATION FairSpec
INVARIANTS
  WakeupInv
PROPERTIES
  ImplementsJobPool
  JobsHandled
  DeinitReturns
