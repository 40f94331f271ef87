CONSTANTS
  MaxWorkers = 3
  MaxItems = 3
  MaxBatches = 2
  GenMod = 2
SPECIFICATION FairSpec
INVARIANTS
  NoDescriptorRace
  DispatchInv
PROPERTIES
  ImplementsForkJoin
  BatchReturns
  PoolStops
