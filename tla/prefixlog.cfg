CONSTANTS
  Procs = {p1, p2}
  NoProc = none
  Entries <- MCEntries
  NoKey = 0
  Hash <- MCHash
  Inodes = {1, 2, 3}
  SyncEvery = 2
  StalePct = 50
  MemCapacity = 1
  ReadFaults = 0
  MaxInserts = 3
  MaxOpens = 2
  MaxMishaps = 2
SPECIFICATION Spec
SYMMETRY Symmetry
VIEW View
INVARIANTS
  IndexInv
  Durable
  Answers
PROPERTIES
  PowerSafe
