CONSTANTS
  Capacity = 3
  Entries <- MCEntries
  NoEntry = none
  Hash <- MCHash
  Ratio = 1
  TableSizes = {1, 2, 4}
  MapFaults = 1
  MaxCalls = 5
SPECIFICATION Spec
INVARIANTS
  EvictionMakesRoom
