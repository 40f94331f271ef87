SPECIFICATION EncodeSpec
CONSTANTS
  N = 5
  MaxRank = 1
  ScanN = 4
  ScanMaxRank = 1
INVARIANTS
  HeapInv
  CutsAreInvisible
PROPERTIES
  ImplementsGreedy
  ScanIsGreedy
  ArrayIsMinQueue
