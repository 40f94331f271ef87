CONSTANTS
  Clients = {c1, c2, c3}
  Threads = {t1, t2}
  NoClient = none
  MaxClients = 2
  Rps = 1
  TicksPerSecond = 2
  MaxTime = 4
  MaxCalls = 5
  NoEntry = none
SPECIFICATION TablesSpec
SYMMETRY Symmetry
INVARIANTS
  FairShare
  OrderedRate
  Consistent
PROPERTIES
  EvictsLeastRecent
  ImplementsLruMap
