CONSTANTS
  Clients = {c1}
  Threads = {t1, t2}
  NoClient = none
  MaxClients = 2
  Rps = 1
  TicksPerSecond = 1
  MaxTime = 4
  MaxCalls = 8
SPECIFICATION Spec
INVARIANTS
  DocumentedRate
