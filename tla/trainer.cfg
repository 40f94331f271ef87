SPECIFICATION FairSpec
CONSTANTS
  Configs <- MCConfigs
  Coin <- MCCoin
  MaxRuns = 3
  SplitAt = 4
INVARIANTS
  TelemetryInv
PROPERTIES
  ImplementsTrainRun
  RunsEnd
