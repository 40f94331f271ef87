SPECIFICATION Spec
CONSTANTS
  Configs <- MCConfigs
  Coin <- MCCoin
  MaxRuns = 2
  SplitAt = 8
INVARIANTS
  ResumeAccepted
