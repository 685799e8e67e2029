CONSTANTS
  WorkerCount = 3
  Rows = 4
  Cols = 4
  SyncRange = 1
  BadChoices <- MCBadChoices
  MaxTrials = 1
  MaxAttempts = 2
SPECIFICATION PoolFairSpec
INVARIANTS AboveRightReady ContextsMatchSerial VerdictIsRight PoolQuiet
PROPERTIES CallReturns
