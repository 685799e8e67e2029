CONSTANTS
  Worker = {w1, w2}
  SbRows = 3
  SbCols = 2
  TileCounts = {1, 2}
  SyncRange = 2
  FailKinds = {"parse", "recon", "lpf"}
  FailRows = {0, 1}
  FailTiles = {0}
  TruncatedIn = {1}
SPECIFICATION RowMTFairSpec
CHECK_DEADLOCK FALSE
INVARIANTS VerdictMatchesContent
PROPERTIES ImplementsFrameOrder FrameReturns
