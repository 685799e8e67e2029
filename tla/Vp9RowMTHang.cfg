CONSTANTS
  Worker = {w1, w2, w3}
  SbRows = 4
  SbCols = 1
  TileCounts = {1}
  SyncRange = 1
  FailKinds = {"parse"}
  FailRows = {0, 1, 2, 3}
  FailTiles = {0}
  TruncatedIn = {}
SPECIFICATION RowMTFairSpec
CHECK_DEADLOCK FALSE
PROPERTIES FrameReturns
