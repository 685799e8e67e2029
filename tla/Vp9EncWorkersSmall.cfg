CONSTANTS
  TileCols = 2
  RowThreads = 2
  SbRows = 3
  SbCols = 2
  LfRange = 1
  MaxPasses = 2
SPECIFICATION FairSpec
INVARIANTS NeighboursReady CloneQuiescent ReplayIsComplete
PROPERTIES FrameReturns
