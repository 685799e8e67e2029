CONSTANTS
  Depth = 2
  AutoAltRef = TRUE
  MinGFInterval = 1
  VisibleKinds = {"key", "golden", "altref", "inter", "dropped", "failed"}
  HiddenKinds = {"key", "altref", "dropped", "failed"}
  BadFlags = TRUE
  RearmShifted = TRUE
  MaxFrames = 5
  MaxSets = 1
SPECIFICATION FairSpec
INVARIANTS NewestSetKept OverlayIsLive
PROPERTIES FramesInOrder ImplementsFrameQueue FlushDrains
