SPECIFICATION LookaheadFairSpec
CONSTANTS
  Depth = 4
  ThreadChoices = {0, 2}
  AltRefChoices = {FALSE, TRUE}
  Cadence = 4
  Flags = {"none", "forceKey", "forceRef"}
  Outcomes = {"coded", "dropped", "full"}
  HiddenOutcomes = {"coded", "full"}
  SmallBuffers = TRUE
  DeadlineChanges = TRUE
  MaxFrames = 6
INVARIANTS NoDriftWhileFrozen
PROPERTIES ImplementsFrameQueue FlushDrains
