CONSTANTS
  StreamModes <- Modes
  FlexibleChoices = {FALSE, TRUE}
  HeedsChoices = {FALSE, TRUE}
  InitialId = 12
  IdMod = 16
  MaxDiff = 3
  MaxFrames = 14
  MaxFaults = 2
SPECIFICATION Spec
INVARIANTS SentIsDecodable LayersDecodable PictureIdsAligned DescriptorMatchesFrame
