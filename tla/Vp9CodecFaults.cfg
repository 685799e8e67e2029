CONSTANTS
  Slot = {s1, s2}
  NumBuffers = 4
  MaxHelpers = 1
  MaxPictures = 4
  PoolSize = 3
  AppBuffers = 3
  OptionSets <- AllOptions
SYMMETRY SlotSymmetry
VIEW Visible
SPECIFICATION CodecSpec
INVARIANTS CountsExact ReferencesIntact PoolSuffices HelpersReadIntact LeasesExact ShownIsIntact DecoderAgrees
