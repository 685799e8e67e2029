CONSTANTS
  MaxPic = 4
  MaxProbs = 5
  ErrorResilient = FALSE
  Masks <- RefreshSets
SPECIFICATION Spec
VIEW View
INVARIANTS DecoderAgrees AliasesMatchBuffers
