SPECIFICATION FairSpec
CONSTANT MaxRows = 4
INVARIANTS BorderIntact OkMeansComplete CauseReported
PROPERTY CallReturns
