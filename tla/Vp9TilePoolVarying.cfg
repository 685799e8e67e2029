CONSTANTS
  HelperCount = 2
  HelperChoices = {1, 2}
  MaxDispatch = 3
SPECIFICATION FairSpec
INVARIANTS JobsExclusive EveryJobRan
PROPERTIES CallsReturn
