CONSTANTS
  HelperCount = 2
  HelperChoices = {1, 2}
  MaxDispatch = 2
SPECIFICATION Spec
INVARIANTS ResultMatchesSerial
