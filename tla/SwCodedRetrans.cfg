CONSTANTS
  Symbols = 2
  Options <- CodedOptions
SPECIFICATION Spec
INVARIANTS
  NoAssertFails
CHECK_DEADLOCK FALSE
