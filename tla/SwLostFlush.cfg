CONSTANTS
  Symbols = 2
  Options <- RelayedOptions
SPECIFICATION Spec
INVARIANTS
  FlushIsPaid
CHECK_DEADLOCK FALSE
