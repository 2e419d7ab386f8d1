CONSTANTS
  Symbols = 2
  Options <- Networks
SPECIFICATION FairSpec
INVARIANTS
  FlushedIsAvailable
  NoAssertFails
PROPERTIES
  StreamSpec
  OnlyUnreadIsOverwritten
  
  Reopens
CHECK_DEADLOCK FALSE
