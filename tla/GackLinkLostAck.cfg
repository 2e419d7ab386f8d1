CONSTANTS
  Symbols = 2
  Options <- LostAckOptions
SPECIFICATION FairSpec
PROPERTIES
  Acknowledged
CHECK_DEADLOCK FALSE
