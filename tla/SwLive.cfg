CONSTANTS
  Symbols = 2
  Options <- LiveOptions
SPECIFICATION FairSpec
PROPERTIES
  AllRead
CHECK_DEADLOCK FALSE
