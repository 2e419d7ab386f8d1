CONSTANTS
  Symbols = 2
  SeqSpace = 64
  RankSpace = 8
  MaxContainers = 2
  Redundancy = 0
  FbTimeout = TRUE
  DataCapacity = 2
  FeedbackCapacity = 1
  MaxSource = 2
  MaxCoded = 4
  MaxPlanned = 2
  Lossy = FALSE
  Reorder = TRUE
  Duplicate = FALSE
  Timeouts = FALSE
SPECIFICATION Spec
PROPERTIES
  FeedbackPlansNecessary
CHECK_DEADLOCK FALSE
