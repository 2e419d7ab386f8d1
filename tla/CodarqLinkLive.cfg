CONSTANTS
  Symbols = 2
  SeqSpace = 4
  RankSpace = 4
  MaxContainers = 1
  Redundancy = 0
  FbTimeout = TRUE
  DataCapacity = 1
  FeedbackCapacity = 1
  MaxSource = 3
  MaxCoded = 4
  MaxPlanned = 1
  Lossy = TRUE
  Reorder = FALSE
  Duplicate = FALSE
  Timeouts = TRUE
SPECIFICATION FairSpec
PROPERTIES
  AllDelivered
  WindowReopens
CHECK_DEADLOCK FALSE
