\* Lossy channels that keep the order, both timers, two open generations.
CONSTANTS
  Symbols = 2
  SeqSpace = 64
  RankSpace = 8
  MaxContainers = 2
  Redundancy = 0
  FbTimeout = TRUE
  DataCapacity = 2
  FeedbackCapacity = 1
  MaxSource = 5
  MaxCoded = 6
  MaxPlanned = 2
  Lossy = TRUE
  Reorder = FALSE
  Duplicate = FALSE
  Timeouts = TRUE
SPECIFICATION Spec
INVARIANTS
  EncWindow
  DecContiguous
  DecoderWindow
  RankNeverAhead
PROPERTIES
  FeedbackPlansNecessary
  RepairsOnlyMissing
CHECK_DEADLOCK FALSE
