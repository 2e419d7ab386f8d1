CONSTANTS
  Symbols = 2
  SeqSpace = 64
  RankSpace = 8
  MaxContainers = 2
  Redundancy = 0
  FbTimeout = TRUE
  DataCapacity = 2
  FeedbackCapacity = 1
  MaxSource = 3
  MaxCoded = 5
  MaxPlanned = 2
  Lossy = TRUE
  Reorder = TRUE
  Duplicate = TRUE
  Timeouts = TRUE
SPECIFICATION Spec
INVARIANTS
  TypeOK
  EncPlanSum
  EncNeverSilent
  NothingDroppedEarly
PROPERTIES
  InOrder
CHECK_DEADLOCK FALSE
