CONSTANTS
  Symbols = 2
  Options <- LossyOptions
SPECIFICATION Spec
INVARIANTS
  TypeOK
  EncAccounts
  HeadIsReady
  ReadInOrder
  NoneMissing
  NothingOverrun
  FreedIsSeen
CHECK_DEADLOCK FALSE
