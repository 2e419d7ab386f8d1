CONSTANTS
  Symbols = 2
  Options <- LinkOptions
SPECIFICATION FairSpec
INVARIANTS
  TypeOK
  AckedIsDecoded
  NoneTwice
  OneGeneration
  AnswersForDecoder
PROPERTIES
  AllDelivered
  Acknowledged
CHECK_DEADLOCK FALSE
