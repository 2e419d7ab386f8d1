\* The timers of the protocols: no delay of zero.
CONSTANTS
  Entries = {e1, e2, e3}
  Delays = {1, 2}
  MaxTime = 3
SPECIFICATION SchedFairSpec
INVARIANTS
  SchedTypeOK
  ListInOrder
PROPERTIES
  NextIsExact
  GoesOffInOrder
  NoneStarves
  RunEnds
CHECK_DEADLOCK FALSE
