CONSTANTS
  Keys = {k1, k2}
  Times <- MCTimes
  MaxLength = 4
SPECIFICATION Spec
INVARIANTS
  LatestOfThePrefix
  ReturnsTheView
CHECK_DEADLOCK FALSE
