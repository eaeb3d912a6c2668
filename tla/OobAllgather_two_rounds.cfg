CONSTANTS
  N = 2
  Size <- MCFullSize
  Lengths <- MCTwoRounds
  Faults = {}
SPECIFICATION Spec
INVARIANT AllgatherIsExact
CHECK_DEADLOCK FALSE
