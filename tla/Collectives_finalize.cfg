CONSTANTS
  N = 2
  Ops <- MCReduceNb
  Length = 1
  Faults <- MCFinalize
SPECIFICATION Spec
INVARIANT OkMeansDelivered
CHECK_DEADLOCK FALSE
