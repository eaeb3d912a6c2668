CONSTANTS
  N = 2
  Base <- MCBase
  HeapSize = 32
  UsizeMax = 255
  Sizes <- MCSizes
  MaxOps = 6
SPECIFICATION Spec
INVARIANTS RemoteAddressIsPeers HeapsConverge
CHECK_DEADLOCK FALSE
