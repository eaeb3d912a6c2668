CONSTANTS
  Threads = {t1}
  Collectives = FALSE
  Faults <- MCDisconnectFault
  MaxCalls = 4
SPECIFICATION Spec
PROPERTY FinalizeOkMeansDisconnected
CHECK_DEADLOCK FALSE
