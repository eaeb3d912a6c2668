CONSTANTS
  Threads = {t1, t2}
  Collectives = TRUE
  Faults <- MCAllFaults
  MaxCalls = 6
SPECIFICATION FairSpec
INVARIANTS TypeOK HandlesBeforeTransport OperationsSeeWholeState AllOrNothing SessionsAccounted
PROPERTY OnlyPeersBlockCalls
CHECK_DEADLOCK FALSE
