CONSTANTS
  N = 2
  Ops <- MCAllOps
  Length = 2
  Faults <- MCAllFaults
SPECIFICATION FairSpec
INVARIANTS TypeOK OkMeansEveryoneCalled FinalizedOkMeansDelivered
PROPERTIES BlockingCallsReturn PolledRequestsComplete
CHECK_DEADLOCK FALSE
