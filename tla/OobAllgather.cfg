CONSTANTS
  N = 3
  Size <- MCSizes
  Lengths <- MCManyRounds
  Faults <- MCAllFaults
SPECIFICATION FairSpec
INVARIANT TypeOK
PROPERTIES ImplementsDriftingAllgather OnlySilentPEsHoldRounds
CHECK_DEADLOCK FALSE
