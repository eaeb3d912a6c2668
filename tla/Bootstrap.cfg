CONSTANTS
  N = 3
  Sizes <- MCSizes
  MayBeShort = {1}
  Faults <- MCAllFaults
SPECIFICATION FairSpec
INVARIANTS TypeOK ViewIsPublished ReadyAfterAllPublished FailureHasCause
PROPERTY OnlySilentPEsStrand
CHECK_DEADLOCK FALSE
