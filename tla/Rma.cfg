CONSTANTS
  SignBit = 4
  N = 2
  Threads = {1, 2}
  SIZE = 2
  U64Max = 31
  Base <- MCBase
  Capacity = 4
  Programs <- MCPrograms
  Faults <- MCAllFaults
SPECIFICATION FairSpec
INVARIANTS TypeOK QuietCompletes FenceOrders HeapIsCallHistory RepliesAreHistory BarrierPublishes
PROPERTY OnlyHopelessCallsBlock
CHECK_DEADLOCK FALSE
