CONSTANTS
  HeapSize = 38
  LocalBase = 16
  UsizeMax = 127
  Sizes <- MCSizes
  ForeignPtrs <- MCForeign
SPECIFICATION Spec
INVARIANT ListSorted
PROPERTY ImplementsSymHeap
