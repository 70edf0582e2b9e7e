CONSTANTS
  HeapStart = 3
  HeapSize = 14
  HeaderSize = 2
  Requests = {0, 1, 2, 5, 12}
SPECIFICATION FairSpec
INVARIANTS
  HeapInv
  NoOverlap
  NoLostMemory
  FirstFit
PROPERTIES
  MallocReturns
  AllocatorSpec
