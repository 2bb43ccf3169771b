SPECIFICATION FairSpec
CONSTANTS
  t1 = t1
  t2 = t2
  Threads <- TwoThreads
  AllocCount = 2
  MaxHeap = 1
INVARIANTS
  UseCountExact
PROPERTIES
  CallsReturn
  ImplementsPool
