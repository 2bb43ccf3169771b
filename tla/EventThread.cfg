SPECIFICATION FairSpec
CONSTANTS
  p1 = p1
  p2 = p2
  e1 = e1
  e2 = e2
  e3 = e3
  NULL = NULL
  Producers <- TwoProducers
  Events <- ThreeEvents
  InitCap = 2
INVARIANTS
  NoLostWakeup
  

  
CHECK_DEADLOCK FALSE
