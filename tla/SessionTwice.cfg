SPECIFICATION Spec
CONSTANTS
  w1 = w1
  w2 = w2
  k1 = k1
  c1 = c1
  Main = Main
  N = 1
  Comms <- OneComm
  Home <- AtFirst
  ErrComm = c1
  Workers <- OneWorker
  Serves <- ServeFirst
  Closers <- OneCloser
  Prepared = TRUE
  Faults <- NoFaults
  FirstIdx <- LastIdx
INVARIANTS
  ReturnedOnce
CHECK_DEADLOCK FALSE
