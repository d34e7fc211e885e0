CONSTANTS
  main = main
  poller = poller
  w1 = w1
  w2 = w2
  NULL = NULL
  Main = main
  Poller = poller
  Workers = {w1, w2}
  NumComponents = 3
  LateInitFails = FALSE
SPECIFICATION FairSpec
INVARIANTS TypeOK VmOutlivesThreads
PROPERTIES ShutdownIsAlone ShutdownEnds
CHECK_DEADLOCK FALSE
