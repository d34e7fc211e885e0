CONSTANTS
  t1 = t1
  t2 = t2
  c1 = c1
  c2 = c2
  NULL = NULL
  Threads = {t1, t2}
  Coroutines = {c1, c2}
  MaxNest = 2
  Shared = FALSE
  CreateWhenFull = TRUE
SYMMETRY Symmetry
SPECIFICATION Spec
INVARIANT ExecutingIsRunning
CHECK_DEADLOCK FALSE
