CONSTANTS
  f1 = f1
  f2 = f2
  f3 = f3
  f4 = f4
  f5 = f5
  f6 = f6
  executor = executor
  o1 = o1
  o2 = o2
  NULL = NULL
  Frames = {f1, f2, f3, f4, f5, f6}
  Executor = executor
  Observers = {o1, o2}
  MaxFrames = 5
  MaxProtected = 3
  CallWhenFull = TRUE
  LateAllocFails = FALSE
SYMMETRY Symmetry
SPECIFICATION Spec
INVARIANT UnwindingProceeds
CHECK_DEADLOCK FALSE
