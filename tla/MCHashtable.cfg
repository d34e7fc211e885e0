SPECIFICATION Spec
CONSTANTS
  LongMax = 7
  MayRunOut = TRUE
  Hash <- MCHash
  Strtod <- MCStrtod
  DoubleArith <- MCDoubleArith
  Magnitude <- MCMagnitude
  Nearest <- MCNearest
  MaxExact = 7
  Threads = {t1, t2}
  NULL = NULL
  Keys <- MCKeys
  Stored <- MCStored
  Capacities = {0, 1, 3, 4}
  LoadNum = 3
  LoadDen = 4
  MaxUsage = 3
INVARIANTS
  TypeOK UsedValuesAreAlive LostOnlyToCollision LengthIsUpperBound
PROPERTIES
  Implements IterationIsComplete
CHECK_DEADLOCK FALSE
