SPECIFICATION Spec
CONSTANTS
  Threads = {t1, t2}
  NULL = NULL
  Documents <- MCDocuments
  MayRunOut = TRUE
  Producers = {p1, p2}
  Consumers = {c1, c2}
  Sizes = {1, 2}
  NodesMayFail = TRUE
  MaxSpurious = 1
  Workers = {w1, w2, w3}
  Length = 3
INVARIANTS
  TypeOK CallsCleanUp BuiltIsHeld FailureIsExplained OverfillIsBounded NoneSleepsInVain VerdictIsTrue
CHECK_DEADLOCK FALSE
