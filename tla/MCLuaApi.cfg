\* Bytecode, calls, the Lua API on one stack and coroutines through it.
SPECIFICATION Spec
CHECK_DEADLOCK FALSE
CONSTANTS
  LongMax = 7
  MayRunOut = TRUE
  Hash <- MCHash
  Strtod <- MCStrtod
  DoubleArith <- MCDoubleArith
  Magnitude <- MCMagnitude
  Nearest <- MCNearest
  MaxExact = 4
  Coroutines = {host, c1, c2}
  Host = host
  Programs <- MCPrograms
  StackSize = 5
  RegistersNum = 2
  MaxDepth = 3
  MaxClosures = 5
  Junk <- MCJunk
  ResumeRoom = 2
  MaxNest = 3
  MaxTables = 2
  Lengths = {0, 1, 2}
INVARIANTS
  TypeOK
  DeadKnowsWhy
  QueriesAgree
  SoundProgramsSurvive
PROPERTIES
  CallReturns
  MainGetsArguments
  ComparisonsAreTrue
  MovesKeepOrder
