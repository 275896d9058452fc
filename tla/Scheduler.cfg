SPECIFICATION Spec
CONSTANTS
  Coro = {c1, c2, c3}
  Fd = {f1}
  NULL = NULL
  MAXEXEC = 1
  MAXWAIT = 2
  MAXEVENTS = 1
  UsecPerMs = 1
  UintMod = 64
  SleepTimes = {1}
  WaitTimeouts <- Mixed
  MaxUsec = 2
  Punctual = TRUE
  FreshKeys = TRUE
CHECK_DEADLOCK FALSE
SYMMETRY Symmetry
INVARIANTS StructuresAgree NoneLost
PROPERTY WakeJustified
