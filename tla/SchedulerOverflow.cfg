SPECIFICATION OverflowSpec
CONSTANTS
  Coro = {c1}
  Fd = {f1}
  NULL = NULL
  MAXEXEC = 2
  MAXWAIT = 2
  MAXEVENTS = 1
  UsecPerMs = 1
  UintMod = 64
  SleepTimes = {1}
  WaitTimeouts <- Persistent
  MaxUsec = 2
  Punctual = FALSE
  FreshKeys = TRUE
CHECK_DEADLOCK FALSE
PROPERTY RunReturns
