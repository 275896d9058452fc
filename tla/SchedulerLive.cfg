SPECIFICATION FairSpec
CONSTANTS
  Coro = {c1, c2}
  Fd = {f1}
  NULL = NULL
  MAXEXEC = 1
  MAXWAIT = 1
  MAXEVENTS = 1
  UsecPerMs = 1
  UintMod = 64
  SleepTimes = {1}
  WaitTimeouts <- Persistent
  MaxUsec = 2
  Punctual = FALSE
  FreshKeys = TRUE
CHECK_DEADLOCK FALSE
PROPERTIES ReadyRuns TimeoutReturns EventWakes RunReturns
