SPECIFICATION Spec
CONSTANTS
  Coro = {c1, c2, c3}
  Fd = {f1, f2, f3}
  NULL = NULL
  InitVal = 1
  SEM_VALUE_MAX = 2
  Timeouts = TRUE
  MaxPosts = 3
CHECK_DEADLOCK FALSE
INVARIANT NotifyNeverFails
