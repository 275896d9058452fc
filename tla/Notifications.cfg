SPECIFICATION MCSpec
CONSTANTS
  Coro = {c1, c2, c3}
  Fd = {f1, f2, f3}
  NULL = NULL
  InitVal = 1
  SEM_VALUE_MAX = 2
  Timeouts = FALSE
  MaxPosts = 4
  Reader = {r1, r2, r3, r4}
  Msg = {m1, m2}
  None = None
  PollAt = {2}
  WORD = 16
INVARIANT Conservation
PROPERTIES IsCountingSemaphore WaitersReleased NoIdleToken
INVARIANTS CountsAgree FreedUnused
PROPERTIES IsBroadcast NotifiedReturn
CHECK_DEADLOCK FALSE
