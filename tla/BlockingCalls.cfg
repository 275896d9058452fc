SPECIFICATION MCSpec
CONSTANTS
  Client = {p1, p2, p3}
  Sizes = {1, 2, 3}
  Symmetric = {TRUE, FALSE}
  QuietDestroy = TRUE
  MaxFree = 3
  Coro = {c1, c2}
  None = None
  SendBuffer = 2
  Lengths = {1, 3}
  MaxBacklog = 1
  OneCaller = TRUE
INVARIANTS PoolAgrees NoLostWakeup
INVARIANT StreamAgrees
PROPERTIES NeverOverlent WaitersServed
PROPERTIES ResultsJustified CallsReturn
CHECK_DEADLOCK FALSE
