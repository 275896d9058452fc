SPECIFICATION FairSpec
CONSTANTS
  Coro = {c1, c2, c3}
  Target = {1, 2}
  ReportOnce = TRUE
INVARIANT ListsAgree
PROPERTIES NotifiedInTime WaitersReleased
CHECK_DEADLOCK FALSE
