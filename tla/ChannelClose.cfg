SPECIFICATION FairSpec
CONSTANTS
  Coro = {a, b}
  NULL = NULL
  Exclusive = TRUE
  MaxSent = 3
PROPERTIES ClosedReturns
