SPECIFICATION FairSpec
CONSTANTS
  Coro = {a, b, c}
  NULL = NULL
  Exclusive = TRUE
  MaxSent = 4
PROPERTIES PersistentSucceeds IsOneSlotBuffer WaitersServed
