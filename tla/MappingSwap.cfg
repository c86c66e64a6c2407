\* The unit test's claim about a swap right after start-up.
SPECIFICATION FairSpec
CONSTANTS
  Client = {c1}
  Unreadable = {}
  MaxVersion = 2
  QueueLimit = 3
PROPERTY SwapReloaded
CHECK_DEADLOCK FALSE
