\* Four versions, the third unreadable, an event queue that can overflow.
\* The writer may stop for good, and a dead watcher leaves nothing to do.
SPECIFICATION FairSpec
CONSTANTS
  Client = {c1, c2}
  Unreadable = {3}
  MaxVersion = 4
  QueueLimit = 3
INVARIANTS
  TypeOK
  StaleOnlyTransiently
PROPERTIES
  LookupsNeverRegress
  ImplementsStore
  UpdateServed
CHECK_DEADLOCK FALSE
