\* Two connections, every audit backend, signals enough to force an exit.
SPECIFICATION FairSpec
CONSTANTS
  Connection = {c1, c2}
  AuditModes <- MCAuditModes
  BufferLimit = 1
  MaxSignals = 5
INVARIANTS
  TypeOK
  AuditDrained
  ShutdownNotStuck
PROPERTIES
  ImplementsService
  StopEnds
