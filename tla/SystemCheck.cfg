\* A request through the whole process, which is started, probed and stopped.
SPECIFICATION SystemSpec
CONSTANTS
  Connection = {c1}
  AuditModes = {"batch"}
  BufferLimit = 1
  MaxSignals = 1
  Prober = {p1}
  MaxProbeFailures = 1
  Value <- MCValue
  NoValue = ""
  None = None
  ExtraName = {}
  AllAuthenticated = "system:authenticated"
  ClientAddr = "remote"
  JsonExtras = "json"
  Arrivals <- MCArrivals
  Configs <- MCConfigs
  Grants <- MCGrants
INVARIANTS
  SystemTypeOK
  ReadyMeansServed
  ReadyStays
  AuditTrailKept
PROPERTIES
  EventuallyReady
  ImplementsLifecycle
  ImplementsPipeline
