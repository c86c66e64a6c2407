\* One connection, every header shape and configuration, one RBAC change, and
\* progress while the API server may be silent.
SPECIFICATION FairSpec
CONSTANTS
  Value <- MCValue
  NoValue = ""
  None = None
  ExtraName <- MCExtraName
  AllAuthenticated = "system:authenticated"
  ClientAddr = "remote"
  JsonExtras = "json"
  Request = {r1}
  Arrivals <- MCArrivalsAll
  Configs <- MCConfigs
  Grants <- MCGrants
  MaxRbacChanges = 1
INVARIANTS
  TypeOK
  IdentityGranted
  ImpersonationComplete
  ConfigurationApplied
  OriginalUserRecorded
  AuditNamesForwardedUser
  PassthroughIntact
  AccessLogTruthful
PROPERTIES
  RequestsAdvance
  EveryRequestEnds
  PlainRequestNotHeldUp
