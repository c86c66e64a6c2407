\* README.md on impersonated requests, with token passthrough on.
SPECIFICATION Spec
CONSTANTS
  Value <- MCValue
  NoValue = ""
  None = None
  ExtraName <- MCExtraName
  AllAuthenticated = "system:authenticated"
  ClientAddr = "remote"
  JsonExtras = "json"
  Request = {r1}
  Arrivals <- MCArrivalsFew
  Configs <- MCConfigsFew
  Grants <- MCGrantsFew
  MaxRbacChanges = 0
INVARIANT ImpersonationCarriesCredentials
