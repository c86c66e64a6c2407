\* docs/tasks/no-impersonation.md on the bearer token.
SPECIFICATION Spec
CONSTANTS
  Value <- MCValue
  NoValue = ""
  None = None
  ExtraName <- MCExtraName
  AllAuthenticated = "system:authenticated"
  ClientAddr = "remote"
  JsonExtras = "json"
  Request = {r1}
  Arrivals <- MCArrivalsFew
  Configs <- MCConfigsUnimpersonated
  Grants <- MCGrantsFew
  MaxRbacChanges = 0
INVARIANT BearerTokenKept
