\* Two connections at once against an RBAC that changes twice.
SPECIFICATION Spec
CONSTANTS
  Value <- MCValue
  NoValue = ""
  None = None
  ExtraName <- MCExtraName
  AllAuthenticated = "system:authenticated"
  ClientAddr = "remote"
  JsonExtras = "json"
  Request = {r1, r2}
  Arrivals <- MCArrivalsFew
  Configs <- MCConfigsFew
  Grants <- MCGrantsFew
  MaxRbacChanges = 2
SYMMETRY RequestSymmetry
PROPERTY ImplementsGateway
