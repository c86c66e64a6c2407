\* Every path of up to six segments over an alphabet of six, and paths of the
\* shapes Kubernetes clients use. The program stops after one rewrite.
SPECIFICATION Spec
CONSTANTS
  Paths <- MCAllPaths
  Segment <- MCAllSegment
  Mapping <- MCMapping
INVARIANTS
  TypeOK
  MatchesReference
  TenantConfined
  OnlyTenantPartsChange
  SelectorOnListsOnly
CHECK_DEADLOCK FALSE
