\* Listing namespaces.
SPECIFICATION Spec
CONSTANTS
  Paths <- MCListPaths
  Segment <- MCAllSegment
  Mapping <- MCMapping
INVARIANT NamespacesListed
CHECK_DEADLOCK FALSE
