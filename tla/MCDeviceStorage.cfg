SPECIFICATION Spec
CONSTANTS
  Absent = Absent
  Empty = Empty
  MaxPairs = 2
  MaxStarts = 3
  h1 = h1
  h2 = h2
  d1 = d1
  d2 = d2
  NoFile = NoFile
  Writers <- MCWriters
  Pins <- MCPins
  Documents <- MCDocuments
  Size <- MCSize
  MaxInodes = 2
  MaxResets = 2
  p1 = p1
  p2 = p2
  v1 = v1
  v2 = v2
  NoRow = NoRow
  Paths <- MCPaths
  Versions <- MCVersions
  Rows = 1
  MaxFailures = 1
  MaxCalls = 4
  MaxFaults = 2
SYMMETRY MCSymmetry
CONSTRAINT MCOneStore
INVARIANTS
  IdentityStable
  TrustInv
  MetadataInv
\* The bounds end the run.
CHECK_DEADLOCK FALSE
