CONSTANTS
  c1 = c1
  c2 = c2
  f1 = f1
  f2 = f2
  m1 = m1
  m2 = m2
  Conns <- TwoConns
  Objects <- MCObjects
  Regions <- MCRegions
  Paths <- MCPaths
  FileSize <- MCSizes
  NoRegion = NoRegion
  NoPath = "none"
  Heap = Heap
  MaxDescriptors = 2
  MaxLost = 1
  Requests <- ReadmeRequests
SPECIFICATION Spec
CHECK_DEADLOCK FALSE
INVARIANTS
  MappedBodyAlive
