CONSTANTS
  host = host
  net = net
  Tables <- MCTables
  Prefixes <- MCPrefixes
  HostPrefixes <- MCHostPrefixes
  LoopbackIfaces <- MCLoopbackIfaces
  Routes <- MCRoutes
  MaxRoutes = 0
  Paths <- MCPaths
  Ribs <- MCDiscardRibs
  Agreements <- MCAgreements
  Unit = 12
  MaxTopologies = 1

SPECIFICATION MCSpec

INVARIANT ZeroRoutesExcluded

\* Each machine comes to an end.
CHECK_DEADLOCK FALSE
