CONSTANTS
  host = host
  net = net
  Tables <- MCTables
  Prefixes <- MCPrefixes
  HostPrefixes <- MCHostPrefixes
  LoopbackIfaces <- MCLoopbackIfaces
  Routes <- MCRoutes
  MaxRoutes = 4
  Paths <- MCPaths
  Ribs <- MCRibs
  Agreements <- MCAgreements
  Unit = 12
  MaxTopologies = 3

SPECIFICATION MCSpec

INVARIANTS
  CountsAddUp
  ModesAgree
  ReconcileIsFair
  SameRoutes
  OwnAttributes
  SpeedupOfTheMeasured
  HonestMeans

\* Each machine comes to an end.
CHECK_DEADLOCK FALSE
