CONSTANTS
  host = host
  net = net
  Tables <- MCTables
  Prefixes <- MCPrefixes
  HostPrefixes <- MCHostPrefixes
  LoopbackIfaces <- MCLoopbackIfaces
  Routes <- MCEcmpRoutes
  MaxRoutes = 4

SPECIFICATION Spec

INVARIANT EcmpMerged

\* Scoring is the last step.
CHECK_DEADLOCK FALSE
