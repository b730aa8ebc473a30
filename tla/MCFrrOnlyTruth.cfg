CONSTANTS
  NumTopologies = 2
  Cap <- MCCap
  Usage <- MCUsage
  HeadroomMultiplier = 2
  Slack = 0
  HostMb = 3
  BatfishMb = 2
  RecoveryPolls = 0
  Nodes = {n1}
  Benches <- MCBenches
  LeftBehind <- MCLeftBehind

SPECIFICATION Spec

INVARIANTS
  LabGoneOrNoted
  TruthIsOwn
  CoverageIsOwn
  SummaryHonest

\* The bench process ends.
CHECK_DEADLOCK FALSE
