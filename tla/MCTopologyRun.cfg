CONSTANTS
  NumTopologies = 2
  Cap <- MCCap
  Usage <- MCUsage
  HeadroomMultiplier = 2
  Slack = 1
  HostMb = 3
  BatfishMb = 2
  RecoveryPolls = 1
  CommandLines <- MCCommandLines

SPECIFICATION Spec

INVARIANTS
  LeftoverReported
  DriftReported
  PassedRunIsComplete
  ExitCodeHonest
  KeptLabSurvives

PROPERTIES
  BenchEnds
  LedgerSpec

\* The bench process ends.
CHECK_DEADLOCK FALSE
