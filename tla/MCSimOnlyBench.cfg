CONSTANTS
  NumTopologies = 2
  Trials = 2
  Nodes = {n1}
  CommandLines <- MCCommandLines
  MaxContainers = 4

SPECIFICATION Spec

INVARIANTS
  NoContainerLeft
  OneMeasurementPerTrial
  HammerheadIsFresh
  ColdWarmSplit

PROPERTIES
  ServiceSpec
  BenchEnds

\* The bench process ends.
CHECK_DEADLOCK FALSE
