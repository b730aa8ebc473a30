CONSTANTS
  Topologies <- MCTopologies
  Modes <- MCModes
  HookSets <- MCHookSets
  Verdict <- MCVerdict
  Eligible <- MCEligible
  MaxRuns = 2

SPECIFICATION Spec

INVARIANT MetricsAbsentWithoutDiff
