\* The wait: intervals scaled down, in the order of the real ones (15, 1, 2 and
\* 300 seconds); the cap leaves room for four samples, three being needed.
\* The sampler: two counted polls a thread, so that a lower one can follow a
\* higher one, and two calls, so that a thread can outlive its call.
\* The service: a leaked container, a fresh service after it, and a call that
\* fails before two that succeed.
\* The verdict: trials of one topology that disagree, and topologies that do.
CONSTANTS
  SampleInterval = 4
  Timeout = 15
  RetryDelay = 1
  DownDelay = 2
  CallTimeout = 2
  Counts = {0, 1, 2}
  NumCalls = 2
  Mb <- MCMb
  MaxPolls = 2
  MaxContainers = 3
  MaxCalls = 3
  NumTopologies = 2
  Trials = 2
  Replies <- MCReplies

SPECIFICATION MCSpec

INVARIANTS
  ConvergedIsStable
  TimeoutMeansUnrest
  WaitBounded
  ReadingIsRight
  NothingLeaks
  OwnAnswers
  StartChargedOnce
  WarmIsWarm
  ScoredWasAnswered
  CoverageHonest

PROPERTIES
  WaitEnds
  NothingHangs

\* Each of them comes to an end.
CHECK_DEADLOCK FALSE
