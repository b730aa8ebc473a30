CONSTANTS
  SampleInterval = 4
  Timeout = 2
  RetryDelay = 1
  DownDelay = 2
  CallTimeout = 2
  Counts = {0}
  NumCalls = 0
  Mb <- MCMb
  MaxPolls = 2
  MaxContainers = 0
  MaxCalls = 0
  NumTopologies = 1
  Trials = 1
  Replies <- MCReplies

SPECIFICATION MCSpec

INVARIANT MalformedIsUnknown

\* Each of them comes to an end.
CHECK_DEADLOCK FALSE
