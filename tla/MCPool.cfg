SPECIFICATION FairSpec
CONSTANTS
  Callers <- MCCallers
  Host = "frame"
  MaxThreads = 3
  MaxTasks = 3
  MaxRuns = 2
  MaxPools = 2
INVARIANT TypeOK
PROPERTIES ImplementsExecutor ComesBack
CHECK_DEADLOCK FALSE
