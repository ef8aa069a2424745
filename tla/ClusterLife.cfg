SPECIFICATION ClusterFairSpec
CONSTANTS
  WorkerCount = 2
  MaxForks = 3
  Serving = {1}
  Signals = {"SIGTERM", "SIGQUIT"}
INVARIANT WorkersExplained
INVARIANT CutExplained
PROPERTY ClusterEnds
CHECK_DEADLOCK FALSE
