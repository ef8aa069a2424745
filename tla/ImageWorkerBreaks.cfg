SPECIFICATION FairSpec
CONSTANTS
  j1 = j1
  j2 = j2
  j3 = j3
  w1 = w1
  w2 = w2
  Messages = {j1, j2, j3}
  Malformed = {j3}
  Workers = {w1, w2}
  Prefetch = 2
  MAX_CONCURRENT_JOBS = 1
  MaxBreaks = 1
INVARIANT ActiveJobsExact
PROPERTY ImplementsTasks
PROPERTY EveryJobSettled
CHECK_DEADLOCK FALSE
