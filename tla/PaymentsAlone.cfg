SPECIFICATION TimedSpec
CONSTANTS
  r1 = r1
  i1 = i1
  Requests = {r1}
  Old = {i1}
  Offered <- AllOps
  MaxRetries = 3
  MaxAttempts = 3
  Amount = 2
  MaxCrashes = 1
INVARIANT DuplicatesExplained
INVARIANT ErrorExplained
PROPERTY ImplementsLedger
PROPERTY EveryRequestAnswered
CHECK_DEADLOCK FALSE
