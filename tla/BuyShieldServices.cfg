SPECIFICATION FairSpec
CONSTANTS
  c1 = c1
  c2 = c2
  c3 = c3
  i1 = i1
  Calls = {c1, c2, c3}
  Old = {i1}
  Amount = 1
  MaxAttempts = 1
  MaxMoves = 2
  Sent <- Everything
INVARIANT PaidOnlyAfterProof
INVARIANT RepliesTrue
 
PROPERTY EveryCallReplied
CHECK_DEADLOCK FALSE
