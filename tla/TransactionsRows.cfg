SPECIFICATION TransactionsSpec
CONSTANTS
  r1 = r1
  r2 = r2
  r3 = r3
  old = old
  None = None
  Requests = {r1, r2, r3}
  Old = {old}
  MaxCrashes = 1
  MaxExpiries = 1
 
INVARIANT StaleExplained
SYMMETRY Alike
CHECK_DEADLOCK FALSE
