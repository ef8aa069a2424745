SPECIFICATION AccountsSpec
CONSTANTS
  p1 = p1
  p2 = p2
  ann = ann
  None = None
  Procs = {p1, p2}
  UserIds = {ann}
  MAX_ATTEMPTS = 2
  LOG_LIMIT = 2
  MaxRequests = 4
  MaxRestarts = 1
INVARIANT AttemptsExplained
INVARIANT LogLossExplained
PROPERTY RefreshOnce
PROPERTY DeletedStays
SYMMETRY Alike
CHECK_DEADLOCK FALSE
