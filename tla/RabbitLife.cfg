SPECIFICATION FairSpec
CONSTANTS
  Conns = 4
  maxAttempts = 2
INVARIANT NoStrayConnection
PROPERTY ImplementsLink
PROPERTY ShutdownEnds
CHECK_DEADLOCK FALSE
