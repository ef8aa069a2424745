SPECIFICATION FairSpec
CONSTANTS
  n1 = n1
  n2 = n2
  w1 = w1
  w2 = w2
  a = a
  b = b
  Notifs = {n1, n2}
  Unsendable = {n2}
  Workers = {w1, w2}
  Copies = {a, b}
  First = a
  Messages <- AllMessages
  Prefetch = 1
  MaxRetries = 3
  MaxSends = 2
  MaxBreaks = 2
INVARIANT DuplicatesExplained
PROPERTY EveryNotificationSent
CHECK_DEADLOCK FALSE
