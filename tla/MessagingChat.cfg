SPECIFICATION MessagingFairSpec
CONSTANTS
  ann = ann
  bob = bob
  a1 = a1
  a2 = a2
  b1 = b1
  m1 = m1
  m2 = m2
  NoSocket = NoSocket
  Users = {ann, bob}
  Sockets = {a1, a2, b1}
  UserOf <- Handshakes
  Talks <- ToAnn
  Messages = {m1, m2}
INVARIANT RegistryTrue
INVARIANT UnscoredExplained
PROPERTY OutcomeIsFinal
PROPERTY EveryMessageSettled
CHECK_DEADLOCK FALSE
