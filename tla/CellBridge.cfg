SPECIFICATION FairSpec
CONSTANTS
  Ports = {p1, p2}
  Payload = {x}
  None = None
  Unbound = Unbound
  Junk = Junk
  HalfDuplex = TRUE
  RecvFails = FALSE
  Senders = {"server", "other"}
  MaxWrites = 3
  MaxDatagrams = 2
INVARIANTS
  ThreadsTakeTurns
  ForwardedOnce
  AnsweredOnce
  TransmitBufferFree
PROPERTY ServerHeardAlone
CHECK_DEADLOCK FALSE
