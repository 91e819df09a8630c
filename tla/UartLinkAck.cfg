SPECIFICATION LinkSpec
CONSTANTS
  Ports = {p1}
  Payload = {1}
  None = None
  Unbound = Unbound
  Junk = Junk
  HalfDuplex = FALSE
  RecvFails = FALSE
  Senders = {"server"}
  MaxWrites = 0
  MaxDatagrams = 1
  HostThreads = {"pipe"}
  MaxSends = 1
  MaxWire = 2
INVARIANT SentMeansAccepted
CHECK_DEADLOCK FALSE
