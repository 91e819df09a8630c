SPECIFICATION Spec
CONSTANTS
  Ports = {p1}
  Payload = {x}
  None = None
  Unbound = Unbound
  Junk = Junk
  HalfDuplex = TRUE
  RecvFails = FALSE
  Senders = {"server"}
  MaxWrites = 2
  MaxDatagrams = 2
INVARIANT HostReadsDatagrams
CHECK_DEADLOCK FALSE
