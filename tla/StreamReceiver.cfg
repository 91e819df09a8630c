SPECIFICATION Spec
CONSTANTS
  Addr = {a, b}
  None = None
  MaxInfos = 2
  MaxEnds = 1
  MaxCalls = 2
  MaxPackets = 2
INVARIANTS
  TypeOK
  DictionariesAgree
  AcceptedIsReachable
  WindowsFollowReception
  StoppedOnlyByEnd
CHECK_DEADLOCK FALSE
