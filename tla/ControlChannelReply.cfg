SPECIFICATION FairSpec
CONSTANTS
  Server = server
  Device = device
  None = None
  SnMod = 3
  MaxRetries = 1
  UartDevice = TRUE
  Stoppable = {server}
  ServerKinds = {"DISCOVER"}
  DeviceKinds = {"COMMAND"}
  ServerCalls = 1
  DeviceCalls = 1
  LossBudget = 0
  DupBudget = 0
INVARIANTS
  TypeOK
  ReplyNeverConfirmed
PROPERTIES
  SendTerminates
  ReceiverReturns
CHECK_DEADLOCK FALSE
