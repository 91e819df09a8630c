SPECIFICATION FairSpec
CONSTANTS
  Server = server
  Device = device
  None = None
  SnMod = 3
  MaxRetries = 2
  UartDevice = FALSE
  Stoppable = {}
  ServerKinds = {"COMMAND"}
  DeviceKinds = {}
  ServerCalls = 2
  DeviceCalls = 0
  LossBudget = 1
  DupBudget = 1
INVARIANT ConfirmedOrOlderReceived
PROPERTIES
  FailedYetHandled
  KeepsPromise
CHECK_DEADLOCK FALSE
