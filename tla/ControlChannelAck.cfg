SPECIFICATION Spec
CONSTANTS
  Server = server
  Device = device
  None = None
  SnMod = 3
  MaxRetries = 2
  UartDevice = FALSE
  Stoppable = {}
  ServerKinds = {"COMMAND"}
  DeviceKinds = {}
  ServerCalls = 2
  DeviceCalls = 0
  LossBudget = 0
  DupBudget = 0
INVARIANT AckMeansReceived
CHECK_DEADLOCK FALSE
