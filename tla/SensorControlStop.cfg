SPECIFICATION FairSpec
CONSTANTS
  Pipes = {1, 2}
  Sensors = {cam}
  Audio = {}
  MaxCalls = 3
  AppCalls = 0
PROPERTY StopStopsPiping
CHECK_DEADLOCK FALSE
