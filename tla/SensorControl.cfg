SPECIFICATION FairSpec
CONSTANTS
  Pipes = {1, 2}
  Sensors = {cam, mic}
  Audio = {mic}
  MaxCalls = 2
  AppCalls = 1
INVARIANTS
  TypeOK
  ActiveMeansPiping
  AtMostOneLate
PROPERTY StopEndsPipes
CHECK_DEADLOCK FALSE
