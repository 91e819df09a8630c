SPECIFICATION FairSpec
CONSTANTS
  WindowSize = 2
  SnSpace = 5
  Payload = {x, y}
  None = None
  Enders = {control, app}
  MaxArrivals = 4
INVARIANTS
  TypeOK
  WindowShape
  InOrder
PROPERTIES
  KeepsPromise
  KeepsSession
  EndDrains
CHECK_DEADLOCK FALSE
