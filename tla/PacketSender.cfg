SPECIFICATION SenderSpec
CONSTANTS
  Threads = {1, 2, 3}
  Space = 2
  MaxSn = 4
INVARIANTS
  SenderTypeOK
  FieldsFit
  NumbersConsecutive
CHECK_DEADLOCK FALSE
