SPECIFICATION Spec
CONSTANTS
  MaxOperation = 8
  MaxTime = 12
  MaxRecords = 2
INVARIANTS TypeOK QuietSwitchesOff LimitedOperation
PROPERTY ServedIsNotCut
CHECK_DEADLOCK FALSE
