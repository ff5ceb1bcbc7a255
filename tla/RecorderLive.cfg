SPECIFICATION LiveSpec
CONSTANTS
  DataDepth = 1
  MaxPresses = 1
  Long = {"CLOSE_WRITTEN_FILE"}
  Faults = {"create", "close"}
  Configs = {"FIELD", "NONE"}
  Starts = {"UNKNOWN"}
PROPERTY RecordsEnd
PROPERTY SwitchesOff
\* the device switches itself off
CHECK_DEADLOCK FALSE
