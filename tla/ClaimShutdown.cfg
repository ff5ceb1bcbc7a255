SPECIFICATION LiveSpec
CONSTANTS
  DataDepth = 1
  MaxPresses = 1
  Long = {}
  Faults = {"fills"}
  Configs = {"FIELD"}
  Starts = {"UNKNOWN"}
PROPERTY ShutDownAfterEightMinutes
\* the device switches itself off
CHECK_DEADLOCK FALSE
