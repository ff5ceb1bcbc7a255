SPECIFICATION Spec
CONSTANTS
  DataDepth = 2
  MaxPresses = 2
  Long = {}
  Faults = {"write", "fills"}
  Configs = {"FIELD"}
  Starts = {"UNKNOWN", "FILE_SYSTEM_ERROR_DURING_BLE"}
INVARIANT TypeOK
INVARIANT AnswersMatch
INVARIANT RecordingHasFile
INVARIANT PowerOffWhenIdle
INVARIANT StalePrefix
INVARIANT BleFollows
\* the device switches itself off
CHECK_DEADLOCK FALSE
