CONSTANTS
  Sizes <- MCOneSize
  BufferSize = 2
  PacketSize = 2
  ListFirst = 1
  ListNext = 1
  FsIssueMax = 1
  Repertoire = {"REQ_FILE_DATA", "REQ_RECEIVE_COMPLETE"}
  Races = {"overlap", "slow_memory", "battery", "eager"}
SPECIFICATION FairSpec
PROPERTIES
  BleTaskReturns
\* a client whose request was lost waits for ever here
CHECK_DEADLOCK FALSE
