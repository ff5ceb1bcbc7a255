CONSTANTS
  Sizes <- MCSizes
  BufferSize = 3
  PacketSize = 2
  ListFirst = 1
  ListNext = 1
  FsIssueMax = 2
  Repertoire = {"REQ_FILES_LIST", "REQ_FILE_INFO", "REQ_FILE_DATA", "REQ_FS_STATUS", "REQ_RECEIVE_COMPLETE"}
  Races = {}
SPECIFICATION FairSpec
INVARIANTS
  TypeOK
  AnswersMatchCommands
  ActiveRequestIsMoving
  OpenOnlyWhileTransferred
PROPERTIES
  ImplementsTransfer
  RequestServed
