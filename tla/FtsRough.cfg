CONSTANTS
  Sizes <- MCTwoSizes
  BufferSize = 3
  PacketSize = 2
  ListFirst = 1
  ListNext = 1
  FsIssueMax = 2
  Repertoire = {"REQ_FILES_LIST", "REQ_FILE_INFO", "REQ_FILE_DATA", "REQ_FS_STATUS", "REQ_RECEIVE_COMPLETE", "REQ_FILES_LIST_NEXT"}
  Races = {"lost_link", "early_tx", "early_request"}
SPECIFICATION Spec
INVARIANTS
  NothingForeign
