CONSTANTS
  Slots = 4
  FirstPage = 1
  Pages = 5
  PageSize = 2
  Chunk = 1
  FullMargin = 1
  Ids = {a, b}
  NoId = NoId
  MaxRecords = 4
  ListFirst = 7
  ListNext = 8
  ReadSize = 3
  MaxFaults = 1
  FirstRecordLoss = FALSE
SYMMETRY Symmetry
SPECIFICATION Spec
INVARIANTS
  TypeOK
  IInv
  ClosedRecordsReadBack
  RamMatchesFlash
  HostCanCloseTheFile
  ReaderSeesClosedRecord
PROPERTIES
  WipedOnlyByFormatOrRepair
  ImplementsRecordStore
\* a device that lost its first record stays off in this run
CHECK_DEADLOCK FALSE
