CONSTANTS
  Slots = 8
  FirstPage = 1
  Pages = 6
  PageSize = 2
  Chunk = 1
  FullMargin = 1
  Ids = {a}
  NoId = NoId
  MaxRecords = 2
  ListFirst = 7
  ListNext = 8
  ReadSize = 2
  MaxFaults = 0
  FirstRecordLoss = FALSE
SPECIFICATION Spec
PROPERTY InterruptedRecordIsRepaired
CHECK_DEADLOCK FALSE
