SPECIFICATION FairSpec
CONSTANTS
  TableCount = 2
  MaxRows = 3
  RowsPerInsert = 2
  CallbackMayThrow = TRUE
  FetchSize = 2
  BatchSize = 2
INVARIANTS
  TypeOK
  OutputWellFormed
  RowsWrittenOnce
  CompleteOrFlagged
  StatisticsMatchOutput
  FailFast
  CursorClosed
PROPERTIES
  NothingAfterFailure
  EventuallySettles
CHECK_DEADLOCK FALSE
