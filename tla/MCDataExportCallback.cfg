SPECIFICATION Spec
CONSTANTS
  TableCount = 2
  MaxRows = 3
  RowsPerInsert = 2
  CallbackMayThrow = TRUE
  FetchSize = 2
  BatchSize = 2
INVARIANT
  CallbackExceptionAborts
CHECK_DEADLOCK FALSE
