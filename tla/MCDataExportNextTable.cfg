SPECIFICATION Spec
CONSTANTS
  TableCount = 2
  MaxRows = 3
  RowsPerInsert = 2
  CallbackMayThrow = TRUE
  FetchSize = 2
  BatchSize = 2
INVARIANT
  ContinuesAtNextTable
CHECK_DEADLOCK FALSE
