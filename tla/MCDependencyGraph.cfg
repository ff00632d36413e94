SPECIFICATION Spec
CONSTANTS
  EntryCount = 3
  MaxRecords = 5
INVARIANTS
  TypeOK
  DependenciesFirst
  EmittedOnce
  NothingLost
  SectionsContiguous
  RecordsRespected
  RefusedOnlyWhenImpossible
  CanonicalOrder
CHECK_DEADLOCK FALSE
