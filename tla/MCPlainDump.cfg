CONSTANTS
    Catalog <- MCCatalog
    Sources <- MCSources
SPECIFICATION Spec
CHECK_DEADLOCK FALSE
INVARIANTS
    TypeOK
    FailuresExplained
    RestoredAsSource
    EntriesAccounted
    RefusedUpFront
    TransactionsFramed
