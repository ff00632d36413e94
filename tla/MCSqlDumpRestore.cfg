SPECIFICATION Spec
CONSTANTS
  Entries = {"idle"}
  MaxLines = 1
  MaxOps = 3
  Kinds = {"BEGIN", "COMMIT", "END", "sql", "copy"}
INVARIANTS
  TypeOK
  NoTransactionLeft
  SessionUsable
  EffectsAsReported
  ContinuesPastErrors
  TotalsMatchReport
PROPERTIES
  KeepsContract
