\* One dump session, up to two statements of work, every mode, every entry
\* state, one abort and one lost connection at any moment.
CONSTANT MaxWork = 2
SPECIFICATION Spec
INVARIANTS TypeOK NoTransactionLeft SuccessMeansCommitted SearchPathKept
PROPERTIES CallerTransactionKept EventuallyReleased
