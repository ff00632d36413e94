-------------------------- MODULE RestoreBackend ---------------------------
(***************************************************************************)
(* The connection of a restore: the backend that executes the dump's       *)
(* statements and the restore's own, the effects those statements have,    *)
(* and the wire between it and PgConnectionAdapter.query.                  *)
(*                                                                         *)
(* The effect of an operation is its number, in one of three places:       *)
(* done since the restore's savepoint (inner), done in the open            *)
(* transaction (pending), or made permanent (kept).  An effect that was    *)
(* rolled back is in none of them.                                         *)
(***************************************************************************)
EXTENDS Integers, PgAdapter

VARIABLES
  opNumber,  \* operationNumber
  op,        \* the kind of the current operation
  aborted,   \* signal.aborted
  tracked,   \* the adapter's #transactionStatus
  sent,      \* the statement the client awaits
  reply,     \* how the awaited call ended
  orphan,    \* a statement whose client stopped waiting
  copy,      \* the COPY on the wire, see CopyLoad
  up,        \* the connection is alive
  tx,        \* the backend's transaction block state
  entry,     \* that state when the connection was acquired
  savepoint, \* the savepoint dbgate_restore_operation exists
  inner, pending, kept \* the effects

wire     == <<sent, reply, orphan>>
effects  == <<inner, pending, kept>>
backend  == <<up, tx, entry, savepoint, effects>>

(* Statements of the dump.  END is what isTransactionControlStatement      *)
(* names next to COMMIT; "sql" is any other statement.                     *)
DumpStatements == {"BEGIN", "COMMIT", "END", "sql"}
Statements == DumpStatements \cup {"SAVEPOINT", "RELEASE", "ROLLBACK TO", "ROLLBACK"}

Ending == {"COMMIT", "END", "ROLLBACK"}

(* What a statement that takes effect does, in a block or outside one.     *)
Applied ==
  /\ tx # "failed"
  /\ inner'   = IF tx = "open" /\ savepoint THEN inner \cup {opNumber} ELSE inner
  /\ pending' = IF tx = "open" /\ ~savepoint THEN pending \cup {opNumber} ELSE pending
  /\ kept'    = IF tx = "idle" THEN kept \cup {opNumber} ELSE kept
  /\ UNCHANGED <<up, tx, entry, savepoint>>

EndBlock(keep) ==
  /\ tx' = "idle" /\ savepoint' = FALSE
  /\ inner' = {} /\ pending' = {}
  /\ kept' = IF keep THEN kept \cup inner \cup pending ELSE kept
  /\ UNCHANGED <<up, entry>>

SetSavepoint ==
  /\ tx = "open"
  /\ savepoint' = TRUE
  /\ UNCHANGED <<up, tx, entry, effects>>

ReleaseSavepoint ==
  /\ tx = "open" /\ savepoint
  /\ savepoint' = FALSE
  /\ pending' = pending \cup inner /\ inner' = {}
  /\ UNCHANGED <<up, tx, entry, kept>>

RollbackToSavepoint ==
  /\ tx # "idle" /\ savepoint
  /\ tx' = "open" /\ inner' = {}
  /\ UNCHANGED <<up, entry, savepoint, pending, kept>>

(* A COMMIT in an aborted block answers without an error and rolls back.   *)
Executes(s) ==
  \/ s = "BEGIN" /\ tx # "failed" /\ tx' = "open" /\ UNCHANGED <<up, entry, savepoint, effects>>
  \/ s \in {"COMMIT", "END"} /\ EndBlock(tx = "open")
  \/ s = "ROLLBACK" /\ EndBlock(FALSE)
  \/ s = "SAVEPOINT" /\ SetSavepoint
  \/ s = "RELEASE" /\ ReleaseSavepoint
  \/ s = "ROLLBACK TO" /\ RollbackToSavepoint
  \/ s = "sql" /\ Applied

Failure(s) ==
  \/ s \in {"COMMIT", "END"} /\ tx = "open" /\ EndBlock(FALSE)
  \/ s \notin Ending /\ tx' = TxAfterError(tx) /\ UNCHANGED <<up, entry, savepoint, effects>>

(* A statement of the dump may fail for a reason of its own, a COMMIT      *)
(* because of a deferred constraint; the restore's own statements and      *)
(* BEGIN fail only where the block does not allow them.                    *)
Fails(s) ==
  /\ Failure(s)
  /\ CASE s = "BEGIN"       -> tx = "failed"
       [] s = "SAVEPOINT"   -> tx # "open"
       [] s = "RELEASE"     -> tx # "open" \/ ~savepoint
       [] s = "ROLLBACK TO" -> tx = "idle" \/ ~savepoint
       [] OTHER             -> TRUE

(* connection.query(text, signal).                                         *)
Send(text, signalled) ==
  /\ sent = "none" /\ reply = "none"
  /\ IF signalled /\ aborted
       THEN reply' = "rejected" /\ UNCHANGED sent
       ELSE sent' = text /\ UNCHANGED reply
  /\ UNCHANGED orphan

(* The backend answers what it was sent in order: an orphan first, and     *)
(* nothing while a COPY is on the wire.                                    *)
Serve ==
  /\ sent # "none" /\ orphan = "none" /\ copy = "none" /\ up
  /\ sent' = "none"
  /\ \/ Executes(sent) /\ reply' = "ok" /\ tracked' = AfterSuccess(tracked, sent)
     \/ Fails(sent) /\ reply' = "error" /\ tracked' = AfterError(tracked)
  /\ UNCHANGED <<opNumber, op, aborted, orphan, copy>>

(* The cancel request for an orphan comes in time or too late.             *)
ServeOrphan ==
  /\ orphan # "none" /\ up
  /\ orphan' = "none"
  /\ Executes(orphan) \/ Failure(orphan)
  /\ UNCHANGED <<opNumber, op, aborted, tracked, sent, reply, copy>>

Unreachable ==
  /\ sent # "none" /\ ~up
  /\ sent' = "none" /\ reply' = "error" /\ tracked' = AfterError(tracked)
  /\ UNCHANGED <<opNumber, op, aborted, orphan, copy, backend>>

BackendType ==
  /\ opNumber \in Nat
  /\ op \in DumpStatements \cup {"none", "copy"}
  /\ aborted \in BOOLEAN /\ up \in BOOLEAN /\ savepoint \in BOOLEAN
  /\ tracked \in TrackedTx /\ tx \in BackendTx /\ entry \in BackendTx
  /\ sent \in Statements \cup {"none"} /\ orphan \in Statements \cup {"none"}
  /\ reply \in {"none", "ok", "error", "rejected"}
  /\ copy \in {"none", "open", "ending", "destroyed", "abandoned", "late"}
  /\ inner \subseteq 1..opNumber /\ pending \subseteq 1..opNumber
  /\ kept \subseteq 1..opNumber
=============================================================================
