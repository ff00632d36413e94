----------------------------- MODULE PgAdapter -----------------------------
(***************************************************************************)
(* What a dump or a restore can observe of a PostgreSQL transaction.       *)
(*                                                                         *)
(* The backend keeps a transaction block state (BackendTx); node-postgres  *)
(* does not expose it, so PgConnectionAdapter keeps its own estimate       *)
(* (TrackedTx), moved by the commands that succeed through it and by the   *)
(* errors it sees.  The operators below are the two halves; the modules    *)
(* that model a session keep one variable for each half.                   *)
(***************************************************************************)

(* The backend's own transaction block state: outside a block, in a block, *)
(* in a block that an error has aborted.                                   *)
BackendTx == {"idle", "open", "failed"}

(* PostgresTransactionStatus, the adapter's estimate.                      *)
TrackedTx == {"idle", "in-transaction", "failed", "unknown"}

(* The status a caller who knows the backend state declares when wrapping  *)
(* a client.                                                               *)
TrackedFor(tx) ==
  CASE tx = "idle"   -> "idle"
    [] tx = "open"   -> "in-transaction"
    [] tx = "failed" -> "failed"

(* updateTransactionStatus: only the first SQL word is looked at.          *)
AfterSuccess(tracked, command) ==
  CASE command \in {"BEGIN", "START", "SAVEPOINT", "RELEASE", "ROLLBACK TO"} -> "in-transaction"
    [] command \in {"COMMIT", "ROLLBACK"} -> "idle"
    [] OTHER -> tracked

(* The catch block of query(): a failure that is not a cancellation.       *)
AfterError(tracked) == IF tracked = "in-transaction" THEN "failed" ELSE tracked

(* A statement that fails inside a block aborts the block.                 *)
TxAfterError(tx) == IF tx = "open" THEN "failed" ELSE tx
=============================================================================
