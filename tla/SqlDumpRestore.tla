-------------------------- MODULE SqlDumpRestore ---------------------------
(***************************************************************************)
(* restoreSqlDump: the loop that takes operations from SqlDumpReader and   *)
(* runs them on one connection, with its savepoints, its recovery of a     *)
(* failed operation, its rollback and its release.                         *)
(*                                                                         *)
(* The dump is whatever the reader hands out: each operation, and the end  *)
(* of the file, is chosen when it is read.  A progress callback may throw  *)
(* wherever emit is called.                                                *)
(***************************************************************************)
EXTENDS CopyLoad, Sequences

CONSTANTS
  Entries, \* transaction states a caller's connection may come in
  Kinds,   \* the kinds of operation the dump may hold
  MaxOps   \* operations of the dump (bound)

ASSUME EntriesAssumption == Entries \subseteq BackendTx
ASSUME KindsAssumption == Kinds \subseteq DumpStatements \cup {"copy"}
ASSUME MaxOpsAssumption == MaxOps \in Nat

VARIABLES
  pc,            \* where the client is
  opt,           \* stopOnError, and rollbackOnError once it was read
  usedSavepoint,
  completed,     \* operations counted in operationsCompleted ...
  failed,        \* ... and in operationsFailed, with an entry in errors
  cause,         \* what ended the restore early
  outcome,       \* how the promise settles
  script,        \* the kinds of the operations read so far
  late           \* operations a callback failed after the server was done

client == <<pc, opt, usedSavepoint, completed, failed, cause, outcome, script, late>>
vars   == <<client, opNumber, op, aborted, tracked, wire, copy, backend, reader, totals>>

(* The await points that send a statement, with what they send.            *)
Asking == {"savepoint", "exec", "release", "rollback to", "release after", "undo", "rollback"}

Text(p) ==
  CASE p = "savepoint"   -> "SAVEPOINT"
    [] p = "exec"        -> op
    [] p \in {"release", "release after"} -> "RELEASE"
    [] p = "rollback to" -> "ROLLBACK TO"
    [] p \in {"undo", "rollback"} -> "ROLLBACK"

(* Recovery and the last rollback are sent without the signal.             *)
Unsignalled == {"rollback to", "release after", "undo", "rollback"}

Points == Asking \cup {"acquire", "connecting", "loop", "reading", "protect", "copy",
                       "discard", "recover", "cleanup", "closing", "done"}

Causes == {"none", "connect", "cancelled", "dump", "pending", "savepoint", "payload",
           "truncated", "recover", "operation", "callback"}

Outcomes == {"running", "success", "completed-with-errors", "cancelled", "failed"}

Control == {"BEGIN", "COMMIT", "END"}

-----------------------------------------------------------------------------
Init ==
  /\ opt \in [stopOnError : BOOLEAN, rollbackOnError : {TRUE}]
  /\ tx \in Entries /\ entry = tx
  /\ tracked \in {TrackedFor(tx), "unknown"}
  /\ pc = "acquire" /\ usedSavepoint = FALSE
  /\ opNumber = 0 /\ op = "none" /\ script = <<>>
  /\ completed = {} /\ failed = {} /\ late = {} /\ counted = {} /\ rowsOf = {}
  /\ cause = "none" /\ outcome = "running"
  /\ aborted = FALSE /\ up = TRUE
  /\ sent = "none" /\ reply = "none" /\ orphan = "none" /\ copy = "none"
  /\ savepoint = FALSE /\ inner = {} /\ pending = {} /\ kept = {}
  /\ gen = "none" /\ activeCopy = FALSE /\ copyPayloadPending = FALSE
  /\ lines = 0 /\ ended = FALSE

Goto(p) == pc' = p /\ UNCHANGED cause

(* The outer catch block.                                                  *)
Throw(c) == pc' = "cleanup" /\ cause' = c

-----------------------------------------------------------------------------
(* Leaving the loop: Throw is caught where a connection exists.            *)
Acquire ==
  /\ pc = "acquire"
  /\ IF aborted
       THEN pc' = "closing" /\ cause' = "cancelled" /\ outcome' = "cancelled"
       ELSE Goto("connecting") /\ UNCHANGED outcome
  /\ UNCHANGED <<opt, usedSavepoint, completed, failed, script, late, opNumber, op, aborted,
                 tracked, wire, copy, backend, reader, totals>>

(* acquirePostgresConnection, then emit('started').                        *)
Connect ==
  /\ pc = "connecting"
  /\ \/ Goto("loop") /\ UNCHANGED outcome
     \/ Throw("callback") /\ UNCHANGED outcome
     \/ /\ pc' = "closing" /\ cause' = "connect"
        /\ outcome' = IF aborted THEN "cancelled" ELSE "failed"
  /\ UNCHANGED <<opt, usedSavepoint, completed, failed, script, late, opNumber, op, aborted,
                 tracked, wire, copy, backend, reader, totals>>

Loop ==
  /\ pc = "loop"
  /\ IF aborted THEN Throw("cancelled")
     ELSE IF activeCopy \/ copyPayloadPending THEN Throw("pending")
     ELSE Goto("reading")
  /\ UNCHANGED <<opt, usedSavepoint, completed, failed, outcome, script, late, opNumber, op,
                 aborted, tracked, wire, copy, backend, reader, totals>>

(* reader.nextOperation settles: an operation, the end (emit('completed')  *)
(* may throw), an invalid dump, or the signal seen at the next read.       *)
\* Mutant: operationNumber does not count COPY blocks.
CountOperationSqlOnly ==
  /\ opNumber' = IF op' = "copy" THEN opNumber ELSE opNumber + 1
  /\ script' = Append(script, op')

CountOperation ==
  /\ opNumber' = opNumber + 1
  /\ script' = Append(script, op')

ReadOperation ==
  /\ pc = "reading" /\ ~aborted /\ ~ended /\ opNumber < MaxOps
  /\ op' \in Kinds
  /\ CountOperation
  /\ usedSavepoint' = FALSE
  /\ IF op' = "copy" THEN NewPayload
                     ELSE UNCHANGED <<gen, activeCopy, copyPayloadPending, lines>>
  /\ Goto("protect")
  /\ UNCHANGED <<opt, completed, failed, outcome, late, aborted, tracked, wire, copy, backend,
                 ended, totals>>

\* Mutant: the status does not look at the errors.
StatusSuccess == "success"

Status == IF failed = {} THEN "success" ELSE "completed-with-errors"

ReadEnd ==
  /\ pc = "reading" /\ ~aborted
  /\ ended' = TRUE
  /\ \/ /\ Goto("closing")
        /\ outcome' = Status
     \/ Throw("callback") /\ UNCHANGED outcome
  /\ UNCHANGED <<opt, usedSavepoint, completed, failed, script, late, opNumber, op, aborted,
                 tracked, wire, copy, backend, gen, activeCopy, copyPayloadPending, lines,
                 totals>>

ReadFails ==
  /\ pc = "reading"
  /\ Throw(IF aborted THEN "cancelled" ELSE "dump")
  /\ UNCHANGED <<opt, usedSavepoint, completed, failed, outcome, script, late, opNumber, op,
                 aborted, tracked, wire, copy, backend, reader, totals>>

-----------------------------------------------------------------------------
(* The catch block inside the loop.                                        *)
\* Mutant: rowsRestored keeps the rows of the operation that failed.
RowsWithoutCurrentKept == rowsOf

RowsWithoutCurrent == rowsOf \ {opNumber}

OperationFails ==
  IF aborted THEN Throw("cancelled") /\ UNCHANGED <<failed, rowsOf>>
  ELSE /\ failed' = failed \cup {opNumber}
       /\ rowsOf' = RowsWithoutCurrent
       /\ \/ Throw("callback")
          \/ IF opt.stopOnError THEN Throw("operation")
             ELSE Goto(IF op = "copy" THEN "discard" ELSE "recover")

(* emit('statement-started') or emit('copy-started'), inside the try.      *)
StartOperation ==
  \/ Goto(IF op = "copy" THEN "copy" ELSE "exec") /\ UNCHANGED <<failed, rowsOf>>
  \/ OperationFails

(* Only an operation that is not transaction control is protected.         *)
\* Mutant: only COPY is protected.
GuardedCopyOnly == ~opt.stopOnError /\ op = "copy"

Guarded == ~opt.stopOnError /\ op \notin Control

Protect ==
  /\ pc = "protect"
  /\ IF Guarded /\ aborted THEN Throw("cancelled") /\ UNCHANGED <<failed, rowsOf>>
     ELSE IF Guarded /\ tracked = "in-transaction"
       THEN Goto("savepoint") /\ UNCHANGED <<failed, rowsOf>>
     ELSE StartOperation
  /\ UNCHANGED <<opt, usedSavepoint, completed, outcome, script, late, opNumber, op, aborted,
                 tracked, wire, copy, backend, reader, counted>>

Ask ==
  /\ pc \in Asking
  /\ Send(Text(pc), pc \notin Unsignalled)
  /\ UNCHANGED <<client, opNumber, op, aborted, tracked, copy, backend, reader, totals>>

AskCopy ==
  /\ pc = "copy"
  /\ OpenCopy
  /\ UNCHANGED <<client, opNumber, op, aborted, tracked, backend, reader, totals>>

(* The await at point p settles.                                           *)
Settled(p) ==
  /\ pc = p /\ reply # "none"
  /\ reply' = "none"
  /\ UNCHANGED <<sent, orphan, opt, outcome, script, opNumber, op, aborted, tracked, copy,
                 backend, counted>>

(* SAVEPOINT is awaited before the try: its failure is the restore's.      *)
Savepoint ==
  /\ Settled("savepoint")
  /\ IF reply = "ok" THEN usedSavepoint' = TRUE /\ StartOperation
     ELSE /\ Throw(IF aborted THEN "cancelled" ELSE "savepoint")
          /\ UNCHANGED <<usedSavepoint, failed, rowsOf>>
  /\ UNCHANGED <<completed, late, reader>>

(* The counters move, then emit('statement-completed' / 'copy-completed'). *)
OperationCompletes(rows) ==
  /\ completed' = completed \cup {opNumber}
  /\ \/ Goto("loop") /\ rowsOf' = rows /\ UNCHANGED <<failed, late>>
     \/ OperationFails /\ late' = late \cup {opNumber}

AfterOperation(rows) ==
  IF usedSavepoint
    THEN Goto("release") /\ rowsOf' = rows /\ UNCHANGED <<completed, failed, late>>
    ELSE OperationCompletes(rows)

Exec ==
  /\ Settled("exec")
  /\ IF reply = "ok"
       THEN AfterOperation(IF op = "sql" THEN rowsOf \cup {opNumber} ELSE rowsOf)
       ELSE OperationFails /\ UNCHANGED <<completed, late>>
  /\ UNCHANGED <<usedSavepoint, reader>>

(* The loader resolves after its last progress callback, which may throw;  *)
(* its finally block destroys a payload that is still there.               *)
Copied ==
  /\ Settled("copy")
  /\ \/ reply = "ok" /\ AfterOperation(rowsOf \cup {opNumber})
     \/ reply = "ok" /\ OperationFails /\ late' = late \cup {opNumber} /\ UNCHANGED completed
     \/ reply # "ok" /\ OperationFails /\ UNCHANGED <<completed, late>>
  /\ UNCHANGED <<usedSavepoint, reader>>

Release ==
  /\ Settled("release")
  /\ IF reply = "ok" THEN OperationCompletes(rowsOf)
     ELSE OperationFails /\ UNCHANGED <<completed, late>>
  /\ UNCHANGED <<usedSavepoint, reader>>

-----------------------------------------------------------------------------
(* discardCopyPayloadRemainder: refused while the generator is not closed. *)
\* Mutant: the remainder of a failed COPY is left where it is.
PayloadLeftNone == FALSE

PayloadLeft == ~activeCopy /\ copyPayloadPending

Discard ==
  /\ pc = "discard"
  /\ \/ activeCopy /\ Throw("payload") /\ UNCHANGED <<copyPayloadPending, lines, ended>>
     \/ /\ ~activeCopy /\ ~PayloadLeft
        /\ Goto("recover") /\ UNCHANGED <<copyPayloadPending, lines, ended>>
     \/ /\ PayloadLeft
        /\ \/ ~aborted /\ Line /\ Goto("discard") /\ UNCHANGED copyPayloadPending
           \/ ~aborted /\ Marker /\ Goto("recover") /\ copyPayloadPending' = FALSE
           \/ ~aborted /\ End /\ Throw("truncated") /\ UNCHANGED copyPayloadPending
           \/ aborted /\ Throw("cancelled") /\ UNCHANGED <<copyPayloadPending, lines, ended>>
  /\ UNCHANGED <<opt, usedSavepoint, completed, failed, outcome, script, late, opNumber, op,
                 aborted, tracked, wire, copy, backend, gen, activeCopy, totals>>

(* recoverFailedOperation.                                                 *)
Recover ==
  /\ pc = "recover"
  /\ \/ usedSavepoint /\ Goto("rollback to")
     \/ ~usedSavepoint /\ tracked \in {"failed", "in-transaction"} /\ Goto("undo")
     \/ ~usedSavepoint /\ tracked = "idle" /\ Goto("loop")
     \/ ~usedSavepoint /\ tracked = "unknown" /\ Throw("recover")
  /\ UNCHANGED <<opt, usedSavepoint, completed, failed, outcome, script, late, opNumber, op,
                 aborted, tracked, wire, copy, backend, reader, totals>>

Recovering(p, next) ==
  /\ Settled(p)
  /\ IF reply = "ok" THEN Goto(next) ELSE Throw("recover")
  /\ UNCHANGED <<usedSavepoint, completed, failed, late, reader, rowsOf>>

\* Mutant: the savepoint is rolled back to, but not released.
RollbackToOnly == Recovering("rollback to", "loop")

RollbackTo == Recovering("rollback to", "release after")

ReleaseAfter == Recovering("release after", "loop")

Undo == Recovering("undo", "loop")

-----------------------------------------------------------------------------
(* The outer catch block: connection.cancel() finds the COPY settled or    *)
(* aborted; rollbackActiveTransaction; and only then the classification.   *)
Finish ==
  /\ pc' = "closing" /\ UNCHANGED cause
  /\ outcome' = IF aborted THEN "cancelled" ELSE "failed"

\* Mutant: a block the adapter saw fail is taken for one that has ended.
MustRollBackActive == opt'.rollbackOnError /\ tracked = "in-transaction"

MustRollBack == opt'.rollbackOnError /\ tracked \in {"in-transaction", "failed"}

(* rollbackOnError is read here and nowhere else, so it is chosen here.    *)
Cleanup ==
  /\ pc = "cleanup"
  /\ \E enabled \in BOOLEAN : opt' = [opt EXCEPT !.rollbackOnError = enabled]
  /\ IF MustRollBack THEN Goto("rollback") /\ UNCHANGED outcome ELSE Finish
  /\ UNCHANGED <<usedSavepoint, completed, failed, script, late, opNumber, op, aborted,
                 tracked, wire, copy, backend, reader, totals>>

(* A ROLLBACK that fails is ignored.                                       *)
Rollback ==
  /\ pc = "rollback" /\ reply # "none"
  /\ reply' = "none"
  /\ Finish
  /\ UNCHANGED <<opt, usedSavepoint, completed, failed, script, late, opNumber, op, aborted,
                 tracked, sent, orphan, copy, backend, reader, totals>>

(* release() is called at once; reader.close() waits for a pending read.   *)
Close ==
  /\ pc = "closing" /\ ~Reading
  /\ Goto("done")
  /\ UNCHANGED <<opt, usedSavepoint, completed, failed, outcome, script, late, opNumber, op,
                 aborted, tracked, wire, copy, backend, reader, totals>>

-----------------------------------------------------------------------------
(* The backend session ends with its connection, and so does its block.    *)
LoseConnection ==
  /\ up /\ pc # "done"
  /\ up' = FALSE /\ orphan' = "none"
  /\ tx' = "idle" /\ savepoint' = FALSE /\ inner' = {} /\ pending' = {}
  /\ UNCHANGED <<client, opNumber, op, aborted, tracked, sent, reply, copy, entry, kept,
                 reader, totals>>

(* The signal fires: a signalled query rejects at once, a COPY is          *)
(* abandoned, and a pending read of the source goes on.                    *)
Abort ==
  /\ ~aborted /\ aborted' = TRUE /\ pc # "done"
  /\ IF sent # "none" /\ pc \notin Unsignalled
       THEN /\ sent' = "none" /\ reply' = "rejected"
            /\ orphan' = IF up THEN sent ELSE "none"
            /\ UNCHANGED <<copy, gen, activeCopy>>
     ELSE IF copy \in {"open", "ending"}
       THEN AbandonCopy /\ UNCHANGED <<sent, orphan>>
     ELSE UNCHANGED <<wire, copy, gen, activeCopy>>
  /\ UNCHANGED <<client, opNumber, op, tracked, backend, copyPayloadPending, lines, ended,
                 totals>>

Terminated == pc = "done" /\ UNCHANGED vars

Client ==
  \/ Acquire \/ Connect \/ Loop \/ ReadOperation \/ ReadEnd \/ ReadFails \/ Protect
  \/ Ask \/ AskCopy \/ Savepoint \/ Exec \/ Copied \/ Release \/ Discard \/ Recover
  \/ RollbackTo \/ ReleaseAfter \/ Undo \/ Cleanup \/ Rollback \/ Close

Backend == (Serve \/ ServeOrphan \/ Unreachable) /\ UNCHANGED <<client, reader, totals>>

CopyBlock == (Generator \/ MonitorThrows \/ Copying) /\ UNCHANGED client

Next == Client \/ Backend \/ CopyBlock \/ LoseConnection \/ Abort \/ Terminated

(* The source delivers or ends, a live backend answers a statement and     *)
(* ends a COPY it was told to end, and a lost connection is reported.      *)
(* Nothing obliges a server to reject an open COPY.                        *)
Fairness ==
  /\ WF_vars(Client)
  /\ WF_vars(Backend)
  /\ WF_vars(Generator /\ UNCHANGED client)
  /\ WF_vars((copy # "open" \/ ~up) /\ Copying /\ UNCHANGED client)

Spec == Init /\ [][Next]_vars /\ Fairness

-----------------------------------------------------------------------------
ClientType ==
  /\ pc \in Points /\ cause \in Causes /\ outcome \in Outcomes
  /\ opt \in [stopOnError : BOOLEAN, rollbackOnError : BOOLEAN]
  /\ usedSavepoint \in BOOLEAN
  /\ completed \subseteq 1..opNumber /\ failed \subseteq 1..opNumber
  /\ late \subseteq 1..opNumber
  /\ opNumber <= MaxOps /\ script \in [1..opNumber -> Kinds]

TypeOK == BackendType /\ CopyType /\ ClientType

(* The restore is over and the backend has nothing left to execute.        *)
Quiet == pc = "done" /\ up /\ sent = "none" /\ orphan = "none" /\ copy = "none"

Resolved == outcome \in {"success", "completed-with-errors"}

Uses(kind) == \E n \in 1..opNumber : script[n] = kind

DataIn(S) == {n \in S : script[n] \notin Control}

(* "On failure or cancellation it attempts to roll back an active          *)
(* transaction before releasing the caller-provided connection": none that *)
(* the dump began outlives a restore that rejects, whatever failed and     *)
(* wherever the signal fired, but for a signal that fires while BEGIN is   *)
(* on the wire, which the adapter's estimate does not see.                 *)
NoTransactionLeft ==
  Quiet /\ entry = "idle" /\ opt.rollbackOnError /\ ~Resolved
    /\ ~(aborted /\ op = "BEGIN") => tx = "idle"

(* Whenever the loop comes back for the next operation, the block is one   *)
(* that operation can run in: not aborted by a failure before it, without  *)
(* a savepoint of the restore left in it, and with an adapter that knows   *)
(* it (unless the dump says END, which the estimate does not follow).      *)
SessionUsable ==
  pc = "loop" /\ entry = "idle" /\ up =>
    /\ tx # "failed" /\ ~savepoint
    /\ tracked \in {TrackedFor(tx), "unknown"} \/ Uses("END")

(* What the result says of an operation is what the backend did with it: a *)
(* failed one leaves nothing behind, and in a restore that resolves, with  *)
(* every transaction statement accepted, a completed one is permanent as   *)
(* soon as its transaction is committed.  An operation that a progress     *)
(* callback failed after the server was done with it is exempt.            *)
EffectsAsReported ==
  Quiet /\ entry = "idle" =>
    /\ (failed \ late) \cap (inner \cup pending \cup kept) = {}
    /\ Resolved /\ (\A n \in failed : script[n] \notin Control)
         => DataIn(completed) \subseteq kept \cup pending

(* stopOnError: false "records recoverable SQL or COPY execution errors    *)
(* and continues": such a restore ends early only for the connection, an   *)
(* invalid dump, a callback, a COPY whose payload has no end or was not    *)
(* yet closed, and, where the adapter did not know the transaction, in     *)
(* SAVEPOINT or in recovery.                                               *)
ContinuesPastErrors ==
  outcome = "failed" /\ ~opt.stopOnError /\ up /\ entry = "idle" =>
    \/ cause \in {"connect", "dump", "callback", "payload", "truncated"}
    \/ cause \in {"savepoint", "recover"} /\ (Uses("END") \/ late # {} \/ tracked = "unknown")

(* rowsRestored is reset for every operation that failed and copyBytes-    *)
(* Written never misses one that completed, at each turn of the loop.      *)
TotalsMatchReport ==
  pc \in {"loop", "done"} /\ ~aborted =>
    /\ rowsOf = DataIn(completed \ failed)
    /\ {n \in completed : script[n] = "copy"} \subseteq counted

(* Every operation is settled once, in order, and the promise settles.     *)
(* An operation that a callback failed after it was counted is in both     *)
(* counters of the result; for the contract it failed.                     *)
Contract == INSTANCE RestoreContract WITH
  stopOnError <- opt.stopOnError,
  taken       <- opNumber,
  completed   <- completed \ failed,
  outcome     <- IF pc = "done" THEN outcome ELSE "running"

KeepsContract == Contract!Spec
=============================================================================
