----------------------------- MODULE DataExport -----------------------------
(***************************************************************************)
(* Table data export: the engine reads each planned table through a cursor *)
(* of the dump transaction and hands batches to the serializer, and on an  *)
(* error either fails fast or, with bestEffort, asks the serializer to     *)
(* close the table and goes on with the next one.                          *)
(*                                                                         *)
(* Three loops are nested here: export() around the generator stream(),    *)
(* and stream() around the generator streamTableRows().  An error thrown   *)
(* at a yield runs the finally blocks below it first, so the path from an  *)
(* error to the end of the export crosses all three; ep is the point the   *)
(* three have reached and why the reason a table is being left.            *)
(***************************************************************************)
EXTENDS PlainDataSerializer, PgAdapter

CONSTANTS
  FetchSize,   \* fetchSize of every planned table
  BatchSize    \* batchSize of every planned table

ASSUME ReadSizesAssumption ==
  FetchSize \in Nat \ {0} /\ BatchSize \in Nat \ {0}

VARIABLES
  ep,         \* where the export is
  opt,        \* bestEffort, and strategy: "stream" (adapter) or "cursor" (SQL)
  rows,       \* rows each table has
  table,          \* the table being exported
  got,        \* rows of table the client has received
  pos,        \* rows of table the engine has taken
  short,      \* the last fetch returned fewer rows than FetchSize
  batch,      \* batchRows.length
  resume,     \* where stream() goes on when its yield returns
  why,        \* why table is being left: end, read, cancel, consumer, return
  declared,   \* the client believes its cursor is open
  cursor,     \* the server has it open
  tx,         \* BackendTx of the dump session
  tracked,    \* TrackedTx of its adapter
  lastBatch,  \* table of the last batch yielded
  blamed,     \* tableIdentity of the error the export rejects with
  faulted     \* tables with a fault of their own (history)

engine  == <<ep, opt, rows, table, got, pos, short, batch, resume, why, declared, cursor,
             tx, tracked, lastBatch, blamed, faulted>>
vars    == <<format, serializer, output, engine>>
reading == <<got, pos, short, batch, declared, cursor>>
session == <<tx, tracked>>
report  == <<lastBatch, blamed, faulted>>

Settled == {"completed", "cancelled", "failed"}

Init ==
  /\ InitSerializer
  /\ opt \in [bestEffort : BOOLEAN, strategy : {"stream", "cursor"}]
  /\ rows \in [Tables -> Rows]
  /\ ep = "start" /\ table = 0
  /\ got = 0 /\ pos = 0 /\ short = FALSE /\ batch = 0
  /\ resume = "row" /\ why = "end" /\ declared = FALSE /\ cursor = FALSE
  \* transactionMode none leaves no transaction for the engine to find
  /\ \/ tx = "open" /\ tracked = "in-transaction"
     \/ tx = "idle" /\ tracked = "idle"
  /\ lastBatch = NoTable /\ blamed = NoTable /\ faulted = {}

-----------------------------------------------------------------------------
(* The engine is at p, the serializer idle, and goes on at q.              *)
EngineAt(p) == ep = p /\ UNCHANGED <<format, serializer, output, opt, rows>>

Leave(reason) == ep' = "close" /\ why' = reason

(* A statement of the dump session may succeed only in a healthy block;    *)
(* one that fails aborts the block.  Its cursors go with the block.        *)
StatementOk     == tx = "open" /\ UNCHANGED tx
StatementFails  == tx' = TxAfterError(tx)

(* query() rejects: the adapter's estimate moves unless it was cancelled.  *)
QueryRejects ==
  tracked' = IF aborted THEN tracked ELSE AfterError(tracked)

(* The error of the server belongs to the table unless the block had       *)
(* already failed.                                                         *)
Fault == faulted' = IF tx = "open" /\ ~aborted THEN faulted \cup {table} ELSE faulted

(* stream() before its loop: the status check and SET LOCAL row_security.  *)
Start ==
  /\ EngineAt("start")
  /\ \/ aborted /\ ep' = "cancelled" /\ UNCHANGED session
     \/ ~aborted /\ tracked # "in-transaction" /\ ep' = "failed" /\ UNCHANGED session
     \/ ~aborted /\ tracked = "in-transaction" /\ ep' = "next" /\ UNCHANGED session
     \/ /\ ~aborted /\ tracked = "in-transaction" /\ ep' = "failed"
        /\ StatementFails /\ QueryRejects
  /\ UNCHANGED <<table, reading, resume, why, report>>

(* The head of the loop over plan.tables.                                  *)
NextTable ==
  /\ ep = "next"
  /\ UNCHANGED <<format, output, opt, rows, resume, why, session, report>>
  /\ IF table = TableCount
     THEN /\ ep' = "finishing" /\ sp' = "finish" /\ call' = "finish"
          /\ UNCHANGED <<target, todo, active, pend, counts, table, reading>>
     ELSE /\ UNCHANGED serializer
          /\ IF aborted THEN ep' = "cancelled" /\ UNCHANGED <<table, reading>>
             ELSE /\ ep' = IF opt.strategy = "cursor" THEN "declare" ELSE "fetch"
                  /\ table' = table + 1
                  /\ got' = 0 /\ pos' = 0 /\ short' = FALSE /\ batch' = 0
                  /\ UNCHANGED <<declared, cursor>>

(* DECLARE.  A signal that fires while it runs rejects the promise whether *)
(* or not the server has opened the cursor.                                *)
Declare ==
  /\ EngineAt("declare")
  /\ \/ ~aborted /\ StatementOk /\ cursor' = TRUE /\ declared' = TRUE
        /\ ep' = "fetch" /\ UNCHANGED <<tracked, why, faulted>>
     \/ ~aborted /\ StatementFails /\ QueryRejects /\ Fault /\ Leave("read")
        /\ UNCHANGED <<cursor, declared>>
     \/ aborted /\ Leave("cancel")
        /\ \/ UNCHANGED <<tx, cursor>>
           \/ StatementFails /\ UNCHANGED cursor
           \/ StatementOk /\ cursor' = TRUE
        /\ UNCHANGED <<declared, tracked, faulted>>
  /\ UNCHANGED <<table, got, pos, short, batch, resume, lastBatch, blamed>>

(* FETCH FORWARD, or the next read of the adapter's stream.  The stream    *)
(* does not tell the adapter's estimate that it failed.                    *)
Fetch ==
  /\ EngineAt("fetch")
  /\ \/ /\ ~aborted /\ StatementOk
        /\ LET n == IF rows[table] - got < FetchSize THEN rows[table] - got ELSE FetchSize
           IN got' = got + n /\ short' = (n < FetchSize)
        /\ ep' = "row" /\ UNCHANGED <<why, tracked, faulted, cursor>>
     \/ /\ ~aborted /\ StatementFails /\ Fault /\ Leave("read") /\ cursor' = FALSE
        /\ IF opt.strategy = "cursor" THEN QueryRejects ELSE UNCHANGED tracked
        /\ UNCHANGED <<got, short>>
     \/ /\ aborted /\ Leave("cancel")
        /\ \/ UNCHANGED <<tx, cursor>>
           \/ StatementFails /\ cursor' = FALSE
        /\ UNCHANGED <<got, short, tracked, faulted>>
  /\ UNCHANGED <<table, pos, batch, declared, resume, lastBatch, blamed>>

(* Hand the batch to the consumer, which is serializer.consume.            *)
Yield(n, next) ==
  /\ ep' = "consuming" /\ resume' = next /\ lastBatch' = table
  /\ sp' = "consume" /\ call' = "consume" /\ target' = table /\ todo' = n
  /\ UNCHANGED <<active, pend, counts>>

(* One turn of stream()'s loop over the rows received.                     *)
Row ==
  /\ ep = "row" /\ UNCHANGED <<format, output, opt, rows>>
  /\ UNCHANGED <<table, got, short, declared, cursor, session, blamed>>
  /\ \/ /\ pos = got   \* the cursor loop: the next fetch, or the end
        /\ IF short THEN Leave("end") ELSE ep' = "fetch" /\ UNCHANGED why
        /\ UNCHANGED <<serializer, pos, batch, resume, lastBatch, faulted>>
     \/ /\ pos < got /\ aborted /\ Leave("cancel")
        /\ UNCHANGED <<serializer, pos, batch, resume, lastBatch, faulted>>
     \/ /\ pos < got /\ ~aborted /\ Leave("read")   \* normalizeRow throws
        /\ faulted' = faulted \cup {table}
        /\ UNCHANGED <<serializer, pos, batch, resume, lastBatch>>
     \/ /\ pos < got /\ ~aborted
        /\ pos' = pos + 1 /\ batch' = batch + 1
        /\ UNCHANGED <<why, faulted>>
        /\ IF batch + 1 >= BatchSize THEN Yield(batch + 1, "row")
           ELSE UNCHANGED <<serializer, ep, resume, lastBatch>>

(* The finally block of streamTableRows.  CLOSE has no signal; when it     *)
(* fails the adapter's estimate says so and the failure is dropped.        *)
Close ==
  /\ EngineAt("close")
  /\ ep' = CASE why = "end"    -> "tail"
             [] why = "return" -> "failed"
             [] OTHER          -> "caught"
  /\ \/ ~declared /\ UNCHANGED <<cursor, session>>
     \/ declared /\ StatementOk /\ cursor' = FALSE /\ UNCHANGED tracked
     \/ declared /\ tx # "open" /\ tracked' = AfterError(tracked) /\ UNCHANGED <<cursor, tx>>
  /\ declared' = FALSE
  /\ UNCHANGED <<table, got, pos, short, batch, resume, why, report>>

\* Mutant of Tail: the partial batch is dropped.
TailDropped ==
  /\ ep = "tail" /\ UNCHANGED <<format, output, opt, rows>>
  /\ ep' = "check"
  /\ UNCHANGED <<serializer, table, resume, lastBatch, reading, why, session, blamed, faulted>>

(* The last, partial batch.                                                *)
Tail ==
  /\ ep = "tail" /\ UNCHANGED <<format, output, opt, rows>>
  /\ IF batch > 0 THEN Yield(batch, "check")
     ELSE ep' = "check" /\ UNCHANGED <<serializer, resume, lastBatch>>
  /\ UNCHANGED <<table, reading, why, session, blamed, faulted>>

(* The transaction must still be there when a table ends.                  *)
Check ==
  /\ EngineAt("check")
  /\ \/ aborted /\ ep' = "caught" /\ why' = "cancel"
     \/ ~aborted /\ tracked # "in-transaction" /\ ep' = "caught" /\ why' = "read"
     \/ ~aborted /\ tracked = "in-transaction" /\ ep' = "next" /\ UNCHANGED why
  /\ UNCHANGED <<table, reading, resume, session, report>>

-----------------------------------------------------------------------------
(* onRecoverableTableError is serializer.recoverTable.                     *)
Recover(tab) ==
  /\ ep' = "recovering" /\ sp' = "recover" /\ call' = "recover" /\ target' = tab
  /\ UNCHANGED <<todo, active, pend, counts>>

\* Mutant of Caught: a read error is recovered without bestEffort.
CaughtAlwaysRecovers ==
  /\ ep = "caught" /\ UNCHANGED <<format, output, opt, rows>>
  /\ UNCHANGED <<table, reading, resume, why, session, lastBatch, faulted>>
  /\ \/ (aborted \/ why = "cancel") /\ ep' = "cancelled" /\ UNCHANGED <<serializer, blamed>>
     \/ ~aborted /\ why = "read" /\ Recover(table) /\ UNCHANGED blamed
     \/ ~aborted /\ why = "consumer" /\ ep' = "next" /\ UNCHANGED <<serializer, blamed>>

(* The catch of stream().  A rejection of the generator reaches export()   *)
(* inside the try around consume once a batch was yielded, and export()    *)
(* then names that batch.                                                  *)
Caught ==
  /\ ep = "caught" /\ UNCHANGED <<format, output, opt, rows>>
  /\ UNCHANGED <<table, reading, resume, why, session, lastBatch, faulted>>
  /\ \/ (aborted \/ why = "cancel") /\ ep' = "cancelled" /\ UNCHANGED <<serializer, blamed>>
     \/ /\ ~aborted /\ why = "read" /\ opt.bestEffort
        /\ Recover(table) /\ UNCHANGED blamed
     \/ /\ ~aborted /\ why = "read" /\ ~opt.bestEffort
        /\ ep' = "failed" /\ blamed' = (IF lastBatch = NoTable THEN table ELSE lastBatch)
        /\ UNCHANGED serializer
     \/ ~aborted /\ why = "consumer" /\ ep' = "next" /\ UNCHANGED <<serializer, blamed>>

(* A step of the serializer; a diagnostic of consume is a fault of its     *)
(* table.                                                                  *)
Serialize ==
  /\ SerializerStep
  /\ faulted' = IF call = "consume" THEN faulted \cup (flagged' \ flagged) ELSE faulted
  /\ UNCHANGED <<ep, opt, rows, table, reading, resume, why, session, lastBatch, blamed>>

(* A method of the serializer has returned (p) or thrown.                  *)
Idle == sp' = "idle" /\ UNCHANGED <<call, target, todo, active, pend, counts>>
Returned(p) == ep = p /\ sp = "ok" /\ UNCHANGED <<format, output, opt, rows>>
Thrown(p) == ep = p /\ sp = "threw" /\ UNCHANGED <<format, output, opt, rows>>

\* Mutant of BatchConsumed: batchRows is not reset after the yield.
BatchConsumedKept ==
  /\ Returned("consuming") /\ Idle /\ ep' = resume
  /\ UNCHANGED <<table, reading, resume, why, session, report>>

BatchConsumed ==
  /\ Returned("consuming") /\ Idle /\ ep' = resume /\ batch' = 0
  /\ UNCHANGED <<table, got, pos, short, declared, cursor, resume, why, session, report>>

\* Mutant of ConsumerFailed: the generator is not ended before rejecting.
ConsumerFailedNoReturn ==
  /\ Thrown("consuming")
  /\ IF opt.bestEffort
     THEN Recover(lastBatch) /\ why' = "consumer" /\ UNCHANGED blamed
     ELSE Idle /\ blamed' = lastBatch /\ ep' = "failed" /\ UNCHANGED why
  /\ UNCHANGED <<table, reading, resume, session, lastBatch, faulted>>

\* Mutant of ConsumerFailed: the table is closed in the output first, with
\* or without bestEffort.
ConsumerFailedRecovers ==
  /\ Thrown("consuming")
  /\ Recover(lastBatch) /\ why' = "consumer"
  /\ UNCHANGED <<table, reading, resume, session, report>>

(* The catch of export(): close the table and go on, or end the generator  *)
(* and reject.                                                             *)
ConsumerFailed ==
  /\ Thrown("consuming")
  /\ IF opt.bestEffort
     THEN Recover(lastBatch) /\ why' = "consumer" /\ UNCHANGED blamed
     ELSE /\ Idle /\ blamed' = lastBatch
          /\ IF resume = "row" THEN Leave("return") ELSE ep' = "failed" /\ UNCHANGED why
  /\ UNCHANGED <<table, reading, resume, session, lastBatch, faulted>>

\* Mutant of Recovered: a table whose read failed is read again.
RecoveredRetries ==
  /\ Returned("recovering") /\ Idle
  /\ ep' = CASE why = "read" -> "declare"
             [] why = "consumer" /\ resume = "row" -> "close"
             [] OTHER -> "caught"
  /\ UNCHANGED <<table, reading, resume, why, session, report>>

(* After recoverTable: the next table, or stream.throw into the generator, *)
(* whose finally blocks run only if it stands in its row loop.             *)
Recovered ==
  /\ Returned("recovering") /\ Idle
  /\ ep' = CASE why = "read" -> "next"
             [] why = "consumer" /\ resume = "row" -> "close"
             [] OTHER -> "caught"
  /\ UNCHANGED <<table, reading, resume, why, session, report>>

(* recoverTable rejects.  export() rejects too and resumes nothing: the    *)
(* second recoverTable it tries when a batch was yielded meets the same    *)
(* signal or stream and is rejected without writing.                       *)
RecoverFailed ==
  /\ Thrown("recovering") /\ Idle
  /\ ep' = "failed" /\ blamed' = target
  /\ UNCHANGED <<table, reading, resume, why, session, lastBatch, faulted>>

(* serializer.finish() ends the data step of the dump.                     *)
Finished ==
  /\ \/ Returned("finishing") /\ ep' = "completed"
     \/ Thrown("finishing") /\ ep' = "failed"
  /\ Idle /\ UNCHANGED <<table, reading, resume, why, session, report>>

(* The caller's signal.                                                    *)
Abort ==
  /\ ~aborted /\ ep \notin Settled
  /\ aborted' = TRUE /\ UNCHANGED <<format, serializer, broken, written, engine>>

EngineStep ==
  \/ Start \/ NextTable \/ Declare \/ Fetch \/ Row \/ Close \/ Tail \/ Check \/ Caught
  \/ BatchConsumed \/ ConsumerFailed \/ Recovered \/ RecoverFailed \/ Finished

Next == EngineStep \/ Serialize \/ Abort

Spec == Init /\ [][Next]_vars

(* Every statement is answered and every write settles, so the export's    *)
(* own steps are taken; the signal need never fire.                        *)
FairSpec == Spec /\ WF_vars(EngineStep \/ Serialize)
-----------------------------------------------------------------------------
EngineType ==
  /\ ep \in Settled \cup {"start", "next", "declare", "fetch", "row", "close", "tail", "check",
                          "caught", "consuming", "recovering", "finishing"}
  /\ opt \in [bestEffort : BOOLEAN, strategy : {"stream", "cursor"}]
  /\ rows \in [Tables -> Rows] /\ table \in {NoTable} \cup Tables
  /\ got \in Rows /\ pos \in Rows /\ short \in BOOLEAN /\ batch \in 0..BatchSize
  /\ resume \in {"row", "check"}
  /\ why \in {"end", "read", "cancel", "consumer", "return"}
  /\ declared \in BOOLEAN /\ cursor \in BOOLEAN
  /\ tx \in BackendTx /\ tracked \in TrackedTx
  /\ lastBatch \in {NoTable} \cup Tables /\ blamed \in {NoTable} \cup Tables
  /\ faulted \subseteq Tables

TypeOK == SerializerType /\ EngineType

\* Under bestEffort an exception of the progress callback is treated as an
\* error of the table, and recoverTable may then close a block twice.
CallbackRecovered == opt.bestEffort /\ raised

(* Whatever fails, and whichever recovery runs, rows go only where a       *)
(* restore reads them as rows of their table, every header and terminator  *)
(* pairs up, comments stand outside COPY blocks, and a completed export    *)
(* leaves no block open: recoverTable, completeActive and startTable agree *)
(* on which block is open although each returns early in its own cases.    *)
OutputWellFormed ==
  ~CallbackRecovered => ~strayed /\ (ep = "completed" => block = NoTable)

(* No row is written twice, and none that was not read: a pending INSERT   *)
(* row is written by one of three flushes or dropped, and a batch that     *)
(* failed is never serialized again.                                       *)
RowsWrittenOnce ==
  \A i \in Tables :
    LET taken   == IF i < table THEN rows[i] ELSE IF i = table THEN pos ELSE 0
        pending == IF i = active /\ ~aborted THEN pend ELSE 0
    IN out[i] + pending <= taken

(* A table is complete in the output of a completed export, or a           *)
(* diagnostic and an INCOMPLETE comment name it.  Left out: an INSERT      *)
(* table before one that bestEffort recovers, see LostRowsAreFlagged.      *)
CompleteOrFlagged ==
  ep = "completed" /\ ~CallbackRecovered =>
    \A i \in Tables : \/ out[i] = rows[i]
                      \/ i \in flagged /\ i \in marked
                      \/ opt.bestEffort /\ format[i] = "insert" /\ \E j \in flagged : j > i

(* bestEffort: recoverable failures "close the current COPY fragment (or   *)
(* discard unflushed INSERT rows), emit a visible INCOMPLETE SQL comment": *)
(* rows missing from a completed export are announced for their table.     *)
LostRowsAreFlagged ==
  ep = "completed" /\ ~raised =>
    \A i \in Tables : out[i] < rows[i] => i \in marked

(* stats.rows, which the dump reports as rowsWritten, is the number of     *)
(* rows in the output when nothing was recovered, and for COPY always.     *)
StatisticsMatchOutput ==
  ep = "completed" =>
    \A i \in Tables : format[i] = "copy" \/ ~opt.bestEffort => stat[i] = out[i]

(* A fail-fast export that meets any error of a table, of the output or of *)
(* the callback, or whose transaction broke under it, never completes, and *)
(* one that completes has passed every table.                              *)
FailFast ==
  ep = "completed" /\ ~opt.bestEffort =>
    /\ faulted = {} /\ flagged = {} /\ ~raised /\ ~broken
    /\ tx = "open" /\ tracked = "in-transaction" /\ table = TableCount

(* After the first error of a fail-fast export no byte is written: the     *)
(* finally blocks of the two generators run, and nothing of the serializer.*)
NothingAfterFailure ==
  [][ ~opt.bestEffort /\ (faulted # {} \/ flagged # {} \/ raised \/ broken \/ blamed # NoTable)
      => UNCHANGED written ]_vars

(* api/types.ts: callbacks "are invoked inline; exceptions abort the dump  *)
(* operation": an export whose progress callback threw does not complete.  *)
CallbackExceptionAborts == ep = "completed" => ~raised

(* A settled export has closed its cursor on the server, whatever path the *)
(* error took through the two generators.  Left out: a signal that rejects *)
(* DECLARE in flight, and a recovery that is itself rejected (see README). *)
CursorClosed ==
  ep \in Settled /\ ~aborted /\ ~(opt.bestEffort /\ broken) => ~cursor

(* bestEffort: the export "continues at the next table": a table is        *)
(* reported incomplete only for a fault of its own.                        *)
ContinuesAtNextTable ==
  opt.bestEffort /\ ~raised => flagged \subseteq faulted

(* Every export settles: no error path leaves a generator waiting or a     *)
(* table exported again.                                                   *)
EventuallySettles == <>(ep \in Settled)
=============================================================================
