-------------------------- MODULE DataExportProofs --------------------------
(***************************************************************************)
(* Proofs about DataExport, for any number of tables, rows, rows of a      *)
(* fetch, of a batch and of an INSERT.                                     *)
(***************************************************************************)
EXTENDS DataExport, TLAPS

(* A method of the serializer is running; it threw in a fail-fast export,  *)
(* or the export is on the way to its rejection; what a stream that failed *)
(* or a signal in a write leads to, with the recovery that is tried first. *)
Running == sp \notin {"idle", "ok", "threw"}
Dead    == sp = "threw" \/ ep = "failed" \/ (ep = "close" /\ why = "return")
Doomed  == Dead \/ sp \in {"recover", "mark"}
Halted  == aborted \/ broken

(* The method that runs, and the points it can have reached.               *)
CallInv ==
  /\ ep = "consuming" =>
       /\ call = "consume"
       /\ sp \in {"consume", "complete", "blank", "begin", "header", "body", "push", "ok",
                  "threw"}
  /\ ep = "recovering" => call = "recover" /\ sp \in {"recover", "mark", "ok", "threw"}
  /\ ep = "finishing" =>
       call = "finish" /\ sp \in {"finish", "complete", "blank", "flush", "ok", "threw"}
  /\ ep \notin {"consuming", "recovering", "finishing"} => sp = "idle"

(* The table the engine works on, and how it can have come to leave it.    *)
TableInv ==
  /\ ep = "start" => table = 0
  /\ ep \notin {"start", "next", "cancelled", "failed"} => table # 0
  /\ ep \in {"finishing", "completed"} => table = TableCount
  /\ ep = "consuming" => lastBatch = table /\ target = table
  /\ ep = "recovering" => target = table /\ why \in {"read", "consumer"} /\ opt.bestEffort
  /\ ep = "caught" => why \in {"read", "cancel", "consumer"}
  /\ why = "consumer" => opt.bestEffort
  /\ active <= table

(* What has been read of the table.                                        *)
ReadInv ==
  /\ table # 0 => pos <= got /\ got <= rows[table] /\ (short => got = rows[table])
  /\ ep \in {"declare", "fetch", "row"} => batch < BatchSize
  /\ ep = "declare" => batch = 0
  /\ \/ ep \in {"tail", "check"} \/ (ep = "close" /\ why = "end")
     \/ (ep = "consuming" /\ resume = "check")
     => pos = rows[table] /\ why = "end"

(* The table whose fragment is open, and the rows pending for it.          *)
ActiveInv ==
  /\ sp \in {"header", "body", "push"} => active = target
  /\ \/ sp \in {"begin", "mark", "flush"} \/ ep = "completed"
     \/ ep = "finishing" /\ sp = "ok"
     => active = NoTable
  /\ sp \in {"complete", "blank"} => active # NoTable
  /\ sp = "header" => format[target] = "copy"
  /\ sp = "push" => format[target] = "insert"
  /\ active = NoTable \/ format[active] = "copy" \/ sp = "blank" => pend = 0

Control == TypeOK /\ CallInv /\ TableInv /\ ReadInv /\ ActiveInv

(* Rows of table i in the output or on their way: pending for an INSERT,   *)
(* or of a batch; and those the engine has taken from the cursor.          *)
Pending(i) == IF i = active THEN pend ELSE 0
Owed(i) ==
  IF i # table THEN 0
  ELSE IF ep = "consuming" THEN IF Running THEN todo ELSE 0
  ELSE IF ep \in {"fetch", "row", "tail"} \/ (ep = "close" /\ why = "end") THEN batch
  ELSE 0
Taken(i) == IF i < table THEN rows[i] ELSE IF i = table THEN pos ELSE 0

Kept(i)  == out[i] + Pending(i) + Owed(i)

RowsInv ==
  \A i \in Tables : out[i] <= Taken(i) /\ (~aborted => Kept(i) <= Taken(i))

(* A failed stream ends the export, and so does a callback that throws,    *)
(* unless bestEffort recovers it.                                          *)
DoomInv ==
  /\ broken => Doomed
  /\ raised /\ ~opt.bestEffort => Dead
  /\ ep = "recovering" /\ sp = "threw" => Halted

(* The COPY block the output ends in is that of the active table.          *)
Expected ==
  IF active # NoTable /\ format[active] = "copy" /\ sp \notin {"header", "blank"}
  THEN active ELSE NoTable

BlockInv ==
  /\ raised \/ (Halted /\ Doomed) \/ block = Expected
  /\ strayed => CallbackRecovered

StatInv ==
  \A i \in Tables :
    /\ format[i] = "copy" => stat[i] = out[i] \/ (aborted /\ Doomed)
    /\ format[i] = "insert" /\ ~opt.bestEffort => stat[i] = out[i] + Pending(i) \/ Dead

(* A fail-fast export that met a failure is on its way to reject.          *)
Failing ==
  Dead \/ (ep \in {"close", "caught"} /\ why \in {"read", "cancel"}) \/ ep = "cancelled"

FailInv ==
  ~opt.bestEffort =>
    /\ faulted # {} \/ flagged # {} \/ raised \/ broken \/ blamed # NoTable => Failing
    /\ \/ Failing
       \/ tx = "open" /\ tracked = "in-transaction"
       \/ ep = "start" /\ tracked = "idle"

CursorInv ==
  \/ aborted
  \/ ep = "failed" /\ opt.bestEffort /\ broken
  \/ ~cursor
  \/ /\ declared /\ tx = "open"
     /\ \/ ep \in {"fetch", "row", "close"}
        \/ ep = "consuming" /\ resume = "row"
        \/ ep = "recovering" /\ why = "consumer" /\ resume = "row"

(* Every row read of a table up to this one is written or still to be      *)
(* written, or the table is being left, or is known to be incomplete.      *)
Leaving ==
  \/ ep \in {"caught", "recovering", "failed", "cancelled"} \/ sp = "threw"
  \/ ep = "close" /\ why # "end"
Named(i) == i \in flagged /\ i \in marked
Lost(i) ==
  /\ opt.bestEffort /\ format[i] = "insert"
  /\ (\E j \in flagged : j > i) \/ (sp = "mark" /\ i < target)

AccountInv ==
  /\ \/ ep = "recovering" /\ sp = "ok"
     \/ ep \in {"close", "caught"} /\ why = "consumer"
     => Named(table)
  /\ ep \in {"next", "finishing", "completed"} /\ table # 0 =>
       pos = rows[table] \/ Named(table)
  /\ \/ raised \/ (Halted /\ Doomed)
     \/ \A i \in Tables :
          \/ Kept(i) = Taken(i)
          \/ Named(i) \/ Lost(i) \/ (i = table /\ Leaving)

(* The inductive invariant.                                                *)
Inv == Control /\ RowsInv /\ DoomInv /\ BlockInv /\ StatInv /\ FailInv /\ CursorInv /\ AccountInv

-----------------------------------------------------------------------------
(* What a running method says of the export: its point, the method and its *)
(* table.                                                                  *)
LEMMA Placement ==
  ASSUME Control
  PROVE  /\ sp \in {"consume", "begin", "header", "body", "push"} =>
              ep = "consuming" /\ call = "consume" /\ target = table /\ target \in Tables
         /\ sp \in {"recover", "mark"} =>
              ep = "recovering" /\ call = "recover" /\ target = table /\ target \in Tables
         /\ sp \in {"complete", "blank"} =>
              ep \in {"consuming", "finishing"} /\ active \in Tables
         /\ sp \in {"finish", "flush"} => ep = "finishing" /\ call = "finish"
         /\ ep \notin {"start", "next", "cancelled", "failed"} => table \in Tables
  BY DEF Control, TypeOK, SerializerType, MethodType, EngineType, CallInv, TableInv,
      ActiveInv, NoTable

(* Rows written go to one table.                                           *)
LEMMA RowsPut ==
  ASSUME NEW t \in Tables, NEW n \in Nat, out \in [Tables -> Nat], PutRows(t, n)
  PROVE  /\ out' \in [Tables -> Nat]
         /\ out'[t] = out[t] + n
         /\ \A i \in Tables : i # t => out'[i] = out[i]
  BY DEF PutRows

(* Rows counted go to one table.                                           *)
LEMMA StatCounts ==
  ASSUME NEW t \in Tables, NEW n \in Nat, stat \in [Tables -> Nat],
         stat' = [stat EXCEPT ![t] = @ + n]
  PROVE  /\ stat' \in [Tables -> Nat]
         /\ stat'[t] = stat[t] + n
         /\ \A i \in Tables : i # t => stat'[i] = stat[i]
  OBVIOUS

(* A write that succeeds or is rejected leaves a well-typed output.        *)
LEMMA PutType ==
  ASSUME OutputType
  PROVE  /\ \A t \in Tables, n \in Nat :
              Written(PutRows(t, n)) \/ Rejected(PutRows(t, n)) => OutputType'
         /\ \A t \in Tables :
              /\ Written(PutHeader(t)) \/ Rejected(PutHeader(t)) => OutputType'
              /\ Written(PutTerminator(t)) \/ Rejected(PutTerminator(t)) => OutputType'
              /\ Written(PutComment(t)) \/ Rejected(PutComment(t)) => OutputType'
         /\ Written(PutNothing) \/ Rejected(PutNothing) => OutputType'
         /\ UNCHANGED output => OutputType'
<1> USE DEF Written, Rejected, PutNothing, written, OutputType, Stray
<1>1. ASSUME NEW t \in Tables, NEW n \in Nat, Written(PutRows(t, n)) \/ Rejected(PutRows(t, n))
      PROVE  OutputType'
  <2>1. CASE PutRows(t, n)
    <3>1. out' \in [Tables -> Nat]
      BY <2>1, RowsPut
    <3>2. QED
      BY <1>1, <2>1, <3>1 DEF PutRows
  <2>2. CASE ~PutRows(t, n)
    BY <1>1, <2>2
  <2>3. QED
    BY <2>1, <2>2
<1>2. ASSUME NEW t \in Tables PROVE
        /\ Written(PutHeader(t)) \/ Rejected(PutHeader(t)) => OutputType'
        /\ Written(PutTerminator(t)) \/ Rejected(PutTerminator(t)) => OutputType'
        /\ Written(PutComment(t)) \/ Rejected(PutComment(t)) => OutputType'
  BY DEF PutHeader, PutTerminator, PutComment, NoTable
<1>3. Written(PutNothing) \/ Rejected(PutNothing) => OutputType'
  OBVIOUS
<1>4. UNCHANGED output => OutputType'
  BY DEF output
<1>5. QED
  BY <1>1, <1>2, <1>3, <1>4

(* The output stays well typed.                                            *)
LEMMA OutputTypeNext ==
  ASSUME Control, Next PROVE OutputType'
<1> USE DEF Control, TypeOK, SerializerType
<1>1. ASSUME Start \/ NextTable \/ Declare \/ Fetch \/ Row \/ Close \/ Tail \/ Check \/ Caught
             \/ BatchConsumed \/ ConsumerFailed \/ Recovered \/ RecoverFailed \/ Finished
      PROVE OutputType'
  BY <1>1, PutType DEF Start, EngineAt, StatementFails, QueryRejects, NextTable, Declare,
      Leave, StatementOk, Fault, Fetch, Row, Yield, Close, Tail, Check, Caught, Recover,
      BatchConsumed, Returned, Idle, ConsumerFailed, Thrown, Recovered, RecoverFailed,
      Finished
<1>2. ASSUME Serialize PROVE OutputType'
  <2>1. OutputType
    OBVIOUS
  <2>2. ASSUME Consume \/ Begin \/ BadRow \/ RowCancelled \/ Consumed \/ Finish PROVE OutputType'
    BY <2>1, <2>2, PutType DEF Consume, Begin, BadRow, RowCancelled, Consumed, Finish
  <2>3. ASSUME Complete PROVE OutputType'
    <3>1. active \in Tables /\ pend \in Nat
      BY <2>3, Placement DEF Complete, At, MethodType
    <3>2. QED
      BY <2>1, <2>3, <3>1, PutType DEF Complete, WriteFails
  <2>4. ASSUME Blank \/ Flush PROVE OutputType'
    BY <2>1, <2>4, PutType DEF Blank, Flush, WriteFails
  <2>5. ASSUME Header \/ RecoverMark PROVE OutputType'
    BY <2>1, <2>5, Placement, PutType DEF Header, RecoverMark, At, WriteFails
  <2>6. ASSUME CopyChunk PROVE OutputType'
    <3>1. target \in Tables /\ todo \in Nat
      BY <2>6, Placement DEF CopyChunk, At, MethodType
    <3>2. \E n \in 1..todo : Written(PutRows(target, n)) \/ WriteFails(PutRows(target, n))
      BY <2>6 DEF CopyChunk
    <3>3. QED
      BY <2>1, <3>1, <3>2, PutType DEF WriteFails
  <2>7. ASSUME FlushEarly PROVE OutputType'
    BY <2>1, <2>7, Placement, PutType DEF FlushEarly, At, WriteFails, MethodType
  <2>8. ASSUME Push PROVE OutputType'
    <3>1. target \in Tables /\ pend + 1 \in Nat
      BY <2>8, Placement DEF Push, MethodType
    <3>2. QED
      BY <2>1, <2>8, <3>1, PutType DEF Push
  <2>9. ASSUME RecoverEnd PROVE OutputType'
    BY <2>1, <2>9, PutType DEF RecoverEnd, CopyOpen, WriteFails, MethodType
  <2>10. QED
    BY <1>2, <2>2, <2>3, <2>4, <2>5, <2>6, <2>7, <2>8, <2>9 DEF Serialize, SerializerStep
<1>3. ASSUME Abort PROVE OutputType'
  BY <1>3 DEF Abort, OutputType, written
<1>4. QED
  BY <1>1, <1>2, <1>3 DEF Next, EngineStep, Serialize, SerializerStep

(* A chunk of COPY rows is written and counted, or rejected and not        *)
(* counted.                                                                *)
LEMMA ChunkWritten ==
  ASSUME MethodType, CopyChunk, target \in Tables
  PROVE  \E n \in 1..todo :
    \/ /\ Written(PutRows(target, n)) /\ n \in Nat /\ todo' = todo - n /\ todo' \in Nat
       /\ stat' \in [Tables -> Nat] /\ stat'[target] = stat[target] + n
       /\ \A i \in Tables : i # target => stat'[i] = stat[i]
       /\ UNCHANGED <<sp, active, pend, flagged, raised>>
    \/ /\ Rejected(PutRows(target, n)) /\ n \in Nat /\ sp' = "threw"
       /\ UNCHANGED <<todo, active, pend, stat, flagged, raised>>
<1>1. CopyChunk
  OBVIOUS
<1>2. PICK n \in 1..todo : 
       \/ /\ Written(PutRows(target, n))
          /\ todo' = todo - n /\ stat' = [stat EXCEPT ![target] = @ + n]
          /\ UNCHANGED <<sp, active, pend, flagged, raised>>
       \/ WriteFails(PutRows(target, n))
   BY <1>1 DEF CopyChunk
<1>3. n \in Nat /\ todo - n \in Nat 
   BY DEF MethodType
<1>4. CASE WriteFails(PutRows(target, n))
   BY <1>3, <1>4 DEF WriteFails, Threw, counts
<1>5. CASE ~WriteFails(PutRows(target, n))
   <2>1. /\ stat' \in [Tables -> Nat] /\ stat'[target] = stat[target] + n
         /\ \A i \in Tables : i # target => stat'[i] = stat[i]
     BY <1>2, <1>3, <1>5, StatCounts DEF MethodType
   <2>2. QED
     BY <1>2, <1>3, <1>5, <2>1
<1>6. QED
   BY <1>4, <1>5

(* The state of the serializer stays well typed.                           *)
LEMMA MethodTypeNext ==
  ASSUME Control, Next PROVE MethodType'
<1> USE DEF Control, TypeOK, SerializerType, MethodType, serializer, counts
<1>1. ASSUME Start \/ Declare \/ Fetch \/ Close \/ Check \/ BatchConsumed \/ Recovered
             \/ RecoverFailed \/ Finished
      PROVE MethodType'
  BY <1>1, Placement DEF Start, EngineAt, StatementFails, QueryRejects, Declare, Leave,
      StatementOk, Fault, Fetch, Close, Check, BatchConsumed, Returned, Idle, Recovered,
      RecoverFailed, Thrown, Finished
<1>2. ASSUME NextTable PROVE MethodType'
  BY <1>2 DEF NextTable
<1>3. ASSUME Row PROVE MethodType'
  <2>1. table \in Tables
    BY <1>3, Placement DEF Row
  <2>2. batch + 1 \in Nat
    BY ReadSizesAssumption DEF EngineType
  <2>3. QED
    BY <1>3, <2>1, <2>2 DEF Row, Yield
<1>4. ASSUME Tail PROVE MethodType'
  <2>1. table \in Tables
    BY <1>4, Placement DEF Tail
  <2>2. batch \in Nat
    BY ReadSizesAssumption DEF EngineType
  <2>3. QED
    BY <1>4, <2>1, <2>2 DEF Tail, Yield
<1>5. ASSUME Caught PROVE MethodType'
  BY <1>5, Placement DEF Caught, Recover
<1>6. ASSUME ConsumerFailed PROVE MethodType'
  BY <1>6 DEF ConsumerFailed, Thrown, Recover, Idle, Leave, EngineType
<1>7. ASSUME Consume \/ RowCancelled \/ Finish PROVE MethodType'
  BY <1>7 DEF Consume, At, RowCancelled, Threw, Finish
<1>8. ASSUME Complete PROVE MethodType'
  <2>1. /\ UNCHANGED <<format, call, target, todo, active, stat, flagged>>
        /\ sp' \in {"blank", "threw"} /\ pend' \in {0, pend} /\ raised' \in BOOLEAN
    <3>1. CASE format[active] = "copy"
      BY <1>8, <3>1 DEF Complete, At, WriteFails, Threw, Report
    <3>2. CASE format[active] # "copy"
      BY <1>8, <3>2 DEF Complete, At, WriteFails, Threw, Report
    <3>3. QED
      BY <3>1, <3>2
  <2>2. QED
    BY <2>1
<1>9. ASSUME Blank \/ Flush PROVE MethodType'
  BY <1>9 DEF Blank, Flush, At, WriteFails, Threw, Report
<1>10. ASSUME Begin PROVE MethodType'
  <2>1. target \in Tables
    BY <1>10, Placement DEF Begin, At
  <2>2. QED
    <3>1. flagged' \subseteq Tables /\ active' \in {NoTable} \cup Tables /\ pend' \in Nat
      BY <1>10, <2>1 DEF Begin
    <3>2. sp' \in {"header", "body", "threw"} /\ raised' \in BOOLEAN
      BY <1>10 DEF Begin, Threw, Report
    <3>3. QED
      BY <1>10, <3>1, <3>2 DEF Begin, At
<1>11. ASSUME BadRow \/ Consumed PROVE MethodType'
  BY <1>11, Placement DEF BadRow, Consumed, At, Threw, Report
<1>12. ASSUME Header \/ RecoverMark PROVE MethodType'
  BY <1>12, Placement DEF Header, RecoverMark, At, WriteFails, Threw
<1>13. ASSUME CopyChunk PROVE MethodType'
  <2>1. target \in Tables
    BY <1>13, Placement DEF CopyChunk, At
  <2>2. todo' \in Nat /\ stat' \in [Tables -> Nat]
    BY <1>13, <2>1, ChunkWritten
  <2>3. sp' \in {"body", "threw"} /\ UNCHANGED <<active, pend, flagged, raised>>
    BY <1>13 DEF CopyChunk, At, WriteFails, Threw
  <2>4. QED
    BY <1>13, <2>2, <2>3 DEF CopyChunk, At
<1>14. ASSUME FlushEarly PROVE MethodType'
  <2>1. /\ UNCHANGED <<format, call, target, todo, active, stat, flagged>>
        /\ sp' \in {"push", "threw"} /\ pend' \in {0, pend} /\ raised' \in BOOLEAN
    BY <1>14 DEF FlushEarly, At, WriteFails, Threw, Report
  <2>2. QED
    BY <2>1
<1>15. ASSUME Push PROVE MethodType'
  <2>1. target \in Tables
    BY <1>15, Placement DEF Push
  <2>2. todo' \in Nat
    BY <1>15 DEF Push
  <2>3. stat' \in [Tables -> Nat]
    BY <1>15, <2>1, StatCounts DEF Push
  <2>4. pend' \in Nat
    BY <1>15 DEF Push
  <2>5. QED
    BY <1>15, <2>2, <2>3, <2>4 DEF Push, At, Threw, Report
<1>16. ASSUME RecoverEnd PROVE MethodType'
  BY <1>16 DEF RecoverEnd, At, WriteFails, Threw
<1>17. ASSUME Abort PROVE MethodType'
  BY <1>17 DEF Abort
<1>18. QED
  BY <1>1, <1>2, <1>3, <1>4, <1>5, <1>6, <1>7, <1>8, <1>9, <1>10, <1>11, <1>12, <1>13, <1>14,
     <1>15, <1>16, <1>17 DEF Next, EngineStep, Serialize, SerializerStep

(* The state of the engine stays well typed: no batch grows past its size, *)
(* no fetch brings more rows than the table has.                           *)
LEMMA EngineTypeNext == ASSUME Control, Next, MethodType' PROVE EngineType'
<1> USE DEF Control, TypeOK, EngineType, reading, session, report, engine
<1>1. ASSUME Start PROVE EngineType'
  BY <1>1, Placement DEF Start, EngineAt, StatementFails, QueryRejects, AfterError,
      TxAfterError, BackendTx, TrackedTx, Settled
<1>2. ASSUME NextTable PROVE EngineType'
  <2>1. 0 \in Rows /\ 0 \in 0..BatchSize
    BY SizesAssumption, ReadSizesAssumption DEF Rows
  <2>2. table' \in {NoTable} \cup Tables
    BY <1>2, SizesAssumption DEF NextTable, Tables, NoTable
  <2>3. /\ got' \in {got, 0} /\ pos' \in {pos, 0} /\ short' \in {short, FALSE}
        /\ batch' \in {batch, 0}
    BY <1>2 DEF NextTable
  <2>4. got' \in Rows /\ pos' \in Rows /\ short' \in BOOLEAN /\ batch' \in 0..BatchSize
    BY <2>1, <2>3
  <2>5. /\ ep' \in {"finishing", "cancelled", "declare", "fetch"}
        /\ UNCHANGED <<opt, rows, resume, why, declared, cursor, tx, tracked, lastBatch, blamed,
                       faulted>>
    BY <1>2 DEF NextTable
  <2>6. QED
    BY <2>2, <2>4, <2>5 DEF Settled
<1>3. ASSUME Declare PROVE EngineType'
  <2>1. table \in Tables
    BY <1>3, Placement DEF Declare, EngineAt
  <2>2. tracked' \in TrackedTx /\ tx' \in BackendTx
    BY <1>3 DEF Declare, StatementOk, StatementFails, QueryRejects, TxAfterError, AfterError,
        BackendTx, TrackedTx
  <2>3. /\ ep' \in {"fetch", "close"} /\ why' \in {why, "read", "cancel"}
        /\ cursor' \in {cursor, TRUE} /\ declared' \in {declared, TRUE}
        /\ faulted' \in {faulted, faulted \cup {table}}
        /\ UNCHANGED <<opt, rows, table, got, pos, short, batch, resume, lastBatch, blamed>>
    BY <1>3 DEF Declare, EngineAt, Leave, Fault
  <2>4. why' \in {"end", "read", "cancel", "consumer", "return"} /\ faulted' \subseteq Tables
    BY <2>1, <2>3
  <2>5. cursor' \in BOOLEAN /\ declared' \in BOOLEAN
    BY <2>3
  <2>6. QED
    BY <2>2, <2>3, <2>4, <2>5
<1>4. ASSUME Fetch PROVE EngineType'
  <2>1. table \in Tables
    BY <1>4, Placement DEF Fetch, EngineAt
  <2>2. tracked' \in TrackedTx /\ tx' \in BackendTx
    BY <1>4 DEF Fetch, StatementOk, StatementFails, QueryRejects, TxAfterError, AfterError,
        BackendTx, TrackedTx
  <2>3. got <= rows[table] /\ rows[table] \in Rows /\ got \in Rows
    BY <2>1 DEF ReadInv, Tables
  <2>4. got' \in Rows /\ short' \in BOOLEAN
    <3>1. CASE UNCHANGED <<got, short>>
      BY <3>1
    <3>2. CASE ~UNCHANGED <<got, short>>
      <4> DEFINE n == IF rows[table] - got < FetchSize THEN rows[table] - got ELSE FetchSize
      <4>1. got' = got + n /\ short' = (n < FetchSize)
        BY <1>4, <3>2 DEF Fetch
      <4>2. QED
        BY <2>3, <4>1, SizesAssumption, ReadSizesAssumption DEF Rows
    <3>3. QED
      BY <3>1, <3>2
  <2>5. QED
    BY <1>4, <2>1, <2>2, <2>4 DEF Fetch, EngineAt, Leave, Fault
<1>5. ASSUME Row PROVE EngineType'
  <2>1. table \in Tables
    BY <1>5, Placement DEF Row
  <2>2. got \in Rows /\ pos \in Rows /\ batch \in 0..BatchSize /\ batch < BatchSize
    BY <1>5 DEF Row, ReadInv
  <2>3. pos' \in Rows /\ batch' \in 0..BatchSize
    BY <1>5, <2>2, SizesAssumption, ReadSizesAssumption DEF Row, Rows
  <2>4. QED
    BY <1>5, <2>1, <2>3 DEF Row, Leave, Yield
<1>6. ASSUME Close PROVE EngineType'
  <2>1. tx' \in BackendTx /\ tracked' \in TrackedTx /\ cursor' \in BOOLEAN
    BY <1>6 DEF Close, StatementOk, AfterError, TrackedTx
  <2>2. QED
    BY <1>6, <2>1 DEF Close, EngineAt, Settled
<1>7. ASSUME Tail PROVE EngineType'
  BY <1>7, Placement DEF Tail, Yield
<1>8. ASSUME Check PROVE EngineType'
  BY <1>8, Placement DEF Check, EngineAt
<1>9. ASSUME Caught PROVE EngineType'
  BY <1>9, Placement DEF Caught, Recover, Settled
<1>10. ASSUME BatchConsumed PROVE EngineType'
  <2>1. 0 \in 0..BatchSize
    BY ReadSizesAssumption
  <2>2. QED
    BY <1>10, <2>1 DEF BatchConsumed, Returned, Idle
<1>11. ASSUME ConsumerFailed PROVE EngineType'
  BY <1>11, Placement DEF ConsumerFailed, Thrown, Recover, Idle, Leave, Settled
<1>12. ASSUME Recovered PROVE EngineType'
  BY <1>12, Placement DEF Recovered, Returned, Idle
<1>13. ASSUME RecoverFailed PROVE EngineType'
  BY <1>13, Placement DEF RecoverFailed, Thrown, Idle, Settled, SerializerType, MethodType
<1>14. ASSUME Finished PROVE EngineType'
  BY <1>14, Placement DEF Finished, Returned, Thrown, Idle, Settled
<1>15. ASSUME Serialize PROVE EngineType'
  BY <1>15 DEF Serialize, MethodType
<1>16. ASSUME Abort PROVE EngineType'
  BY <1>16 DEF Abort
<1>17. QED
  BY <1>1, <1>2, <1>3, <1>4, <1>5, <1>6, <1>7, <1>8, <1>9, <1>10, <1>11, <1>12, <1>13, <1>14,
     <1>15, <1>16 DEF Next, EngineStep

-----------------------------------------------------------------------------
(* Every method is called at its point of the export and returns to it.    *)
LEMMA CallNext ==
  ASSUME Control, Next PROVE CallInv'
<1> USE DEF Control, TypeOK, SerializerType, MethodType, EngineType, CallInv, serializer,
    engine, written
<1>1. ASSUME Start PROVE CallInv'
  BY <1>1 DEF Start, EngineAt, StatementFails, QueryRejects, Settled
<1>2. ASSUME NextTable PROVE CallInv'
  BY <1>2 DEF NextTable, Settled
<1>3. ASSUME Declare PROVE CallInv'
  BY <1>3 DEF Declare, EngineAt, Leave, StatementOk, StatementFails, QueryRejects, Fault,
      Settled
<1>4. ASSUME Fetch PROVE CallInv'
  BY <1>4 DEF Fetch, EngineAt, Leave, StatementOk, StatementFails, QueryRejects, Fault,
      Settled
<1>5. ASSUME Row PROVE CallInv'
  BY <1>5 DEF Row, Leave, Yield, Settled
<1>6. ASSUME Close PROVE CallInv'
  BY <1>6 DEF Close, EngineAt, StatementOk, Settled
<1>7. ASSUME Tail PROVE CallInv'
  BY <1>7 DEF Tail, Yield, Settled
<1>8. ASSUME Check PROVE CallInv'
  BY <1>8 DEF Check, EngineAt, Settled
<1>9. ASSUME Caught PROVE CallInv'
  BY <1>9 DEF Caught, Recover, Settled
<1>10. ASSUME BatchConsumed PROVE CallInv'
  BY <1>10 DEF BatchConsumed, Returned, Idle, Settled
<1>11. ASSUME ConsumerFailed PROVE CallInv'
  BY <1>11 DEF ConsumerFailed, Thrown, Recover, Idle, Leave, Settled
<1>12. ASSUME Recovered PROVE CallInv'
  BY <1>12 DEF Recovered, Returned, Idle, Settled
<1>13. ASSUME RecoverFailed PROVE CallInv'
  BY <1>13 DEF RecoverFailed, Thrown, Idle, Settled
<1>14. ASSUME Finished PROVE CallInv'
  BY <1>14 DEF Finished, Returned, Thrown, Idle, Settled
<1>15. ASSUME Consume, Serialize PROVE CallInv'
  BY <1>15 DEF Consume, At, Serialize
<1>16. ASSUME Complete, Serialize PROVE CallInv'
  BY <1>16 DEF Complete, At, WriteFails, Written, Rejected, Threw, PutTerminator, PutRows,
      Stray, Report, PutNothing, Serialize
<1>17. ASSUME Blank, Serialize PROVE CallInv'
  BY <1>17 DEF Blank, At, WriteFails, Written, Rejected, Threw, PutNothing, Report, Serialize
<1>18. ASSUME Begin, Serialize PROVE CallInv'
  BY <1>18 DEF Begin, At, Threw, Report, Serialize
<1>19. ASSUME Header, Serialize PROVE CallInv'
  BY <1>19 DEF Header, At, WriteFails, Written, Rejected, Threw, PutHeader, Stray, PutNothing,
      Serialize
<1>20. ASSUME BadRow, Serialize PROVE CallInv'
  BY <1>20 DEF BadRow, At, Threw, Serialize
<1>21. ASSUME RowCancelled, Serialize PROVE CallInv'
  BY <1>21 DEF RowCancelled, At, Threw, Serialize
<1>22. ASSUME CopyChunk, Serialize PROVE CallInv'
  BY <1>22 DEF CopyChunk, At, WriteFails, Written, Rejected, Threw, PutRows, Stray,
      PutNothing, Serialize
<1>23. ASSUME FlushEarly, Serialize PROVE CallInv'
  BY <1>23 DEF FlushEarly, At, WriteFails, Written, Rejected, Threw, PutRows, Stray, Report,
      PutNothing, Serialize
<1>24. ASSUME Push, Serialize PROVE CallInv'
  BY <1>24 DEF Push, At, WriteFails, Written, Rejected, Threw, PutRows, Stray, Report,
      PutNothing, Serialize
<1>25. ASSUME Consumed, Serialize PROVE CallInv'
  BY <1>25 DEF Consumed, At, Report, Threw, Serialize
<1>26. ASSUME RecoverEnd, Serialize PROVE CallInv'
  BY <1>26 DEF RecoverEnd, At, WriteFails, Written, Rejected, Threw, PutTerminator, Stray,
      CopyOpen, PutNothing, Serialize
<1>27. ASSUME RecoverMark, Serialize PROVE CallInv'
  BY <1>27 DEF RecoverMark, At, WriteFails, Written, Rejected, Threw, PutComment, Stray,
      PutNothing, Serialize
<1>28. ASSUME Finish, Serialize PROVE CallInv'
  BY <1>28 DEF Finish, At, Serialize
<1>29. ASSUME Flush, Serialize PROVE CallInv'
  BY <1>29 DEF Flush, At, WriteFails, Written, Rejected, Threw, PutNothing, Report, Serialize
<1>30. ASSUME Abort PROVE CallInv'
  BY <1>30 DEF Abort
<1>31. QED
  BY <1>1, <1>2, <1>3, <1>4, <1>5, <1>6, <1>7, <1>8, <1>9, <1>10, <1>11, <1>12, <1>13, <1>14,
     <1>15, <1>16, <1>17, <1>18, <1>19, <1>20, <1>21, <1>22, <1>23, <1>24, <1>25, <1>26,
     <1>27, <1>28, <1>29, <1>30 DEF Next, EngineStep, Serialize, SerializerStep

(* The engine and the serializer agree on the table.                       *)
LEMMA TableNext ==
  ASSUME Control, TypeOK', Next PROVE TableInv'
<1> USE DEF Control, TableInv, NoTable, engine, serializer, reading, report
<1>1. ASSUME Start PROVE TableInv'
  BY <1>1, Placement DEF Start, EngineAt, StatementFails, QueryRejects, Settled, TypeOK,
      EngineType
<1>2. ASSUME NextTable PROVE TableInv'
  <2>1. table \in Nat /\ active \in Nat
    BY DEF TypeOK, EngineType, SerializerType, MethodType, Tables
  <2>2. \/ table = TableCount /\ table' = table /\ ep' = "finishing"
        \/ table' = table /\ ep' = "cancelled"
        \/ table' = table + 1 /\ ep' \in {"declare", "fetch"}
    BY <1>2 DEF NextTable
  <2>4. active' = active /\ active' <= table'
    BY <1>2, <2>1, <2>2 DEF NextTable
  <2>5. UNCHANGED <<why, opt>>
    BY <1>2 DEF NextTable
  <2>6. table' # 0 \/ ep' = "cancelled"
    BY <2>1, <2>2, SizesAssumption
  <2>7. QED
    BY <2>2, <2>4, <2>5, <2>6, <1>2 DEF NextTable
<1>3. ASSUME Declare PROVE TableInv'
  BY <1>3, Placement DEF Declare, EngineAt, Leave, StatementOk, StatementFails, QueryRejects,
      Fault, Settled, TypeOK, EngineType
<1>4. ASSUME Fetch PROVE TableInv'
  BY <1>4, Placement DEF Fetch, EngineAt, Leave, StatementOk, StatementFails, QueryRejects,
      Fault, Settled, TypeOK, EngineType
<1>5. ASSUME Row PROVE TableInv'
  BY <1>5, Placement DEF Row, Leave, Yield, Settled, TypeOK, EngineType
<1>6. ASSUME Close PROVE TableInv'
  BY <1>6, Placement DEF Close, EngineAt, StatementOk, Settled, TypeOK, EngineType
<1>7. ASSUME Tail PROVE TableInv'
  BY <1>7, Placement DEF Tail, Yield, Settled, TypeOK, EngineType
<1>8. ASSUME Check PROVE TableInv'
  BY <1>8, Placement DEF Check, EngineAt, Settled, TypeOK, EngineType
<1>9. ASSUME Caught PROVE TableInv'
  BY <1>9, Placement DEF Caught, Recover, Settled, TypeOK, EngineType
<1>10. ASSUME BatchConsumed PROVE TableInv'
  BY <1>10, Placement DEF BatchConsumed, Returned, Idle, Settled, TypeOK, EngineType
<1>11. ASSUME ConsumerFailed PROVE TableInv'
  BY <1>11, Placement DEF ConsumerFailed, Thrown, Recover, Idle, Leave, Settled, TypeOK,
      EngineType
<1>12. ASSUME Recovered PROVE TableInv'
  BY <1>12, Placement DEF Recovered, Returned, Idle, Settled, TypeOK, EngineType
<1>13. ASSUME RecoverFailed PROVE TableInv'
  BY <1>13, Placement DEF RecoverFailed, Thrown, Idle, Settled, TypeOK, EngineType
<1>14. ASSUME Finished PROVE TableInv'
  BY <1>14, Placement DEF Finished, Returned, Thrown, Idle, Settled, TypeOK, EngineType
<1>15. ASSUME Consume, Serialize PROVE TableInv'
  BY <1>15, Placement DEF Consume, At, Serialize, CallInv
<1>16. ASSUME Complete, Serialize PROVE TableInv'
  BY <1>16, Placement DEF Complete, At, WriteFails, Written, Rejected, Threw, PutTerminator,
      PutRows, Stray, Report, PutNothing, Serialize, CallInv
<1>17. ASSUME Blank, Serialize PROVE TableInv'
  <2>1. 0 <= table
    BY DEF TypeOK, EngineType, Tables
  <2>2. active' \in {active, NoTable} /\ UNCHANGED <<target, table, ep, opt, why, lastBatch>>
    BY <1>17 DEF Blank, At, WriteFails, Serialize
  <2>3. QED
    BY <2>1, <2>2
<1>18. ASSUME Begin, Serialize PROVE TableInv'
  <2>1. table <= table
    BY DEF TypeOK, EngineType, Tables
  <2>2. active' \in {active, table} /\ UNCHANGED <<target, table, ep, opt, why, lastBatch>>
    BY <1>18, Placement DEF Begin, At, Serialize
  <2>3. QED
    BY <2>1, <2>2
<1>19. ASSUME Header, Serialize PROVE TableInv'
  BY <1>19, Placement DEF Header, At, WriteFails, Written, Rejected, Threw, PutHeader, Stray,
      PutNothing, Serialize, CallInv
<1>20. ASSUME BadRow, Serialize PROVE TableInv'
  BY <1>20, Placement DEF BadRow, At, Threw, Serialize, CallInv
<1>21. ASSUME RowCancelled, Serialize PROVE TableInv'
  BY <1>21, Placement DEF RowCancelled, At, Threw, Serialize, CallInv
<1>22. ASSUME CopyChunk, Serialize PROVE TableInv'
  BY <1>22, Placement DEF CopyChunk, At, WriteFails, Written, Rejected, Threw, PutRows, Stray,
      PutNothing, Serialize, CallInv
<1>23. ASSUME FlushEarly, Serialize PROVE TableInv'
  BY <1>23, Placement DEF FlushEarly, At, WriteFails, Written, Rejected, Threw, PutRows,
      Stray, Report, PutNothing, Serialize, CallInv
<1>24. ASSUME Push, Serialize PROVE TableInv'
  BY <1>24, Placement DEF Push, At, WriteFails, Written, Rejected, Threw, PutRows, Stray,
      Report, PutNothing, Serialize, CallInv
<1>25. ASSUME Consumed, Serialize PROVE TableInv'
  BY <1>25, Placement DEF Consumed, At, Report, Threw, Serialize, CallInv
<1>26. ASSUME RecoverEnd, Serialize PROVE TableInv'
  <2>1. 0 <= table
    BY DEF TypeOK, EngineType, Tables
  <2>2. active' \in {active, NoTable} /\ UNCHANGED <<target, table, ep, opt, why, lastBatch>>
    BY <1>26 DEF RecoverEnd, At, WriteFails, Serialize
  <2>3. QED
    BY <2>1, <2>2
<1>27. ASSUME RecoverMark, Serialize PROVE TableInv'
  BY <1>27, Placement DEF RecoverMark, At, WriteFails, Written, Rejected, Threw, PutComment,
      Stray, PutNothing, Serialize, CallInv
<1>28. ASSUME Finish, Serialize PROVE TableInv'
  BY <1>28, Placement DEF Finish, At, Serialize, CallInv
<1>29. ASSUME Flush, Serialize PROVE TableInv'
  BY <1>29, Placement DEF Flush, At, WriteFails, Written, Rejected, Threw, PutNothing, Report,
      Serialize, CallInv
<1>30. ASSUME Abort PROVE TableInv'
  BY <1>30 DEF Abort
<1>31. QED
  BY <1>1, <1>2, <1>3, <1>4, <1>5, <1>6, <1>7, <1>8, <1>9, <1>10, <1>11, <1>12, <1>13, <1>14,
     <1>15, <1>16, <1>17, <1>18, <1>19, <1>20, <1>21, <1>22, <1>23, <1>24, <1>25, <1>26,
     <1>27, <1>28, <1>29, <1>30 DEF Next, EngineStep, Serialize, SerializerStep

(* What has been read of a table is accounted for until it is left.        *)
LEMMA ReadNext ==
  ASSUME Control, TypeOK', Next PROVE ReadInv'
<1> USE DEF Control, ReadInv, engine, reading
<1>1. ASSUME Start PROVE ReadInv'
  BY <1>1, Placement DEF Start, EngineAt, StatementFails, QueryRejects, TypeOK, EngineType
<1>2. ASSUME NextTable PROVE ReadInv'
  <2>1. table' # 0 => rows'[table'] \in Nat
    BY DEF TypeOK, EngineType, NoTable, Rows
  <2>2. QED
    BY <1>2, <2>1, ReadSizesAssumption DEF NextTable
<1>3. ASSUME Declare PROVE ReadInv'
  BY <1>3, Placement DEF Declare, EngineAt, Leave, StatementOk, StatementFails, QueryRejects,
      Fault, TypeOK, EngineType
<1>4. ASSUME Fetch PROVE ReadInv'
  <2>1. /\ rows[table] \in Nat /\ got \in Nat /\ pos \in Nat
        /\ pos <= got /\ got <= rows[table] /\ batch < BatchSize
    BY <1>4, Placement, SizesAssumption DEF Fetch, EngineAt, TypeOK, EngineType, Rows, Tables
  <2>2. CASE UNCHANGED <<got, short>> /\ ep' = "close" /\ why' # "end"
    BY <1>4, <2>2 DEF Fetch, EngineAt
  <2>3. CASE ep' = "row"
    <3> DEFINE n == IF rows[table] - got < FetchSize THEN rows[table] - got ELSE FetchSize
    <3>1. got' = got + n /\ (short' => n < FetchSize)
      BY <1>4, <2>3 DEF Fetch, EngineAt, Leave
    <3>2. pos <= got' /\ got' <= rows[table] /\ (short' => got' = rows[table])
      BY <2>1, <3>1, ReadSizesAssumption
    <3>3. QED
      BY <1>4, <2>1, <2>3, <3>2 DEF Fetch, EngineAt
  <2>4. QED
    BY <1>4, <2>2, <2>3 DEF Fetch, Leave
<1>5. ASSUME Row PROVE ReadInv'
  <2>1. /\ rows[table] \in Nat /\ got \in Nat /\ pos \in Nat /\ batch \in Nat
        /\ pos <= got /\ got <= rows[table] /\ batch < BatchSize
        /\ (short => got = rows[table]) /\ table # 0
    BY <1>5, Placement, SizesAssumption, ReadSizesAssumption DEF Row, TypeOK, EngineType,
        Rows, Tables
  <2>2. pos' <= got
    BY <1>5, <2>1 DEF Row
  <2>3. ep' = "row" => batch' < BatchSize
    BY <1>5, <2>1, ReadSizesAssumption DEF Row, Leave, Yield
  <2>4. ep' \in {"row", "fetch", "close", "consuming"} /\ (ep' = "fetch" => batch' = batch)
    BY <1>5 DEF Row, Leave, Yield
  <2>5. (ep' = "close" /\ why' = "end") => pos = got /\ short /\ pos' = pos
    BY <1>5 DEF Row, Leave, Yield
  <2>6. (ep' = "consuming") => resume' = "row"
    BY <1>5 DEF Row, Leave, Yield
  <2>7. UNCHANGED <<table, got, short, rows>>
    BY <1>5 DEF Row
  <2>8. QED
    BY <2>1, <2>2, <2>3, <2>4, <2>5, <2>6, <2>7
<1>6. ASSUME Close PROVE ReadInv'
  BY <1>6, Placement DEF Close, EngineAt, StatementOk, TypeOK, EngineType
<1>7. ASSUME Tail PROVE ReadInv'
  BY <1>7, Placement DEF Tail, Yield, TypeOK, EngineType
<1>8. ASSUME Check PROVE ReadInv'
  BY <1>8, Placement DEF Check, EngineAt, TypeOK, EngineType
<1>9. ASSUME Caught PROVE ReadInv'
  BY <1>9, Placement DEF Caught, Recover, TypeOK, EngineType
<1>10. ASSUME BatchConsumed PROVE ReadInv'
  <2>1. 0 < BatchSize
    BY ReadSizesAssumption
  <2>2. QED
    BY <1>10, <2>1 DEF BatchConsumed, Returned, Idle, TypeOK, EngineType
<1>11. ASSUME ConsumerFailed PROVE ReadInv'
  BY <1>11, Placement DEF ConsumerFailed, Thrown, Recover, Idle, Leave, TypeOK, EngineType
<1>12. ASSUME Recovered PROVE ReadInv'
  BY <1>12, Placement DEF Recovered, Returned, Idle, TypeOK, EngineType
<1>13. ASSUME RecoverFailed PROVE ReadInv'
  BY <1>13, Placement DEF RecoverFailed, Thrown, Idle, TypeOK, EngineType
<1>14. ASSUME Finished PROVE ReadInv'
  BY <1>14, Placement DEF Finished, Returned, Thrown, Idle, TypeOK, EngineType
<1>15. ASSUME Serialize PROVE ReadInv'
  BY <1>15 DEF Serialize
<1>16. ASSUME Abort PROVE ReadInv'
  BY <1>16 DEF Abort
<1>17. QED
  BY <1>1, <1>2, <1>3, <1>4, <1>5, <1>6, <1>7, <1>8, <1>9, <1>10, <1>11, <1>12, <1>13, <1>14,
     <1>15, <1>16 DEF Next, EngineStep, Serialize, SerializerStep

(* #active is the table whose rows are being written, and only an INSERT   *)
(* table has rows pending between two writes.                              *)
LEMMA ActiveNext ==
  ASSUME Control, TypeOK', Next PROVE ActiveInv'
<1> USE DEF Control, ActiveInv, serializer, counts, engine
<1>1. ASSUME Start PROVE ActiveInv'
  BY <1>1 DEF Start, EngineAt, StatementFails, QueryRejects, CallInv, Settled
<1>2. ASSUME NextTable PROVE ActiveInv'
  BY <1>2 DEF NextTable, CallInv, Settled
<1>3. ASSUME Declare PROVE ActiveInv'
  BY <1>3 DEF Declare, EngineAt, Leave, StatementOk, StatementFails, QueryRejects, Fault,
      CallInv, Settled
<1>4. ASSUME Fetch PROVE ActiveInv'
  BY <1>4 DEF Fetch, EngineAt, Leave, StatementOk, StatementFails, QueryRejects, Fault,
      CallInv, Settled
<1>5. ASSUME Row PROVE ActiveInv'
  BY <1>5 DEF Row, Leave, Yield, CallInv, Settled
<1>6. ASSUME Close PROVE ActiveInv'
  BY <1>6 DEF Close, EngineAt, StatementOk, CallInv, Settled
<1>7. ASSUME Tail PROVE ActiveInv'
  BY <1>7 DEF Tail, Yield, CallInv, Settled
<1>8. ASSUME Check PROVE ActiveInv'
  BY <1>8 DEF Check, EngineAt, CallInv, Settled
<1>9. ASSUME Caught PROVE ActiveInv'
  BY <1>9 DEF Caught, Recover, CallInv, Settled
<1>10. ASSUME BatchConsumed PROVE ActiveInv'
  BY <1>10 DEF BatchConsumed, Returned, Idle, TypeOK, EngineType
<1>11. ASSUME ConsumerFailed PROVE ActiveInv'
  BY <1>11 DEF ConsumerFailed, Thrown, Recover, Idle, Leave, CallInv, Settled
<1>12. ASSUME Recovered PROVE ActiveInv'
  BY <1>12 DEF Recovered, Returned, Idle, CallInv, Settled
<1>13. ASSUME RecoverFailed PROVE ActiveInv'
  BY <1>13 DEF RecoverFailed, Thrown, Idle, CallInv, Settled
<1>14. ASSUME Finished PROVE ActiveInv'
  BY <1>14 DEF Finished, Returned, Thrown, Idle, CallInv, Settled
<1>15. ASSUME Consume, Serialize PROVE ActiveInv'
  BY <1>15, Placement DEF Consume, At, Serialize, CallInv
<1>16. ASSUME Complete, Serialize PROVE ActiveInv'
  <2>1. sp' \in {"blank", "threw"} /\ UNCHANGED <<format, active, ep>>
    BY <1>16 DEF Serialize, Complete, At, WriteFails, Threw, Report
  <2>2. pend \in Nat
    BY DEF TypeOK, SerializerType, MethodType
  <2>3. /\ sp = "complete" /\ (pend' = 0 \/ pend' = pend)
        /\ sp' = "blank" => pend' = 0
    BY <1>16, <2>2 DEF Complete, At, WriteFails, Threw
  <2>4. ep # "completed"
    BY <1>16, Placement DEF Complete, At
  <2>5. QED
    BY <2>1, <2>2, <2>3, <2>4
<1>17. ASSUME Blank, Serialize PROVE ActiveInv'
  BY <1>17, Placement DEF Blank, At, WriteFails, Written, Rejected, Threw, PutNothing, Report,
      Serialize, CallInv
<1>18. ASSUME Begin, Serialize PROVE ActiveInv'
  BY <1>18, Placement DEF Begin, At, Threw, Report, Serialize, CallInv
<1>19. ASSUME Header, Serialize PROVE ActiveInv'
  BY <1>19, Placement DEF Header, At, WriteFails, Written, Rejected, Threw, PutHeader, Stray,
      PutNothing, Serialize, CallInv
<1>20. ASSUME BadRow, Serialize PROVE ActiveInv'
  BY <1>20, Placement DEF BadRow, At, Threw, Serialize, CallInv
<1>21. ASSUME RowCancelled, Serialize PROVE ActiveInv'
  BY <1>21, Placement DEF RowCancelled, At, Threw, Serialize, CallInv
<1>22. ASSUME CopyChunk, Serialize PROVE ActiveInv'
  BY <1>22, Placement DEF CopyChunk, At, WriteFails, Written, Rejected, Threw, PutRows, Stray,
      PutNothing, Serialize, CallInv
<1>23. ASSUME FlushEarly, Serialize PROVE ActiveInv'
  BY <1>23, Placement DEF FlushEarly, At, WriteFails, Written, Rejected, Threw, PutRows,
      Stray, Report, PutNothing, Serialize, CallInv
<1>24. ASSUME Push, Serialize PROVE ActiveInv'
  <2>1. sp \in {"body", "push"} /\ format[target] = "insert" /\ active = target
        /\ target # NoTable /\ ep = "consuming"
    BY <1>24, Placement DEF NoTable, Tables, Push
  <2>2. sp' \in {"body", "threw"} /\ UNCHANGED <<format, active, target, ep>>
    BY <1>24 DEF Serialize, Push, At, Threw, Report
  <2>3. QED
    BY <2>1, <2>2
<1>25. ASSUME Consumed, Serialize PROVE ActiveInv'
  BY <1>25, Placement DEF Consumed, At, Report, Threw, Serialize, CallInv
<1>26. ASSUME RecoverEnd, Serialize PROVE ActiveInv'
  BY <1>26, Placement DEF RecoverEnd, At, WriteFails, Written, Rejected, Threw, PutTerminator,
      Stray, CopyOpen, PutNothing, Serialize, CallInv
<1>27. ASSUME RecoverMark, Serialize PROVE ActiveInv'
  BY <1>27, Placement DEF RecoverMark, At, WriteFails, Written, Rejected, Threw, PutComment,
      Stray, PutNothing, Serialize, CallInv
<1>28. ASSUME Finish, Serialize PROVE ActiveInv'
  BY <1>28, Placement DEF Finish, At, Serialize, CallInv
<1>29. ASSUME Flush, Serialize PROVE ActiveInv'
  BY <1>29, Placement DEF Flush, At, WriteFails, Written, Rejected, Threw, PutNothing, Report,
      Serialize, CallInv
<1>30. ASSUME Abort PROVE ActiveInv'
  BY <1>30 DEF Abort
<1>31. QED
  BY <1>1, <1>2, <1>3, <1>4, <1>5, <1>6, <1>7, <1>8, <1>9, <1>10, <1>11, <1>12, <1>13, <1>14,
     <1>15, <1>16, <1>17, <1>18, <1>19, <1>20, <1>21, <1>22, <1>23, <1>24, <1>25, <1>26,
     <1>27, <1>28, <1>29, <1>30 DEF Next, EngineStep, Serialize, SerializerStep

-----------------------------------------------------------------------------
(* The plan does not change.                                               *)
LEMMA FormatNext == ASSUME Next PROVE UNCHANGED <<format, opt, rows>>
<1> USE DEF engine
<1>1. ASSUME EngineStep PROVE UNCHANGED <<format, opt, rows>>
  BY <1>1 DEF EngineStep, Start, NextTable, Declare, Fetch, Row, Close, Tail, Check, Caught,
      BatchConsumed, ConsumerFailed, Recovered, RecoverFailed, Finished, EngineAt, Returned,
      Thrown
<1>2. ASSUME Serialize PROVE UNCHANGED <<format, opt, rows>>
  BY <1>2 DEF Serialize, SerializerStep, At, Consume, Complete, Blank, Begin, Header, BadRow,
      RowCancelled, CopyChunk, FlushEarly, Push, Consumed, RecoverEnd, RecoverMark, Finish,
      Flush
<1>3. QED
  BY <1>1, <1>2 DEF Next, Abort

(* Control is inductive.                                                   *)
LEMMA ControlNext == ASSUME Control, Next PROVE Control'
<1>1. SerializerType'
  BY OutputTypeNext, MethodTypeNext, FormatNext DEF Control, TypeOK, SerializerType
<1>2. TypeOK'
  BY <1>1, EngineTypeNext DEF TypeOK, SerializerType
<1>3. QED
  BY <1>2, CallNext, TableNext, ReadNext, ActiveNext DEF Control

(* Control holds before the export starts.                                 *)
LEMMA ControlInit == ASSUME Init PROVE Control
<1> USE DEF Init, InitSerializer
<1>1. SerializerType
  BY DEF SerializerType, MethodType, OutputType
<1>2. EngineType
  <2>1. 0 \in Rows /\ 0 \in 0..BatchSize
    BY SizesAssumption, ReadSizesAssumption DEF Rows
  <2>2. QED
    BY <2>1 DEF EngineType, BackendTx, TrackedTx, NoTable
<1>3. CallInv /\ TableInv /\ ActiveInv
  BY DEF CallInv, TableInv, ActiveInv, NoTable
<1>4. ReadInv
  BY DEF ReadInv
<1>5. QED
  BY <1>1, <1>2, <1>3, <1>4 DEF Control, TypeOK

(* A failed stream or callback is on its way to the end of the export.     *)
LEMMA DoomNext ==
  ASSUME Control, DoomInv, Next PROVE DoomInv'
<1> USE DEF Control, DoomInv, Doomed, Dead, Halted, CallInv, engine, serializer, counts,
    reading, session, report, output
<1>1. ASSUME Start PROVE DoomInv'
  BY <1>1 DEF Start, EngineAt, StatementFails, QueryRejects
<1>2. ASSUME NextTable PROVE DoomInv'
  BY <1>2 DEF NextTable
<1>3. ASSUME Declare PROVE DoomInv'
  BY <1>3 DEF Declare, EngineAt, Leave, StatementOk, StatementFails, QueryRejects, Fault
<1>4. ASSUME Fetch PROVE DoomInv'
  BY <1>4 DEF Fetch, EngineAt, Leave, StatementOk, StatementFails, QueryRejects, Fault
<1>5. ASSUME Row PROVE DoomInv'
  BY <1>5 DEF Row, Leave, Yield
<1>6. ASSUME Close PROVE DoomInv'
  BY <1>6 DEF Close, EngineAt, StatementOk
<1>7. ASSUME Tail PROVE DoomInv'
  BY <1>7 DEF Tail, Yield
<1>8. ASSUME Check PROVE DoomInv'
  BY <1>8 DEF Check, EngineAt
<1>9. ASSUME Caught PROVE DoomInv'
  BY <1>9 DEF Caught, Recover
<1>10. ASSUME BatchConsumed PROVE DoomInv'
  BY <1>10 DEF BatchConsumed, Returned, Idle
<1>11. ASSUME ConsumerFailed PROVE DoomInv'
  BY <1>11 DEF ConsumerFailed, Thrown, Recover, Idle, Leave
<1>12. ASSUME Recovered PROVE DoomInv'
  BY <1>12 DEF Recovered, Returned, Idle
<1>13. ASSUME RecoverFailed PROVE DoomInv'
  BY <1>13 DEF RecoverFailed, Thrown, Idle
<1>14. ASSUME Finished PROVE DoomInv'
  BY <1>14 DEF Finished, Returned, Thrown, Idle
<1>15. ASSUME Consume, Serialize PROVE DoomInv'
  BY <1>15 DEF Consume, At, Serialize
<1>16. ASSUME Complete, Serialize PROVE DoomInv'
  BY <1>16 DEF Complete, At, WriteFails, Written, Rejected, Threw, Report, Serialize
<1>17. ASSUME Blank, Serialize PROVE DoomInv'
  BY <1>17 DEF Blank, At, WriteFails, Written, Rejected, Threw, Report, Serialize
<1>18. ASSUME Begin, Serialize PROVE DoomInv'
  BY <1>18 DEF Begin, At, Threw, Report, Serialize
<1>19. ASSUME Header, Serialize PROVE DoomInv'
  BY <1>19 DEF Header, At, WriteFails, Written, Rejected, Threw, Serialize
<1>20. ASSUME BadRow, Serialize PROVE DoomInv'
  BY <1>20 DEF BadRow, At, Threw, Serialize
<1>21. ASSUME RowCancelled, Serialize PROVE DoomInv'
  BY <1>21 DEF RowCancelled, At, Threw, Serialize
<1>22. ASSUME CopyChunk, Serialize PROVE DoomInv'
  BY <1>22 DEF CopyChunk, At, WriteFails, Written, Rejected, Threw, Serialize
<1>23. ASSUME FlushEarly, Serialize PROVE DoomInv'
  BY <1>23 DEF FlushEarly, At, WriteFails, Written, Rejected, Threw, Report, Serialize
<1>24. ASSUME Push, Serialize PROVE DoomInv'
  BY <1>24 DEF Push, At, WriteFails, Written, Rejected, Threw, Report, Serialize
<1>25. ASSUME Consumed, Serialize PROVE DoomInv'
  BY <1>25 DEF Consumed, At, Report, Threw, Serialize
<1>26. ASSUME RecoverEnd, Serialize PROVE DoomInv'
  BY <1>26 DEF RecoverEnd, At, WriteFails, Written, Rejected, Threw, CopyOpen, Serialize
<1>27. ASSUME RecoverMark, Serialize PROVE DoomInv'
  BY <1>27 DEF RecoverMark, At, WriteFails, Written, Rejected, Threw, Serialize
<1>28. ASSUME Finish, Serialize PROVE DoomInv'
  BY <1>28 DEF Finish, At, Serialize
<1>29. ASSUME Flush, Serialize PROVE DoomInv'
  BY <1>29 DEF Flush, At, WriteFails, Written, Rejected, Threw, Report, Serialize
<1>30. ASSUME Abort PROVE DoomInv'
  BY <1>30 DEF Abort
<1>31. QED
  BY <1>1, <1>2, <1>3, <1>4, <1>5, <1>6, <1>7, <1>8, <1>9, <1>10, <1>11, <1>12, <1>13, <1>14,
     <1>15, <1>16, <1>17, <1>18, <1>19, <1>20, <1>21, <1>22, <1>23, <1>24, <1>25, <1>26,
     <1>27, <1>28, <1>29, <1>30 DEF Next, EngineStep, Serialize, SerializerStep

(* A fail-fast export that met a failure is on its way to reject.          *)
LEMMA FailNext ==
  ASSUME Control, DoomInv, FailInv, Next PROVE FailInv'
<1> USE DEF Control, FailInv, Failing, Dead, CallInv, DoomInv, Doomed, engine, serializer,
    counts, reading, session, report, output
<1>1. ASSUME Start PROVE FailInv'
  BY <1>1 DEF Start, EngineAt, StatementFails, QueryRejects, AfterError, TxAfterError,
      TableInv
<1>2. ASSUME NextTable PROVE FailInv'
  BY <1>2 DEF NextTable, AfterError, TxAfterError, TableInv
<1>3. ASSUME Declare PROVE FailInv'
  BY <1>3 DEF Declare, EngineAt, Leave, StatementOk, StatementFails, QueryRejects, Fault,
      AfterError, TxAfterError, TableInv
<1>4. ASSUME Fetch PROVE FailInv'
  BY <1>4 DEF Fetch, EngineAt, Leave, StatementOk, StatementFails, QueryRejects, Fault,
      AfterError, TxAfterError, TableInv
<1>5. ASSUME Row PROVE FailInv'
  BY <1>5 DEF Row, Leave, Yield, AfterError, TxAfterError, TableInv
<1>6. ASSUME Close PROVE FailInv'
  BY <1>6 DEF Close, EngineAt, StatementOk, AfterError, TxAfterError, TableInv
<1>7. ASSUME Tail PROVE FailInv'
  BY <1>7 DEF Tail, Yield, AfterError, TxAfterError, TableInv
<1>8. ASSUME Check PROVE FailInv'
  BY <1>8 DEF Check, EngineAt, AfterError, TxAfterError, TableInv
<1>9. ASSUME Caught PROVE FailInv'
  BY <1>9 DEF Caught, Recover, AfterError, TxAfterError, TableInv
<1>10. ASSUME BatchConsumed PROVE FailInv'
  BY <1>10 DEF BatchConsumed, Returned, Idle, AfterError, TxAfterError, TableInv
<1>11. ASSUME ConsumerFailed PROVE FailInv'
  BY <1>11 DEF ConsumerFailed, Thrown, Recover, Idle, Leave, AfterError, TxAfterError,
      TableInv
<1>12. ASSUME Recovered PROVE FailInv'
  BY <1>12 DEF Recovered, Returned, Idle, AfterError, TxAfterError, TableInv
<1>13. ASSUME RecoverFailed PROVE FailInv'
  BY <1>13 DEF RecoverFailed, Thrown, Idle, AfterError, TxAfterError, TableInv
<1>14. ASSUME Finished PROVE FailInv'
  BY <1>14 DEF Finished, Returned, Thrown, Idle, AfterError, TxAfterError, TableInv
<1>15. ASSUME Consume, Serialize PROVE FailInv'
  BY <1>15, Placement DEF Consume, At, Serialize, TableInv
<1>16. ASSUME Complete, Serialize PROVE FailInv'
  BY <1>16, Placement DEF Complete, At, WriteFails, Written, Rejected, Threw, PutTerminator,
      PutRows, Stray, Report, PutNothing, Serialize, TableInv
<1>17. ASSUME Blank, Serialize PROVE FailInv'
  BY <1>17, Placement DEF Blank, At, WriteFails, Written, Rejected, Threw, PutNothing, Report,
      Serialize, TableInv
<1>18. ASSUME Begin, Serialize PROVE FailInv'
  BY <1>18, Placement DEF Begin, At, Threw, Report, Serialize, TableInv
<1>19. ASSUME Header, Serialize PROVE FailInv'
  BY <1>19, Placement DEF Header, At, WriteFails, Written, Rejected, Threw, PutHeader, Stray,
      PutNothing, Serialize, TableInv
<1>20. ASSUME BadRow, Serialize PROVE FailInv'
  BY <1>20, Placement DEF BadRow, At, Threw, Serialize, TableInv
<1>21. ASSUME RowCancelled, Serialize PROVE FailInv'
  BY <1>21, Placement DEF RowCancelled, At, Threw, Serialize, TableInv
<1>22. ASSUME CopyChunk, Serialize PROVE FailInv'
  BY <1>22, Placement DEF CopyChunk, At, WriteFails, Written, Rejected, Threw, PutRows, Stray,
      PutNothing, Serialize, TableInv
<1>23. ASSUME FlushEarly, Serialize PROVE FailInv'
  BY <1>23, Placement DEF FlushEarly, At, WriteFails, Written, Rejected, Threw, PutRows,
      Stray, Report, PutNothing, Serialize, TableInv
<1>24. ASSUME Push, Serialize PROVE FailInv'
  BY <1>24, Placement DEF Push, At, WriteFails, Written, Rejected, Threw, PutRows, Stray,
      Report, PutNothing, Serialize, TableInv
<1>25. ASSUME Consumed, Serialize PROVE FailInv'
  BY <1>25, Placement DEF Consumed, At, Report, Threw, Serialize, TableInv
<1>26. ASSUME RecoverEnd, Serialize PROVE FailInv'
  BY <1>26, Placement DEF RecoverEnd, At, WriteFails, Written, Rejected, Threw, PutTerminator,
      Stray, CopyOpen, PutNothing, Serialize, TableInv
<1>27. ASSUME RecoverMark, Serialize PROVE FailInv'
  BY <1>27, Placement DEF RecoverMark, At, WriteFails, Written, Rejected, Threw, PutComment,
      Stray, PutNothing, Serialize, TableInv
<1>28. ASSUME Finish, Serialize PROVE FailInv'
  BY <1>28, Placement DEF Finish, At, Serialize, TableInv
<1>29. ASSUME Flush, Serialize PROVE FailInv'
  BY <1>29, Placement DEF Flush, At, WriteFails, Written, Rejected, Threw, PutNothing, Report,
      Serialize, TableInv
<1>30. ASSUME Abort PROVE FailInv'
  BY <1>30 DEF Abort
<1>31. QED
  BY <1>1, <1>2, <1>3, <1>4, <1>5, <1>6, <1>7, <1>8, <1>9, <1>10, <1>11, <1>12, <1>13, <1>14,
     <1>15, <1>16, <1>17, <1>18, <1>19, <1>20, <1>21, <1>22, <1>23, <1>24, <1>25, <1>26,
     <1>27, <1>28, <1>29, <1>30 DEF Next, EngineStep, Serialize, SerializerStep

(* An open cursor is one the client means to close and can.                *)
LEMMA CursorNext ==
  ASSUME Control, DoomInv, CursorInv, Next PROVE CursorInv'
<1> USE DEF Control, CursorInv, CallInv, TableInv, engine, serializer, counts, reading,
    session, report, output
<1>1. ASSUME Start PROVE CursorInv'
  BY <1>1 DEF Start, EngineAt, StatementFails, QueryRejects, TxAfterError, DoomInv, Doomed,
      Dead, Halted
<1>2. ASSUME NextTable PROVE CursorInv'
  BY <1>2 DEF NextTable, TxAfterError, DoomInv, Doomed, Dead, Halted
<1>3. ASSUME Declare PROVE CursorInv'
  BY <1>3 DEF Declare, EngineAt, Leave, StatementOk, StatementFails, QueryRejects, Fault,
      TxAfterError, DoomInv, Doomed, Dead, Halted
<1>4. ASSUME Fetch PROVE CursorInv'
  BY <1>4 DEF Fetch, EngineAt, Leave, StatementOk, StatementFails, QueryRejects, Fault,
      TxAfterError, DoomInv, Doomed, Dead, Halted
<1>5. ASSUME Row PROVE CursorInv'
  BY <1>5 DEF Row, Leave, Yield, TxAfterError, DoomInv, Doomed, Dead, Halted
<1>6. ASSUME Close PROVE CursorInv'
  BY <1>6 DEF Close, EngineAt, StatementOk, TxAfterError, DoomInv, Doomed, Dead, Halted
<1>7. ASSUME Tail PROVE CursorInv'
  BY <1>7 DEF Tail, Yield, TxAfterError, DoomInv, Doomed, Dead, Halted
<1>8. ASSUME Check PROVE CursorInv'
  BY <1>8 DEF Check, EngineAt, TxAfterError, DoomInv, Doomed, Dead, Halted
<1>9. ASSUME Caught PROVE CursorInv'
  BY <1>9 DEF Caught, Recover, TxAfterError, DoomInv, Doomed, Dead, Halted
<1>10. ASSUME BatchConsumed PROVE CursorInv'
  BY <1>10 DEF BatchConsumed, Returned, Idle, TxAfterError, DoomInv, Doomed, Dead, Halted
<1>11. ASSUME ConsumerFailed PROVE CursorInv'
  BY <1>11 DEF ConsumerFailed, Thrown, Recover, Idle, Leave, TxAfterError, DoomInv, Doomed,
      Dead, Halted
<1>12. ASSUME Recovered PROVE CursorInv'
  BY <1>12 DEF Recovered, Returned, Idle, TxAfterError, DoomInv, Doomed, Dead, Halted
<1>13. ASSUME RecoverFailed PROVE CursorInv'
  BY <1>13 DEF RecoverFailed, Thrown, Idle, TxAfterError, DoomInv, Doomed, Dead, Halted
<1>14. ASSUME Finished PROVE CursorInv'
  BY <1>14 DEF Finished, Returned, Thrown, Idle, TxAfterError, DoomInv, Doomed, Dead, Halted
<1>15. ASSUME Consume, Serialize PROVE CursorInv'
  BY <1>15 DEF Consume, At, Serialize
<1>16. ASSUME Complete, Serialize PROVE CursorInv'
  BY <1>16 DEF Complete, At, WriteFails, Written, Rejected, Threw, Report, Serialize
<1>17. ASSUME Blank, Serialize PROVE CursorInv'
  BY <1>17 DEF Blank, At, WriteFails, Written, Rejected, Threw, Report, Serialize
<1>18. ASSUME Begin, Serialize PROVE CursorInv'
  BY <1>18 DEF Begin, At, Threw, Report, Serialize
<1>19. ASSUME Header, Serialize PROVE CursorInv'
  BY <1>19 DEF Header, At, WriteFails, Written, Rejected, Threw, Serialize
<1>20. ASSUME BadRow, Serialize PROVE CursorInv'
  BY <1>20 DEF BadRow, At, Threw, Serialize
<1>21. ASSUME RowCancelled, Serialize PROVE CursorInv'
  BY <1>21 DEF RowCancelled, At, Threw, Serialize
<1>22. ASSUME CopyChunk, Serialize PROVE CursorInv'
  BY <1>22 DEF CopyChunk, At, WriteFails, Written, Rejected, Threw, Serialize
<1>23. ASSUME FlushEarly, Serialize PROVE CursorInv'
  BY <1>23 DEF FlushEarly, At, WriteFails, Written, Rejected, Threw, Report, Serialize
<1>24. ASSUME Push, Serialize PROVE CursorInv'
  BY <1>24 DEF Push, At, WriteFails, Written, Rejected, Threw, Report, Serialize
<1>25. ASSUME Consumed, Serialize PROVE CursorInv'
  BY <1>25 DEF Consumed, At, Report, Threw, Serialize
<1>26. ASSUME RecoverEnd, Serialize PROVE CursorInv'
  BY <1>26 DEF RecoverEnd, At, WriteFails, Written, Rejected, Threw, CopyOpen, Serialize
<1>27. ASSUME RecoverMark, Serialize PROVE CursorInv'
  BY <1>27 DEF RecoverMark, At, WriteFails, Written, Rejected, Threw, Serialize
<1>28. ASSUME Finish, Serialize PROVE CursorInv'
  BY <1>28 DEF Finish, At, Serialize
<1>29. ASSUME Flush, Serialize PROVE CursorInv'
  BY <1>29 DEF Flush, At, WriteFails, Written, Rejected, Threw, Report, Serialize
<1>30. ASSUME Abort PROVE CursorInv'
  BY <1>30 DEF Abort
<1>31. QED
  BY <1>1, <1>2, <1>3, <1>4, <1>5, <1>6, <1>7, <1>8, <1>9, <1>10, <1>11, <1>12, <1>13, <1>14,
     <1>15, <1>16, <1>17, <1>18, <1>19, <1>20, <1>21, <1>22, <1>23, <1>24, <1>25, <1>26,
     <1>27, <1>28, <1>29, <1>30 DEF Next, EngineStep, Serialize, SerializerStep

(* A method that may write knows which COPY block is open.                 *)
LEMMA BlockKnown ==
  ASSUME Control, DoomInv, BlockInv, Running, ~Halted \/ sp \notin {"recover", "mark"}
  PROVE  CallbackRecovered \/ block = Expected
  BY DEF Control, CallInv, DoomInv, Doomed, Dead, BlockInv, Running, CallbackRecovered

(* #active and the COPY block of the output agree.                         *)
LEMMA BlockNext ==
  ASSUME Control, DoomInv, BlockInv, Next PROVE BlockInv'
<1> USE DEF Control, BlockInv, Expected, DoomInv, Doomed, Dead, Halted, CallInv, ActiveInv,
    CallbackRecovered, written, engine, serializer, counts, reading, session, report, output
<1>1. ASSUME Start PROVE BlockInv'
  BY <1>1 DEF Start, EngineAt, StatementFails, QueryRejects
<1>2. ASSUME NextTable PROVE BlockInv'
  BY <1>2 DEF NextTable
<1>3. ASSUME Declare PROVE BlockInv'
  BY <1>3 DEF Declare, EngineAt, Leave, StatementOk, StatementFails, QueryRejects, Fault
<1>4. ASSUME Fetch PROVE BlockInv'
  BY <1>4 DEF Fetch, EngineAt, Leave, StatementOk, StatementFails, QueryRejects, Fault
<1>5. ASSUME Row PROVE BlockInv'
  BY <1>5 DEF Row, Leave, Yield
<1>6. ASSUME Close PROVE BlockInv'
  BY <1>6 DEF Close, EngineAt, StatementOk
<1>7. ASSUME Tail PROVE BlockInv'
  BY <1>7 DEF Tail, Yield
<1>8. ASSUME Check PROVE BlockInv'
  BY <1>8 DEF Check, EngineAt
<1>9. ASSUME Caught PROVE BlockInv'
  BY <1>9 DEF Caught, Recover
<1>10. ASSUME BatchConsumed PROVE BlockInv'
  BY <1>10 DEF BatchConsumed, Returned, Idle
<1>11. ASSUME ConsumerFailed PROVE BlockInv'
  BY <1>11 DEF ConsumerFailed, Thrown, Recover, Idle, Leave
<1>12. ASSUME Recovered PROVE BlockInv'
  BY <1>12 DEF Recovered, Returned, Idle
<1>13. ASSUME RecoverFailed PROVE BlockInv'
  BY <1>13 DEF RecoverFailed, Thrown, Idle
<1>14. ASSUME Finished PROVE BlockInv'
  BY <1>14 DEF Finished, Returned, Thrown, Idle
<1>15. ASSUME Consume, Serialize PROVE BlockInv'
  BY <1>15, Placement DEF Consume, At, Serialize
<1>16. ASSUME Complete, Serialize PROVE BlockInv'
  <2>1. CallbackRecovered \/ block = (IF format[active] = "copy" THEN active ELSE NoTable)
    BY <1>16, Placement, BlockKnown DEF Running, Complete, At
  <2>2. strayed' => strayed \/ CallbackRecovered
    BY <1>16, <2>1 DEF Complete, PutTerminator, PutRows, WriteFails, Written, Rejected, Stray,
        PutNothing
  <2>3. raised => raised'
    BY <1>16 DEF Complete, WriteFails, Threw, Report
  <2>4. raised' \/ (Halted' /\ Doomed') \/ block' = Expected'
    BY <1>16, <2>1 DEF Complete, PutTerminator, PutRows, At, WriteFails, Written, Rejected,
        PutNothing, Threw, Report
  <2>5. UNCHANGED opt
    BY <1>16 DEF Serialize
  <2>6. QED
    BY <2>2, <2>3, <2>4, <2>5
<1>17. ASSUME Blank, Serialize PROVE BlockInv'
  BY <1>17, Placement DEF Blank, At, WriteFails, Written, Rejected, Threw, PutNothing, Report,
      Serialize
<1>18. ASSUME Begin, Serialize PROVE BlockInv'
  BY <1>18, Placement DEF Begin, At, Threw, Report, Serialize
<1>19. ASSUME Header, Serialize PROVE BlockInv'
  <2>1. CallbackRecovered \/ block = NoTable
    BY <1>19, Placement, BlockKnown DEF Running, Header, At
  <2>2. strayed' => strayed \/ CallbackRecovered
    BY <1>19, <2>1 DEF Header, PutHeader, WriteFails, Written, Rejected, Stray, PutNothing
  <2>3. raised => raised'
    BY <1>19 DEF Header, WriteFails, Threw, Report
  <2>4. raised' \/ (Halted' /\ Doomed') \/ block' = Expected'
    BY <1>19, <2>1 DEF Header, PutHeader, At, WriteFails, Written, Rejected, PutNothing,
        Threw, Report
  <2>5. UNCHANGED opt
    BY <1>19 DEF Serialize
  <2>6. QED
    BY <2>2, <2>3, <2>4, <2>5
<1>20. ASSUME BadRow, Serialize PROVE BlockInv'
  BY <1>20, Placement DEF BadRow, At, Threw, Serialize
<1>21. ASSUME RowCancelled, Serialize PROVE BlockInv'
  BY <1>21, Placement DEF RowCancelled, At, Threw, Serialize
<1>22. ASSUME CopyChunk, Serialize PROVE BlockInv'
  <2>1. CallbackRecovered \/ block = target
    BY <1>22, Placement, BlockKnown DEF Running, CopyChunk, At, NoTable, Tables
  <2>2. strayed' => strayed \/ CallbackRecovered
    BY <1>22, <2>1 DEF CopyChunk, PutRows, WriteFails, Written, Rejected, Stray, PutNothing
  <2>3. raised => raised'
    BY <1>22 DEF CopyChunk, WriteFails, Threw, Report
  <2>4. raised' \/ (Halted' /\ Doomed') \/ block' = Expected'
    BY <1>22, <2>1 DEF CopyChunk, PutRows, At, WriteFails, Written, Rejected, PutNothing,
        Threw, Report
  <2>5. UNCHANGED opt
    BY <1>22 DEF Serialize
  <2>6. QED
    BY <2>2, <2>3, <2>4, <2>5
<1>23. ASSUME FlushEarly, Serialize PROVE BlockInv'
  <2>1. CallbackRecovered \/ block = NoTable
    BY <1>23, Placement, BlockKnown DEF Running, FlushEarly, At
  <2>2. strayed' => strayed \/ CallbackRecovered
    BY <1>23, <2>1 DEF FlushEarly, PutRows, WriteFails, Written, Rejected, Stray, PutNothing
  <2>3. raised => raised'
    BY <1>23 DEF FlushEarly, WriteFails, Threw, Report
  <2>4. raised' \/ (Halted' /\ Doomed') \/ block' = Expected'
    BY <1>23, <2>1 DEF FlushEarly, PutRows, At, WriteFails, Written, Rejected, PutNothing,
        Threw, Report
  <2>5. UNCHANGED opt
    BY <1>23 DEF Serialize
  <2>6. QED
    BY <2>2, <2>3, <2>4, <2>5
<1>24. ASSUME Push, Serialize PROVE BlockInv'
  <2>1. CallbackRecovered \/ block = NoTable
    BY <1>24, Placement, BlockKnown DEF Running, Push
  <2>2. strayed' => strayed \/ CallbackRecovered
    BY <1>24, <2>1 DEF Push, PutRows, WriteFails, Written, Rejected, Stray, PutNothing
  <2>3. raised => raised'
    BY <1>24 DEF Push, WriteFails, Threw, Report
  <2>4. raised' \/ (Halted' /\ Doomed') \/ block' = Expected'
    BY <1>24, <2>1 DEF Push, PutRows, At, WriteFails, Written, Rejected, PutNothing, Threw,
        Report
  <2>5. UNCHANGED opt
    BY <1>24 DEF Serialize
  <2>6. QED
    BY <2>2, <2>3, <2>4, <2>5
<1>25. ASSUME Consumed, Serialize PROVE BlockInv'
  BY <1>25, Placement DEF Consumed, At, Report, Threw, Serialize
<1>26. ASSUME RecoverEnd, Serialize PROVE BlockInv'
  <2>1. Halted \/ CallbackRecovered \/ block = (IF CopyOpen THEN active ELSE NoTable)
    BY <1>26, Placement, BlockKnown DEF Running, RecoverEnd, At, CopyOpen
  <2>2. strayed' => strayed \/ CallbackRecovered
    BY <1>26, <2>1 DEF RecoverEnd, CopyOpen, PutTerminator, WriteFails, Written, Rejected,
        Stray, PutNothing
  <2>3. raised => raised'
    BY <1>26 DEF RecoverEnd, WriteFails, Threw, Report
  <2>4. raised' \/ (Halted' /\ Doomed') \/ block' = Expected'
    BY <1>26, <2>1 DEF RecoverEnd, CopyOpen, PutTerminator, At, WriteFails, Written, Rejected,
        PutNothing, Threw, Report
  <2>5. UNCHANGED opt
    BY <1>26 DEF Serialize
  <2>6. QED
    BY <2>2, <2>3, <2>4, <2>5
<1>27. ASSUME RecoverMark, Serialize PROVE BlockInv'
  <2>1. Halted \/ CallbackRecovered \/ block = NoTable
    BY <1>27, Placement, BlockKnown DEF Running, RecoverMark, At
  <2>2. strayed' => strayed \/ CallbackRecovered
    BY <1>27, <2>1 DEF RecoverMark, PutComment, WriteFails, Written, Rejected, Stray,
        PutNothing
  <2>3. raised => raised'
    BY <1>27 DEF RecoverMark, WriteFails, Threw, Report
  <2>4. raised' \/ (Halted' /\ Doomed') \/ block' = Expected'
    BY <1>27, <2>1 DEF RecoverMark, PutComment, At, WriteFails, Written, Rejected, PutNothing,
        Threw, Report
  <2>5. UNCHANGED opt
    BY <1>27 DEF Serialize
  <2>6. QED
    BY <2>2, <2>3, <2>4, <2>5
<1>28. ASSUME Finish, Serialize PROVE BlockInv'
  BY <1>28, Placement DEF Finish, At, Serialize
<1>29. ASSUME Flush, Serialize PROVE BlockInv'
  BY <1>29, Placement DEF Flush, At, WriteFails, Written, Rejected, Threw, PutNothing, Report,
      Serialize
<1>30. ASSUME Abort PROVE BlockInv'
  BY <1>30 DEF Abort
<1>31. QED
  BY <1>1, <1>2, <1>3, <1>4, <1>5, <1>6, <1>7, <1>8, <1>9, <1>10, <1>11, <1>12, <1>13, <1>14,
     <1>15, <1>16, <1>17, <1>18, <1>19, <1>20, <1>21, <1>22, <1>23, <1>24, <1>25, <1>26,
     <1>27, <1>28, <1>29, <1>30 DEF Next, EngineStep, Serialize, SerializerStep

-----------------------------------------------------------------------------
(* The counters are natural numbers ...                                    *)
LEMMA Naturals ==
  ASSUME TypeOK
  PROVE  /\ table \in Nat /\ batch \in Nat /\ pos \in Nat /\ got \in Nat /\ todo \in Nat
         /\ pend \in Nat /\ active \in Nat /\ target \in Nat /\ Tables \subseteq Nat
         /\ 0 \notin Tables
         /\ \A i \in Tables : rows[i] \in Nat /\ out[i] \in Nat /\ stat[i] \in Nat
  BY SizesAssumption, ReadSizesAssumption DEF TypeOK, EngineType, SerializerType, MethodType,
      OutputType, Rows, Tables, NoTable

(* ... and stay so.                                                        *)
LEMMA NaturalsNext ==
  ASSUME TypeOK'
  PROVE  /\ table' \in Nat /\ batch' \in Nat /\ pos' \in Nat /\ todo' \in Nat /\ pend' \in Nat
         /\ \A i \in Tables : rows'[i] \in Nat /\ out'[i] \in Nat
  BY SizesAssumption, ReadSizesAssumption DEF TypeOK, EngineType, SerializerType, MethodType,
      OutputType, Rows, Tables, NoTable

(* A step of the engine loses rows of the batch only when it leaves the    *)
(* table, and never adds a row it has not taken.                           *)
LEMMA Handed ==
  ASSUME Control, TypeOK', EngineStep, NEW i \in Tables
  PROVE  /\ Owed(i)' + Taken(i) <= Owed(i) + Taken(i)'
         /\ \/ Owed(i)' + Taken(i) = Owed(i) + Taken(i)'
            \/ i = table /\ (Leaving' \/ (ep = "next" /\ pos # rows[table]))
         /\ Taken(i) <= Taken(i)'
<1> DEFINE Goal ==
         /\ Owed(i)' + Taken(i) <= Owed(i) + Taken(i)'
         /\ \/ Owed(i)' + Taken(i) = Owed(i) + Taken(i)'
            \/ i = table /\ (Leaving' \/ (ep = "next" /\ pos # rows[table]))
         /\ Taken(i) <= Taken(i)'
<1> USE DEF Owed, Taken, Leaving, Running, Control, CallInv, engine, serializer, counts,
    reading, session, report, output
<1>a. /\ i \in Nat /\ i # 0 /\ rows[i] \in Nat /\ table \in Nat /\ pos \in Nat /\ batch \in Nat
      /\ todo \in Nat
  BY Naturals
<1>b. i = table => pos <= rows[i]
  BY Naturals, SizesAssumption DEF ReadInv
<1>1. ASSUME Start PROVE Goal
  BY <1>1, <1>a, <1>b DEF Start, EngineAt, StatementFails, QueryRejects, ReadInv, TableInv,
      Settled
<1>2. ASSUME NextTable PROVE Goal
  BY <1>2, <1>a, <1>b DEF NextTable, ReadInv, TableInv, Settled
<1>3. ASSUME Declare PROVE Goal
  BY <1>3, <1>a, <1>b DEF Declare, EngineAt, Leave, StatementOk, StatementFails, QueryRejects,
      Fault, ReadInv, TableInv, Settled
<1>4. ASSUME Fetch PROVE Goal
  BY <1>4, <1>a, <1>b DEF Fetch, EngineAt, Leave, StatementOk, StatementFails, QueryRejects,
      Fault, ReadInv, TableInv, Settled
<1>5. ASSUME Row PROVE Goal
  BY <1>5, <1>a, <1>b DEF Row, Leave, Yield, ReadInv, TableInv, Settled
<1>6. ASSUME Close PROVE Goal
  BY <1>6, <1>a, <1>b DEF Close, EngineAt, StatementOk, ReadInv, TableInv, Settled
<1>7. ASSUME Tail PROVE Goal
  BY <1>7, <1>a, <1>b DEF Tail, Yield, ReadInv, TableInv, Settled
<1>8. ASSUME Check PROVE Goal
  BY <1>8, <1>a, <1>b DEF Check, EngineAt, ReadInv, TableInv, Settled
<1>9. ASSUME Caught PROVE Goal
  BY <1>9, <1>a, <1>b DEF Caught, Recover, ReadInv, TableInv, Settled
<1>10. ASSUME BatchConsumed PROVE Goal
  BY <1>10, <1>a, <1>b DEF BatchConsumed, Returned, Idle, ReadInv, TableInv, Settled
<1>11. ASSUME ConsumerFailed PROVE Goal
  BY <1>11, <1>a, <1>b DEF ConsumerFailed, Thrown, Recover, Idle, Leave, ReadInv, TableInv,
      Settled
<1>12. ASSUME Recovered PROVE Goal
  BY <1>12, <1>a, <1>b DEF Recovered, Returned, Idle, ReadInv, TableInv, Settled
<1>13. ASSUME RecoverFailed PROVE Goal
  BY <1>13, <1>a, <1>b DEF RecoverFailed, Thrown, Idle, ReadInv, TableInv, Settled
<1>14. ASSUME Finished PROVE Goal
  BY <1>14, <1>a, <1>b DEF Finished, Returned, Thrown, Idle, ReadInv, TableInv, Settled
<1>15. QED
  BY <1>1, <1>2, <1>3, <1>4, <1>5, <1>6, <1>7, <1>8, <1>9, <1>10, <1>11, <1>12, <1>13, <1>14 DEF
      EngineStep

(* What leads to the end of the export is not left again.                  *)
LEMMA DoomStays ==
  ASSUME Control, DoomInv, Next
  PROVE  /\ Halted /\ Doomed => Doomed'
         /\ ~opt.bestEffort /\ Dead => Dead'
<1> DEFINE Goal ==
         /\ Halted /\ Doomed => Doomed'
         /\ ~opt.bestEffort /\ Dead => Dead'
<1> USE DEF Control, CallInv, DoomInv, Doomed, Dead, Halted, engine, serializer, counts,
    reading, session, report, output
<1>1. ASSUME Start PROVE Goal
  BY <1>1 DEF Start, EngineAt, StatementFails, QueryRejects, TableInv
<1>2. ASSUME NextTable PROVE Goal
  BY <1>2 DEF NextTable, TableInv
<1>3. ASSUME Declare PROVE Goal
  BY <1>3 DEF Declare, EngineAt, Leave, StatementOk, StatementFails, QueryRejects, Fault,
      TableInv
<1>4. ASSUME Fetch PROVE Goal
  BY <1>4 DEF Fetch, EngineAt, Leave, StatementOk, StatementFails, QueryRejects, Fault,
      TableInv
<1>5. ASSUME Row PROVE Goal
  BY <1>5 DEF Row, Leave, Yield, TableInv
<1>6. ASSUME Close PROVE Goal
  BY <1>6 DEF Close, EngineAt, StatementOk, TableInv
<1>7. ASSUME Tail PROVE Goal
  BY <1>7 DEF Tail, Yield, TableInv
<1>8. ASSUME Check PROVE Goal
  BY <1>8 DEF Check, EngineAt, TableInv
<1>9. ASSUME Caught PROVE Goal
  BY <1>9 DEF Caught, Recover, TableInv
<1>10. ASSUME BatchConsumed PROVE Goal
  BY <1>10 DEF BatchConsumed, Returned, Idle, TableInv
<1>11. ASSUME ConsumerFailed PROVE Goal
  BY <1>11 DEF ConsumerFailed, Thrown, Recover, Idle, Leave, TableInv
<1>12. ASSUME Recovered PROVE Goal
  BY <1>12 DEF Recovered, Returned, Idle, TableInv
<1>13. ASSUME RecoverFailed PROVE Goal
  BY <1>13 DEF RecoverFailed, Thrown, Idle, TableInv
<1>14. ASSUME Finished PROVE Goal
  BY <1>14 DEF Finished, Returned, Thrown, Idle, TableInv
<1>15. ASSUME Consume, Serialize PROVE Goal
  BY <1>15 DEF Consume, At, TableInv, Serialize
<1>16. ASSUME Complete, Serialize PROVE Goal
  BY <1>16 DEF Complete, At, WriteFails, Written, Rejected, Threw, Report, TableInv, Serialize
<1>17. ASSUME Blank, Serialize PROVE Goal
  BY <1>17 DEF Blank, At, WriteFails, Written, Rejected, Threw, Report, TableInv, Serialize
<1>18. ASSUME Begin, Serialize PROVE Goal
  BY <1>18 DEF Begin, At, Threw, Report, TableInv, Serialize
<1>19. ASSUME Header, Serialize PROVE Goal
  BY <1>19 DEF Header, At, WriteFails, Written, Rejected, Threw, TableInv, Serialize
<1>20. ASSUME BadRow, Serialize PROVE Goal
  BY <1>20 DEF BadRow, At, Threw, TableInv, Serialize
<1>21. ASSUME RowCancelled, Serialize PROVE Goal
  BY <1>21 DEF RowCancelled, At, Threw, TableInv, Serialize
<1>22. ASSUME CopyChunk, Serialize PROVE Goal
  BY <1>22 DEF CopyChunk, At, WriteFails, Written, Rejected, Threw, TableInv, Serialize
<1>23. ASSUME FlushEarly, Serialize PROVE Goal
  BY <1>23 DEF FlushEarly, At, WriteFails, Written, Rejected, Threw, Report, TableInv,
      Serialize
<1>24. ASSUME Push, Serialize PROVE Goal
  BY <1>24 DEF Push, At, WriteFails, Written, Rejected, Threw, Report, TableInv, Serialize
<1>25. ASSUME Consumed, Serialize PROVE Goal
  BY <1>25 DEF Consumed, At, Report, Threw, TableInv, Serialize
<1>26. ASSUME RecoverEnd, Serialize PROVE Goal
  BY <1>26 DEF RecoverEnd, At, WriteFails, Written, Rejected, Threw, CopyOpen, TableInv,
      Serialize
<1>27. ASSUME RecoverMark, Serialize PROVE Goal
  BY <1>27 DEF RecoverMark, At, WriteFails, Written, Rejected, Threw, TableInv, Serialize
<1>28. ASSUME Finish, Serialize PROVE Goal
  BY <1>28 DEF Finish, At, TableInv, Serialize
<1>29. ASSUME Flush, Serialize PROVE Goal
  BY <1>29 DEF Flush, At, WriteFails, Written, Rejected, Threw, Report, TableInv, Serialize
<1>30. ASSUME Abort PROVE Goal
  BY <1>30 DEF Abort
<1>31. QED
  BY <1>1, <1>2, <1>3, <1>4, <1>5, <1>6, <1>7, <1>8, <1>9, <1>10, <1>11, <1>12, <1>13, <1>14,
     <1>15, <1>16, <1>17, <1>18, <1>19, <1>20, <1>21, <1>22, <1>23, <1>24, <1>25, <1>26,
     <1>27, <1>28, <1>29, <1>30 DEF Next, EngineStep, Serialize, SerializerStep

(* A step of the serializer moves rows from the batch to the pending rows  *)
(* and to the output, each once; it loses some only on the ways listed.    *)
LEMMA Serialized ==
  ASSUME Control, Serialize, NEW i \in Tables
  PROVE  /\ Taken(i)' = Taken(i) /\ out'[i] <= Kept(i)
         /\ aborted => out'[i] = out[i]
         /\ ~aborted' => Kept(i)' <= Kept(i)
         /\ \/ Kept(i)' = Kept(i) \/ raised' \/ (Halted' /\ sp' = "threw")
            \/ i = table /\ Leaving'
            \/ sp = "recover" /\ sp' = "mark" /\ i = active /\ format[i] = "insert"
<1> DEFINE Goal ==
         /\ Taken(i)' = Taken(i) /\ out'[i] <= Kept(i)
         /\ aborted => out'[i] = out[i]
         /\ ~aborted' => Kept(i)' <= Kept(i)
         /\ \/ Kept(i)' = Kept(i) \/ raised' \/ (Halted' /\ sp' = "threw")
            \/ i = table /\ Leaving'
            \/ sp = "recover" /\ sp' = "mark" /\ i = active /\ format[i] = "insert"
<1> USE DEF Kept, Pending, Owed, Taken, Leaving, Running, Halted, CallInv, Control, counts
<1>a. /\ i \in Nat /\ i # 0 /\ rows[i] \in Nat /\ table \in Nat /\ pos \in Nat /\ batch \in Nat
      /\ todo \in Nat /\ pend \in Nat /\ out[i] \in Nat
  BY Naturals
<1>b. UNCHANGED <<ep, table, rows, pos, why>>
  BY DEF Serialize, reading
<1>1. ASSUME Consume PROVE Goal
  BY <1>1, <1>a, <1>b, Placement DEF Consume, At, ActiveInv, TableInv, output, written,
      NoTable
<1>2. ASSUME Complete PROVE Goal
  <2>1. /\ active \in Tables /\ sp = "complete" /\ pend \in Nat
        /\ format[active] \in {"copy", "insert"} /\ ep \in {"consuming", "finishing"}
    BY <1>2, <1>a, Placement DEF Complete, At, TypeOK, SerializerType
  <2>2. UNCHANGED <<todo, active>>
    BY <1>2 DEF Complete, WriteFails
  <2>3. \/ out' = out /\ sp' = "threw" /\ Halted' /\ pend' = pend
        \/ out' = out /\ aborted' = aborted /\ sp' = "blank" /\ pend' = pend
        \/ /\ ~aborted /\ ((out' = out /\ pend = 0) \/ PutRows(active, pend)) /\ pend' = 0
           /\ sp' = "blank" \/ (sp' = "threw" /\ raised')
        \/ ~aborted /\ PutRows(active, pend) /\ sp' = "threw" /\ aborted' /\ pend' = pend
    <3>1. CASE format[active] = "copy"
      <4>1. pend = 0
        BY <2>1, <3>1 DEF ActiveInv
      <4>2. QED
        BY <1>2, <3>1, <4>1 DEF Complete, WriteFails, Written, Rejected, Threw, Report,
            PutNothing, PutTerminator, output, written
    <3>2. CASE format[active] = "insert"
      BY <1>2, <3>2 DEF Complete, WriteFails, Written, Rejected, Threw, Report, PutNothing,
          output, written
    <3>3. QED
      BY <2>1, <3>1, <3>2
  <2>4. PutRows(active, pend) =>
          out'[active] = out[active] + pend /\ (i # active => out'[i] = out[i])
    BY <2>1, RowsPut DEF TypeOK, SerializerType, OutputType
  <2>5. QED
    BY <1>a, <1>b, <2>1, <2>2, <2>3, <2>4
<1>3. ASSUME Blank PROVE Goal
  BY <1>3, <1>a, <1>b, Placement DEF Blank, At, WriteFails, Written, Rejected, Threw,
      PutNothing, Report, ActiveInv, TableInv, output, written, NoTable
<1>4. ASSUME Begin PROVE Goal
  BY <1>4, <1>a, <1>b, Placement DEF Begin, At, Threw, Report, ActiveInv, TableInv, output,
      written, NoTable
<1>5. ASSUME Header PROVE Goal
  <2>1. out' = out
    BY <1>5 DEF Header, WriteFails, Written, Rejected, PutHeader, PutNothing, written
  <2>2. QED
    BY <1>5, <1>a, <1>b, <2>1, Placement DEF Header, At, WriteFails, Written, Rejected, Threw
<1>6. ASSUME BadRow PROVE Goal
  BY <1>6, <1>a, <1>b, Placement DEF BadRow, At, Threw, ActiveInv, TableInv, output, written,
      NoTable
<1>7. ASSUME RowCancelled PROVE Goal
  BY <1>7, <1>a, <1>b, Placement DEF RowCancelled, At, Threw, ActiveInv, TableInv, output,
      written, NoTable
<1>8. ASSUME CopyChunk PROVE Goal
  <2>1. /\ target \in Tables /\ target = table /\ active = target /\ ep = "consuming"
        /\ sp = "body" /\ MethodType /\ todo \in Nat
    BY <1>8, <1>a, Placement DEF CopyChunk, At, ActiveInv, TypeOK, SerializerType
  <2>2. PICK n \in 1..todo :
          \/ /\ Written(PutRows(target, n)) /\ n \in Nat /\ todo' = todo - n
             /\ UNCHANGED <<sp, pend>>
          \/ /\ Rejected(PutRows(target, n)) /\ n \in Nat /\ sp' = "threw"
             /\ UNCHANGED <<todo, pend>>
    BY <1>8, <2>1, ChunkWritten
  <2>3. n \in Nat /\ n <= todo
    BY <2>1, <2>2
  <2>4. \/ ~aborted /\ PutRows(target, n) /\ todo' = todo - n /\ UNCHANGED <<sp, pend>>
        \/ /\ ~aborted /\ PutRows(target, n) /\ sp' = "threw" /\ aborted'
           /\ UNCHANGED <<todo, pend>>
        \/ out' = out /\ sp' = "threw" /\ Halted' /\ UNCHANGED <<todo, pend>>
    BY <2>2 DEF Written, Rejected, PutNothing, written
  <2>5. PutRows(target, n) => out'[target] = out[target] + n /\ (i # target => out'[i] = out[i])
    BY <2>1, <2>3, RowsPut DEF TypeOK, SerializerType, OutputType
  <2>6. UNCHANGED active
    BY <1>8 DEF CopyChunk, WriteFails
  <2>7. QED
    BY <1>a, <1>b, <2>1, <2>3, <2>4, <2>5, <2>6
<1>9. ASSUME FlushEarly PROVE Goal
  <2>1. /\ target \in Tables /\ target = table /\ active = target /\ ep = "consuming"
        /\ sp = "body" /\ pend \in Nat
    BY <1>9, <1>a, Placement DEF FlushEarly, At, ActiveInv
  <2>2. \/ out' = out /\ sp' = "threw" /\ Halted' /\ UNCHANGED <<todo, pend>>
        \/ /\ ~aborted /\ PutRows(target, pend) /\ sp' = "threw" /\ aborted'
           /\ UNCHANGED <<todo, pend>>
        \/ /\ ~aborted /\ PutRows(target, pend) /\ UNCHANGED todo /\ pend' = 0
           /\ sp' = "push" \/ (sp' = "threw" /\ raised')
    BY <1>9 DEF FlushEarly, WriteFails, Written, Rejected, Threw, Report, PutNothing, written
  <2>3. PutRows(target, pend) =>
          out'[target] = out[target] + pend /\ (i # target => out'[i] = out[i])
    BY <2>1, RowsPut DEF TypeOK, SerializerType, OutputType
  <2>4. UNCHANGED active
    BY <1>9 DEF FlushEarly, WriteFails
  <2>5. QED
    BY <1>a, <1>b, <2>1, <2>2, <2>3, <2>4
<1>10. ASSUME Push PROVE Goal
  <2>1. /\ target \in Tables /\ target = table /\ active = target /\ ep = "consuming"
        /\ sp \in {"body", "push"} /\ pend \in Nat /\ todo \in Nat /\ todo > 0
    BY <1>10, <1>a, Placement DEF Push, ActiveInv
  <2>2. \/ out' = out /\ aborted' = aborted /\ pend' = pend + 1 /\ sp' = "body"
        \/ out' = out /\ sp' = "threw" /\ Halted' /\ pend' = pend + 1
        \/ ~aborted /\ PutRows(target, pend + 1) /\ sp' = "threw" /\ aborted'
        \/ ~aborted /\ PutRows(target, pend + 1) /\ sp' = "threw" /\ raised' /\ pend' = 0
        \/ ~aborted /\ PutRows(target, pend + 1) /\ sp' = "body" /\ pend' = 0
    BY <1>10 DEF Push, Written, Rejected, Threw, Report, PutNothing, output, written
  <2>3. PutRows(target, pend + 1) =>
          out'[target] = out[target] + (pend + 1) /\ (i # target => out'[i] = out[i])
    BY <2>1, RowsPut DEF TypeOK, SerializerType, OutputType
  <2>4. UNCHANGED active /\ todo' = IF sp' = "body" THEN todo - 1 ELSE todo
    BY <1>10 DEF Push
  <2>5. QED
    BY <1>a, <1>b, <2>1, <2>2, <2>3, <2>4
<1>11. ASSUME Consumed PROVE Goal
  BY <1>11, <1>a, <1>b, Placement DEF Consumed, At, Report, Threw, ActiveInv, TableInv,
      output, written, NoTable
<1>12. ASSUME RecoverEnd PROVE Goal
  <2>1. out' = out
    BY <1>12 DEF RecoverEnd, WriteFails, Written, Rejected, PutTerminator, PutNothing, output,
        written
  <2>2. /\ UNCHANGED todo /\ sp' \in {"mark", "threw"}
        /\ sp' = "threw" => Halted' /\ UNCHANGED <<active, pend>>
    BY <1>12 DEF RecoverEnd, WriteFails, Rejected, Threw
  <2>3. sp' = "mark" => active' = NoTable /\ (IF CopyOpen THEN pend' = pend ELSE pend' = 0)
    BY <1>12 DEF RecoverEnd, WriteFails, Threw
  <2>4. ep = "recovering" /\ sp = "recover"
    BY <1>12, Placement DEF RecoverEnd, At
  <2>5. active = i => format[i] \in {"copy", "insert"}
    BY DEF TypeOK, SerializerType
  <2>6. CopyOpen => pend = 0
    BY <1>12 DEF CopyOpen, ActiveInv, RecoverEnd, At
  <2>7. Pending(i)' <= Pending(i) /\ Owed(i)' = 0 /\ Owed(i) = 0
    BY <1>a, <1>b, <2>2, <2>3, <2>4 DEF NoTable
  <2>8. Pending(i)' = Pending(i) \/ (sp' = "mark" /\ i = active /\ format[i] = "insert")
    BY <1>a, <2>2, <2>3, <2>5, <2>6 DEF CopyOpen, NoTable
  <2>9. Pending(i) \in Nat /\ Pending(i)' \in Nat
    BY <1>a, <2>2, <2>3 DEF NoTable
  <2>10. Taken(i)' = Taken(i)
    BY <1>b
  <2>11. QED
    BY <1>a, <2>1, <2>4, <2>7, <2>8, <2>9, <2>10 DEF Kept
<1>13. ASSUME RecoverMark PROVE Goal
  <2>1. out' = out
    BY <1>13 DEF RecoverMark, WriteFails, Written, Rejected, PutComment, PutNothing, written
  <2>2. QED
    BY <1>13, <1>a, <1>b, <2>1, Placement DEF RecoverMark, At, WriteFails, Written, Rejected,
        Threw
<1>14. ASSUME Finish PROVE Goal
  BY <1>14, <1>a, <1>b, Placement DEF Finish, At, ActiveInv, TableInv, output, written,
      NoTable
<1>15. ASSUME Flush PROVE Goal
  BY <1>15, <1>a, <1>b, Placement DEF Flush, At, WriteFails, Written, Rejected, Threw,
      PutNothing, Report, ActiveInv, TableInv, output, written, NoTable
<1>16. QED
  BY <1>1, <1>2, <1>3, <1>4, <1>5, <1>6, <1>7, <1>8, <1>9, <1>10, <1>11, <1>12, <1>13, <1>14,
     <1>15 DEF Serialize, SerializerStep

(* The engine writes and counts nothing itself.                            *)
LEMMA EngineKeeps ==
  ASSUME EngineStep
  PROVE  UNCHANGED <<format, active, pend, stat, flagged, raised, output>>
  BY DEF EngineStep, Start, NextTable, Declare, Fetch, Row, Close, Tail, Check, Caught,
      BatchConsumed, ConsumerFailed, Recovered, RecoverFailed, Finished, EngineAt, Returned,
      Thrown, Idle, Recover, Yield, serializer, counts

(* Nothing is written once the signal has fired.                           *)
LEMMA AbortedStays == ASSUME Serialize, aborted PROVE aborted' /\ UNCHANGED written
<1> USE DEF Serialize, SerializerStep, output, PutNothing
<1>1. QED
  BY DEF Consume, Complete, Blank, Begin, Header, BadRow, RowCancelled, CopyChunk, FlushEarly,
      Push, Consumed, RecoverEnd, RecoverMark, Finish, Flush, WriteFails, Written, Rejected

-----------------------------------------------------------------------------
(* No row is written twice.                                                *)
LEMMA RowsNext == ASSUME Control, TypeOK', RowsInv, Next PROVE RowsInv'
<1> SUFFICES ASSUME NEW i \in Tables
             PROVE  out'[i] <= Taken(i)' /\ (~aborted' => Kept(i)' <= Taken(i)')
  BY DEF RowsInv
<1> USE DEF Kept
<1>1. /\ out[i] <= Taken(i) /\ (~aborted => Kept(i) <= Taken(i))
      /\ out[i] \in Nat /\ Pending(i) \in Nat /\ Owed(i) \in Nat /\ Taken(i) \in Nat
  BY Naturals DEF RowsInv, Control, Pending, Owed, Taken
<1>2. /\ out'[i] \in Nat /\ Pending(i)' \in Nat /\ Owed(i)' \in Nat /\ Taken(i)' \in Nat
  <2>1. /\ table' \in Nat /\ batch' \in Nat /\ pos' \in Nat /\ todo' \in Nat /\ pend' \in Nat
        /\ rows'[i] \in Nat /\ out'[i] \in Nat
    BY SizesAssumption, ReadSizesAssumption DEF TypeOK, EngineType, SerializerType,
        MethodType, OutputType, Rows, Tables, NoTable
  <2>2. QED
    BY <2>1 DEF Pending, Owed, Taken
<1>3. ASSUME EngineStep PROVE out'[i] <= Taken(i)' /\ (~aborted' => Kept(i)' <= Taken(i)')
  <2>1. UNCHANGED <<out, aborted, pend, active>>
    BY <1>3, EngineKeeps DEF output, written
  <2>2. Pending(i)' = Pending(i)
    BY <2>1 DEF Pending
  <2>3. Owed(i)' + Taken(i) <= Owed(i) + Taken(i)' /\ Taken(i) <= Taken(i)'
    BY <1>3, Handed
  <2>4. QED
    BY <1>1, <1>2, <2>1, <2>2, <2>3
<1>4. ASSUME Serialize PROVE out'[i] <= Taken(i)' /\ (~aborted' => Kept(i)' <= Taken(i)')
  <2>1. /\ Taken(i)' = Taken(i) /\ out'[i] <= Kept(i) /\ (aborted => out'[i] = out[i])
        /\ ~aborted' => Kept(i)' <= Kept(i)
    BY <1>4, Serialized
  <2>2. aborted => aborted'
    BY <1>4, AbortedStays
  <2>3. QED
    BY <1>1, <1>2, <2>1, <2>2
<1>5. ASSUME Abort PROVE out'[i] <= Taken(i)' /\ (~aborted' => Kept(i)' <= Taken(i)')
  BY <1>1, <1>5 DEF Abort, written, engine, Taken
<1>6. QED
  BY <1>3, <1>4, <1>5 DEF Next

(* A stream that failed stays failed, a signal stays raised.               *)
LEMMA HaltedStays == ASSUME Serialize, Halted PROVE Halted'
  BY DEF Halted, output, Serialize, SerializerStep, Consume, Complete, Blank, Begin, Header,
      BadRow, RowCancelled, CopyChunk, FlushEarly, Push, Consumed, RecoverEnd, RecoverMark,
      Finish, Flush, WriteFails, Written, Rejected

-----------------------------------------------------------------------------
(* A step of the serializer counts the rows it writes (COPY) or queues     *)
(* (INSERT).                                                               *)
LEMMA Counted ==
  ASSUME Control, Serialize, NEW i \in Tables
  PROVE  /\ format[i] = "copy" /\ stat[i] = out[i] =>
              stat'[i] = out'[i] \/ (aborted' /\ sp' = "threw")
         /\ format[i] = "insert" /\ ~opt.bestEffort /\ stat[i] = out[i] + Pending(i) =>
              stat'[i] = out'[i] + Pending(i)' \/ sp' = "threw"
<1> DEFINE Goal ==
         /\ format[i] = "copy" /\ stat[i] = out[i] =>
              stat'[i] = out'[i] \/ (aborted' /\ sp' = "threw")
         /\ format[i] = "insert" /\ ~opt.bestEffort /\ stat[i] = out[i] + Pending(i) =>
              stat'[i] = out'[i] + Pending(i)' \/ sp' = "threw"
<1> USE DEF Pending, Control, CallInv, counts
<1>a. /\ i \in Nat /\ i # 0 /\ pend \in Nat /\ out[i] \in Nat /\ stat[i] \in Nat
  BY Naturals
<1>1. ASSUME Consume PROVE Goal
  BY <1>1, <1>a, Placement DEF Consume, At, ActiveInv, output, written, NoTable
<1>2. ASSUME Complete PROVE Goal
  <2>1. active \in Tables /\ pend \in Nat /\ format[active] \in {"copy", "insert"}
    BY <1>2, <1>a, Placement DEF Complete, At, TypeOK, SerializerType
  <2>2. UNCHANGED <<stat, active>>
    BY <1>2 DEF Complete, WriteFails
  <2>3. \/ out' = out /\ (sp' = "threw" \/ pend' = pend)
        \/ PutRows(active, pend) /\ format[active] = "insert" /\ (pend' = 0 \/ sp' = "threw")
    <3>1. CASE format[active] = "copy"
      <4>1. pend = 0
        BY <1>2, <2>1, <3>1 DEF ActiveInv, Complete, At
      <4>2. QED
        BY <1>2, <3>1, <4>1 DEF Complete, WriteFails, Written, Rejected, Threw, Report,
            PutNothing, PutTerminator, output, written
    <3>2. CASE format[active] = "insert"
      BY <1>2, <3>2 DEF Complete, WriteFails, Written, Rejected, Threw, Report, PutNothing,
          output, written
    <3>3. QED
      BY <2>1, <3>1, <3>2
  <2>4. PutRows(active, pend) =>
          out'[active] = out[active] + pend /\ (i # active => out'[i] = out[i])
    BY <2>1, RowsPut DEF TypeOK, SerializerType, OutputType
  <2>5. QED
    BY <1>a, <2>1, <2>2, <2>3, <2>4
<1>3. ASSUME Blank PROVE Goal
  BY <1>3, <1>a, Placement DEF Blank, At, WriteFails, Written, Rejected, Threw, PutNothing,
      Report, ActiveInv, output, written, NoTable
<1>4. ASSUME Begin PROVE Goal
  BY <1>4, <1>a, Placement DEF Begin, At, Threw, Report, ActiveInv, output, written, NoTable
<1>5. ASSUME Header PROVE Goal
  <2>1. out' = out
    BY <1>5 DEF Header, WriteFails, Written, Rejected, PutHeader, PutNothing, written
  <2>2. QED
    BY <1>5, <1>a, <2>1, Placement DEF Header, At, WriteFails
<1>6. ASSUME BadRow PROVE Goal
  BY <1>6, <1>a, Placement DEF BadRow, At, Threw, ActiveInv, output, written, NoTable
<1>7. ASSUME RowCancelled PROVE Goal
  BY <1>7, <1>a, Placement DEF RowCancelled, At, Threw, ActiveInv, output, written, NoTable
<1>8. ASSUME CopyChunk PROVE Goal
  <2>1. target \in Tables /\ format[target] = "copy" /\ MethodType
    BY <1>8, <1>a, Placement DEF CopyChunk, At, TypeOK, SerializerType
  <2>2. PICK n \in 1..todo :
          \/ /\ Written(PutRows(target, n)) /\ n \in Nat
             /\ stat'[target] = stat[target] + n
             /\ \A j \in Tables : j # target => stat'[j] = stat[j]
             /\ UNCHANGED <<active, pend>>
          \/ /\ Rejected(PutRows(target, n)) /\ n \in Nat /\ sp' = "threw"
             /\ UNCHANGED <<active, pend, stat>>
    BY <1>8, <2>1, ChunkWritten
  <2>3. \/ PutRows(target, n)
        \/ out' = out /\ sp' = "threw" /\ stat' = stat
    BY <2>2 DEF Written, Rejected, PutNothing, written
  <2>4. \/ stat'[target] = stat[target] + n
        \/ sp' = "threw" /\ aborted'
        \/ out' = out /\ stat' = stat
    BY <2>2 DEF Written, Rejected, PutNothing, written
  <2>5. i # target => stat'[i] = stat[i]
    BY <2>2
  <2>6. PutRows(target, n) => out'[target] = out[target] + n /\ (i # target => out'[i] = out[i])
    BY <2>1, <2>2, RowsPut DEF TypeOK, SerializerType, OutputType
  <2>7. UNCHANGED <<active, pend>>
    BY <2>2
  <2>8. QED
    BY <1>a, <2>1, <2>2, <2>3, <2>4, <2>5, <2>6, <2>7
<1>9. ASSUME FlushEarly PROVE Goal
  <2>1. target \in Tables /\ active = target /\ pend \in Nat /\ format[target] = "insert"
    BY <1>9, <1>a, Placement DEF FlushEarly, At, ActiveInv
  <2>2. \/ out' = out /\ sp' = "threw"
        \/ PutRows(target, pend) /\ (sp' = "threw" \/ pend' = 0)
    BY <1>9 DEF FlushEarly, WriteFails, Written, Rejected, Threw, Report, PutNothing, written
  <2>3. PutRows(target, pend) =>
          out'[target] = out[target] + pend /\ (i # target => out'[i] = out[i])
    BY <2>1, RowsPut DEF TypeOK, SerializerType, OutputType
  <2>4. UNCHANGED <<active, stat>>
    BY <1>9 DEF FlushEarly, WriteFails
  <2>5. QED
    BY <1>a, <2>1, <2>2, <2>3, <2>4
<1>10. ASSUME Push PROVE Goal
  <2>1. /\ target \in Tables /\ active = target /\ format[target] = "insert" /\ pend \in Nat
        /\ stat \in [Tables -> Nat]
    BY <1>10, <1>a, Placement DEF Push, ActiveInv, TypeOK, SerializerType, MethodType
  <2>2. \/ out' = out /\ pend' = pend + 1 /\ sp' = "body"
        \/ out' = out /\ sp' = "threw"
        \/ PutRows(target, pend + 1) /\ sp' = "threw"
        \/ PutRows(target, pend + 1) /\ sp' = "body" /\ pend' = 0
    BY <1>10 DEF Push, Written, Rejected, Threw, Report, PutNothing, output, written
  <2>3. PutRows(target, pend + 1) =>
          out'[target] = out[target] + (pend + 1) /\ (i # target => out'[i] = out[i])
    BY <2>1, RowsPut DEF TypeOK, SerializerType, OutputType
  <2>4. /\ sp' = "body" => stat'[target] = stat[target] + 1
        /\ i # target => stat'[i] = stat[i]
    BY <1>10, <2>1, StatCounts DEF Push
  <2>5. UNCHANGED active
    BY <1>10 DEF Push
  <2>6. QED
    BY <1>a, <2>1, <2>2, <2>3, <2>4, <2>5
<1>11. ASSUME Consumed PROVE Goal
  BY <1>11, <1>a, Placement DEF Consumed, At, Report, Threw, ActiveInv, output, written,
      NoTable
<1>12. ASSUME RecoverEnd PROVE Goal
  <2>1. out' = out
    BY <1>12 DEF RecoverEnd, WriteFails, Written, Rejected, PutTerminator, PutNothing, output,
        written
  <2>2. stat' = stat
    BY <1>12 DEF RecoverEnd, WriteFails
  <2>3. opt.bestEffort
    BY <1>12, Placement DEF RecoverEnd, At, TableInv
  <2>4. QED
    BY <2>1, <2>2, <2>3
<1>13. ASSUME RecoverMark PROVE Goal
  <2>1. out' = out
    BY <1>13 DEF RecoverMark, WriteFails, Written, Rejected, PutComment, PutNothing, written
  <2>2. QED
    BY <1>13, <1>a, <2>1 DEF RecoverMark, WriteFails
<1>14. ASSUME Finish PROVE Goal
  BY <1>14, <1>a, Placement DEF Finish, At, ActiveInv, output, written, NoTable
<1>15. ASSUME Flush PROVE Goal
  BY <1>15, <1>a, Placement DEF Flush, At, WriteFails, Written, Rejected, Threw, PutNothing,
      Report, ActiveInv, output, written, NoTable
<1>16. QED
  BY <1>1, <1>2, <1>3, <1>4, <1>5, <1>6, <1>7, <1>8, <1>9, <1>10, <1>11, <1>12, <1>13, <1>14,
     <1>15 DEF Serialize, SerializerStep

(* stats.rows follows the output.                                          *)
LEMMA StatNext == ASSUME Control, TypeOK', DoomInv, StatInv, Next PROVE StatInv'
<1> USE DEF StatInv
<1>1. UNCHANGED <<format, opt>>
  BY FormatNext
<1>2. /\ (aborted /\ Doomed) => Doomed'
      /\ ~opt.bestEffort /\ Dead => Dead'
  BY DoomStays DEF Halted
<1>3. ASSUME EngineStep PROVE StatInv'
  <2>1. UNCHANGED <<format, active, pend, stat, out, aborted>>
    BY <1>3, EngineKeeps DEF output, written
  <2>2. QED
    BY <1>1, <1>2, <2>1 DEF Pending
<1>4. ASSUME Serialize PROVE StatInv'
  <2> SUFFICES ASSUME NEW i \in Tables
               PROVE /\ format'[i] = "copy" => stat'[i] = out'[i] \/ (aborted' /\ Doomed')
                     /\ format'[i] = "insert" /\ ~opt'.bestEffort =>
                          stat'[i] = out'[i] + Pending(i)' \/ Dead'
    OBVIOUS
  <2>1. aborted => aborted'
    BY <1>4, AbortedStays
  <2>2. sp' = "threw" => Doomed' /\ Dead'
    BY DEF Doomed, Dead
  <2>3. /\ format[i] = "copy" /\ stat[i] = out[i] =>
             stat'[i] = out'[i] \/ (aborted' /\ sp' = "threw")
        /\ format[i] = "insert" /\ ~opt.bestEffort /\ stat[i] = out[i] + Pending(i) =>
             stat'[i] = out'[i] + Pending(i)' \/ sp' = "threw"
    BY <1>4, Counted
  <2>4. QED
    BY <1>1, <1>2, <2>1, <2>2, <2>3
<1>5. ASSUME Abort PROVE StatInv'
  BY <1>2, <1>5 DEF Abort, written, serializer, counts, engine, Pending
<1>6. QED
  BY <1>3, <1>4, <1>5 DEF Next

-----------------------------------------------------------------------------
(* Diagnostics and comments are never taken back.                          *)
LEMMA SerializeGrows ==
  ASSUME Control, Serialize
  PROVE  flagged \subseteq flagged' /\ marked \subseteq marked' /\ (raised => raised')
<1>1. flagged \subseteq flagged' /\ (raised => raised')
  BY DEF Serialize, SerializerStep, counts, Consume, Complete, Blank, Begin, Header, BadRow,
      RowCancelled, CopyChunk, FlushEarly, Push, Consumed, RecoverEnd, RecoverMark, Finish,
      Flush, WriteFails, Threw, Report
<1>2. marked \subseteq marked'
  BY DEF Serialize, SerializerStep, output, written, PutNothing, PutRows, PutHeader,
      PutTerminator, PutComment, Consume, Complete, Blank, Begin, Header, BadRow,
      RowCancelled, CopyChunk, FlushEarly, Push, Consumed, RecoverEnd, RecoverMark, Finish,
      Flush, WriteFails, Written, Rejected
<1>3. QED
  BY <1>1, <1>2

(* A row that is not in the output is still on its way, or its table is    *)
(* named.                                                                  *)
LEMMA AccountNext == ASSUME Control, TypeOK', DoomInv, AccountInv, Next PROVE AccountInv'
<1> USE DEF Control
<1>1. UNCHANGED <<format, opt, rows>>
  BY FormatNext
<1>2. Halted /\ Doomed => Doomed'
  BY DoomStays
<1>3. /\ ep \in {"close", "caught"} /\ why = "consumer" => Named(table)
      /\ ep = "recovering" /\ sp = "ok" => Named(table)
      /\ ep \in {"next", "finishing", "completed"} /\ table # 0 =>
           pos = rows[table] \/ Named(table)
  BY DEF AccountInv
<1>4. ASSUME EngineStep PROVE AccountInv'
  <2>1. UNCHANGED <<out, active, pend, aborted, broken, raised, flagged, marked>>
    BY <1>4, EngineKeeps DEF output, written
  <2>2. \A i : Named(i)' = Named(i)
    BY <2>1 DEF Named
  <2>3. sp # "mark" /\ sp' # "mark"
    BY <1>4 DEF CallInv, EngineStep, serializer, Start, NextTable, Declare, Fetch, Row, Close,
        Tail, Check, Caught, BatchConsumed, ConsumerFailed, Recovered, RecoverFailed,
        Finished, EngineAt, Returned, Thrown, Idle, Recover, Yield
  <2>4. /\ \/ ep' = "recovering" /\ sp' = "ok"
           \/ ep' \in {"close", "caught"} /\ why' = "consumer"
           => Named(table) /\ table' = table
        /\ ep' \in {"next", "finishing", "completed"} /\ table' # 0 =>
             (pos' = rows'[table'] \/ Named(table)) /\ table' = table
        /\ Leaving => (Leaving' /\ table' = table) \/ Named(table)
        /\ Leaving' => table' = table
    <3> DEFINE Goal ==
        /\ \/ ep' = "recovering" /\ sp' = "ok"
           \/ ep' \in {"close", "caught"} /\ why' = "consumer"
           => Named(table) /\ table' = table
        /\ ep' \in {"next", "finishing", "completed"} /\ table' # 0 =>
             (pos' = rows'[table'] \/ Named(table)) /\ table' = table
        /\ Leaving => (Leaving' /\ table' = table) \/ Named(table)
        /\ Leaving' => table' = table
    <3> USE DEF CallInv, ReadInv, TableInv, Leaving, Settled, engine, serializer, reading
    <3>1. ASSUME Start PROVE Goal
      BY <1>3, <3>1 DEF Start, EngineAt, StatementFails, QueryRejects
    <3>2. ASSUME NextTable PROVE Goal
      BY <1>3, <3>2 DEF NextTable
    <3>3. ASSUME Declare PROVE Goal
      BY <1>3, <3>3 DEF Declare, EngineAt, Leave, StatementOk, StatementFails, QueryRejects,
          Fault
    <3>4. ASSUME Fetch PROVE Goal
      BY <1>3, <3>4 DEF Fetch, EngineAt, Leave, StatementOk, StatementFails, QueryRejects,
          Fault
    <3>5. ASSUME Row PROVE Goal
      BY <1>3, <3>5 DEF Row, Leave, Yield
    <3>6. ASSUME Close PROVE Goal
      BY <1>3, <3>6 DEF Close, EngineAt, StatementOk
    <3>7. ASSUME Tail PROVE Goal
      BY <1>3, <3>7 DEF Tail, Yield
    <3>8. ASSUME Check PROVE Goal
      BY <1>3, <3>8 DEF Check, EngineAt
    <3>9. ASSUME Caught PROVE Goal
      BY <1>3, <3>9 DEF Caught, Recover
    <3>10. ASSUME BatchConsumed PROVE Goal
      BY <1>3, <3>10 DEF BatchConsumed, Returned, Idle, TypeOK, EngineType
    <3>11. ASSUME ConsumerFailed PROVE Goal
      BY <1>3, <3>11 DEF ConsumerFailed, Thrown, Recover, Idle, Leave
    <3>12. ASSUME Recovered PROVE Goal
      BY <1>3, <3>12 DEF Recovered, Returned, Idle
    <3>13. ASSUME RecoverFailed PROVE Goal
      BY <1>3, <3>13 DEF RecoverFailed, Thrown, Idle
    <3>14. ASSUME Finished PROVE Goal
      BY <1>3, <3>14 DEF Finished, Returned, Thrown, Idle
    <3>15. QED
      BY <1>4, <3>1, <3>2, <3>3, <3>4, <3>5, <3>6, <3>7, <3>8, <3>9, <3>10, <3>11, <3>12,
         <3>13, <3>14 DEF EngineStep
  <2>5. ASSUME ~raised', ~(Halted' /\ Doomed'), NEW i \in Tables
        PROVE \/ Kept(i)' = Taken(i)' \/ Named(i)' \/ Lost(i)' \/ (i = table' /\ Leaving')
    <3>1. Kept(i) = Taken(i) \/ Named(i) \/ Lost(i) \/ (i = table /\ Leaving)
      BY <1>2, <2>1, <2>5 DEF AccountInv, Halted
    <3>2. CASE Kept(i) = Taken(i)
      <4>1. Pending(i)' = Pending(i)
        BY <2>1 DEF Pending
      <4>2. \/ Owed(i)' + Taken(i) = Owed(i) + Taken(i)'
            \/ i = table /\ (Leaving' \/ (ep = "next" /\ pos # rows[table]))
        BY <1>4, Handed
      <4>3. i = table => i # 0
        BY Naturals
      <4>4. /\ out[i] \in Nat /\ Pending(i) \in Nat /\ Owed(i) \in Nat /\ Taken(i) \in Nat
        BY Naturals DEF Control, Pending, Owed, Taken
      <4>5. /\ Owed(i)' \in Nat /\ Taken(i)' \in Nat
        BY NaturalsNext DEF Owed, Taken
      <4>6. QED
        BY <1>3, <2>1, <2>2, <2>4, <3>2, <4>1, <4>2, <4>3, <4>4, <4>5 DEF Kept
    <3>3. CASE Named(i) \/ Lost(i)
      BY <1>1, <2>1, <2>2, <2>3, <3>3 DEF Lost
    <3>4. CASE i = table /\ Leaving
      BY <2>2, <2>4, <3>4
    <3>5. QED
      BY <3>1, <3>2, <3>3, <3>4
  <2>6. QED
    BY <2>2, <2>4, <2>5 DEF AccountInv
<1>5. ASSUME Serialize PROVE AccountInv'
  <2>1. UNCHANGED <<ep, table, pos, why>>
    BY <1>5 DEF Serialize, reading
  <2>2. flagged \subseteq flagged' /\ marked \subseteq marked' /\ (raised => raised')
    BY <1>5, SerializeGrows
  <2>3. \A i : Named(i) => Named(i)'
    BY <2>2 DEF Named
  <2>4. Running /\ ep \in {"consuming", "recovering", "finishing"}
    BY <1>5 DEF CallInv, Running, Serialize, SerializerStep, Consume, Complete, Blank, Begin,
        Header, BadRow, RowCancelled, CopyChunk, FlushEarly, Push, Consumed, RecoverEnd,
        RecoverMark, Finish, Flush, At
  <2>5. ep = "recovering" /\ sp' = "ok" => Named(table)'
    BY <1>5, <2>4, Placement DEF Named, CallInv, Serialize, SerializerStep, Consume, Complete,
        Blank, Begin, Header, BadRow, RowCancelled, CopyChunk, FlushEarly, Push, Consumed,
        RecoverEnd, RecoverMark, Finish, Flush, At, WriteFails, Written, Threw, PutComment,
        Report
  <2>6. ASSUME ~raised', ~(Halted' /\ Doomed'), NEW i \in Tables
        PROVE \/ Kept(i)' = Taken(i)' \/ Named(i)' \/ Lost(i)' \/ (i = table' /\ Leaving')
    <3>1. Kept(i) = Taken(i) \/ Named(i) \/ Lost(i) \/ (i = table /\ Leaving)
      BY <1>2, <2>2, <2>6, HaltedStays, <1>5 DEF AccountInv
    <3>2. CASE Kept(i) = Taken(i)
      <4>1. \/ Kept(i)' = Kept(i)
            \/ i = table /\ Leaving'
            \/ sp = "recover" /\ sp' = "mark" /\ i = active /\ format[i] = "insert"
        BY <1>5, <2>6, Serialized DEF Doomed, Dead
      <4>2. Taken(i)' = Taken(i)
        BY <1>5, Serialized
      <4>3. ASSUME sp = "recover", sp' = "mark", i = active, format[i] = "insert"
            PROVE Lost(i)' \/ (i = table' /\ Leaving')
        <5>1. ep = "recovering" /\ target = table /\ opt.bestEffort
          BY <4>3, Placement DEF TableInv
        <5>2. i <= table /\ i \in Nat /\ table \in Nat
          BY <4>3, Naturals DEF TableInv
        <5>3. target' = target
          BY <1>5, <4>3 DEF Serialize, At, SerializerStep, Consume, Complete, Blank, Begin,
              Header, BadRow, RowCancelled, CopyChunk, FlushEarly, Push, Consumed, RecoverEnd,
              RecoverMark, Finish, Flush, At
        <5>4. QED
          BY <1>1, <2>1, <4>3, <5>1, <5>2, <5>3 DEF Lost, Leaving
      <4>4. QED
        BY <2>1, <3>2, <4>1, <4>2, <4>3
    <3>3. CASE Lost(i)
      <4>1. CASE \E j \in flagged : j > i
        BY <1>1, <2>2, <3>3, <4>1 DEF Lost
      <4>2. CASE sp = "mark" /\ i < target
        <5>1. target \in flagged' \/ (Halted' /\ sp' = "threw")
          BY <1>5, <4>2 DEF Halted, Serialize, SerializerStep, Consume, Complete, Blank,
              Begin, Header, BadRow, RowCancelled, CopyChunk, FlushEarly, Push, Consumed,
              RecoverEnd, RecoverMark, Finish, Flush, At, WriteFails, Written, Rejected, Threw
        <5>2. i < target => target > i
          BY Naturals
        <5>3. QED
          BY <1>1, <2>6, <3>3, <4>2, <5>1, <5>2 DEF Lost, Doomed, Dead
      <4>3. QED
        BY <3>3, <4>1, <4>2 DEF Lost
    <3>4. CASE Named(i)
      BY <2>3, <3>4
    <3>5. CASE i = table /\ Leaving
      BY <2>1, <2>4, <3>5 DEF Leaving, Running
    <3>6. QED
      BY <3>1, <3>2, <3>3, <3>4, <3>5
  <2>7. QED
    BY <1>1, <1>3, <2>1, <2>3, <2>4, <2>5, <2>6 DEF AccountInv
<1>6. ASSUME Abort PROVE AccountInv'
  BY <1>6 DEF Abort, AccountInv, written, serializer, counts, engine, reading, report, Named,
      Kept, Pending, Owed, Taken, Running, Lost, Leaving, Halted, Doomed, Dead
<1>7. QED
  BY <1>4, <1>5, <1>6 DEF Next

-----------------------------------------------------------------------------
(* Inv holds before the export starts ...                                  *)
LEMMA InvInit == ASSUME Init PROVE Inv
<1> USE DEF Init, InitSerializer
<1>1. Control
  BY ControlInit
<1>2. RowsInv /\ AccountInv
  BY Naturals, <1>1 DEF RowsInv, AccountInv, Kept, Pending, Owed, Taken, Control, NoTable
<1>3. DoomInv /\ CursorInv /\ StatInv
  BY DEF DoomInv, CursorInv, StatInv, Pending, NoTable
<1>4. BlockInv
  BY DEF BlockInv, Expected, CallbackRecovered
<1>5. FailInv
  BY DEF FailInv, Failing, Dead
<1>6. QED
  BY <1>1, <1>2, <1>3, <1>4, <1>5 DEF Inv

(* ... and is kept by every step.                                          *)
LEMMA InvNext == ASSUME Inv, [Next]_vars PROVE Inv'
<1>1. CASE Next
  <2>1. Control'
    BY <1>1, ControlNext DEF Inv
  <2>2. TypeOK'
    BY <2>1 DEF Control
  <2>3. QED
    BY <1>1, <2>1, <2>2, RowsNext, DoomNext, BlockNext, StatNext, FailNext, CursorNext,
       AccountNext DEF Inv
<1>2. CASE UNCHANGED vars
  <2>1. UNCHANGED <<format, sp, call, target, todo, active, pend, stat, flagged, raised>>
    BY <1>2 DEF vars, serializer
  <2>2. UNCHANGED <<aborted, broken, out, block, marked, strayed>>
    BY <1>2 DEF vars, output, written
  <2>3. UNCHANGED <<ep, opt, rows, table, got, pos, short, batch, resume, why, declared, cursor,
                    tx, tracked, lastBatch, blamed, faulted>>
    BY <1>2 DEF vars, engine
  <2>4. Control'
    BY <2>1, <2>2, <2>3 DEF Inv, Control, TypeOK, SerializerType, MethodType, OutputType,
        EngineType, CallInv, TableInv, ReadInv, ActiveInv
  <2>5. RowsInv' /\ AccountInv'
    BY <2>1, <2>2, <2>3 DEF Inv, RowsInv, AccountInv, Kept, Pending, Owed, Taken, Running,
        Named, Lost, Leaving, Halted, Doomed, Dead
  <2>6. DoomInv' /\ BlockInv' /\ StatInv' /\ FailInv' /\ CursorInv'
    BY <2>1, <2>2, <2>3 DEF Inv, DoomInv, BlockInv, StatInv, FailInv, CursorInv, Pending,
        Expected, CallbackRecovered, Failing, Halted, Doomed, Dead
  <2>7. QED
    BY <2>4, <2>5, <2>6 DEF Inv
<1>3. QED
  BY <1>1, <1>2

(* Inv is an invariant of the export.                                      *)
THEOREM Invariance == Spec => []Inv
  BY InvInit, InvNext, PTL DEF Spec

-----------------------------------------------------------------------------
(* Every variable keeps its type: in particular batchRows never holds more *)
(* than batchSize rows and no more rows are taken than the table has.      *)
THEOREM TypeCorrect == Spec => []TypeOK
<1>1. Inv => TypeOK
  BY DEF Inv, Control
<1>2. QED
  BY <1>1, Invariance, PTL

(* No row is written twice and none that was not read, whatever fails and  *)
(* however the rows are cut into batches, chunks and INSERT statements.    *)
THEOREM WrittenOnce == Spec => []RowsWrittenOnce
<1>1. Inv => RowsWrittenOnce
  <2> SUFFICES ASSUME Inv, NEW i \in Tables
               PROVE out[i] + (IF i = active /\ ~aborted THEN pend ELSE 0) <= Taken(i)
    BY DEF RowsWrittenOnce, Taken
  <2>1. /\ out[i] <= Taken(i) /\ (~aborted => Kept(i) <= Taken(i))
        /\ out[i] \in Nat /\ Pending(i) \in Nat /\ Owed(i) \in Nat /\ Taken(i) \in Nat
    BY Naturals DEF Inv, Control, RowsInv, Pending, Owed, Taken
  <2>2. QED
    BY <2>1 DEF Kept, Pending
<1>2. QED
  BY <1>1, Invariance, PTL

(* recoverTable, completeActive and startTable agree on which COPY block is *)
(* open, so the output is well formed whichever write, callback or read    *)
(* fails.                                                                  *)
THEOREM WellFormed == Spec => []OutputWellFormed
<1>1. Inv => OutputWellFormed
  <2> SUFFICES ASSUME Inv, ~CallbackRecovered
               PROVE ~strayed /\ (ep = "completed" => block = NoTable)
    BY DEF OutputWellFormed
  <2>1. ~strayed
    BY DEF Inv, BlockInv
  <2>2. ASSUME ep = "completed" PROVE block = NoTable
    <3>1. sp = "idle" /\ ~Doomed /\ ~raised
      BY <2>2 DEF Inv, Control, CallInv, DoomInv, Doomed, Dead, CallbackRecovered
    <3>2. active = NoTable
      BY <2>2 DEF Inv, Control, TableInv, ActiveInv
    <3>3. QED
      BY <3>1, <3>2 DEF Inv, BlockInv, Expected
  <2>3. QED
    BY <2>1, <2>2
<1>2. QED
  BY <1>1, Invariance, PTL

(* rowsWritten is the number of rows in a completed output, for COPY tables *)
(* always and for INSERT tables when nothing may be recovered.             *)
THEOREM StatisticsMatch == Spec => []StatisticsMatchOutput
<1>1. Inv => StatisticsMatchOutput
  <2> SUFFICES ASSUME Inv, ep = "completed", NEW i \in Tables,
                      format[i] = "copy" \/ ~opt.bestEffort
               PROVE  stat[i] = out[i]
    BY DEF StatisticsMatchOutput
  <2>1. ~Doomed /\ ~Dead /\ active = NoTable
    BY DEF Inv, Control, CallInv, ActiveInv, Doomed, Dead
  <2>2. format[i] \in {"copy", "insert"} /\ i # NoTable /\ out[i] \in Nat
    BY Naturals DEF Inv, Control, TypeOK, SerializerType, NoTable
  <2>3. QED
    BY <2>1, <2>2 DEF Inv, StatInv, Pending
<1>2. QED
  BY <1>1, Invariance, PTL

(* A fail-fast export with an error anywhere never completes, and one that *)
(* completes has passed every table in a transaction still alive.          *)
THEOREM FailsFast == Spec => []FailFast
<1>1. Inv => FailFast
  <2> SUFFICES ASSUME Inv, ep = "completed", ~opt.bestEffort
               PROVE  /\ faulted = {} /\ flagged = {} /\ ~raised /\ ~broken
                      /\ tx = "open" /\ tracked = "in-transaction" /\ table = TableCount
    BY DEF FailFast
  <2>1. ~Failing
    BY DEF Inv, Control, CallInv, Failing, Dead
  <2>2. QED
    BY <2>1 DEF Inv, Control, FailInv, TableInv
<1>2. QED
  BY <1>1, Invariance, PTL

(* The finally blocks of the generators close the cursor of the server on  *)
(* every path out of them that the property does not except.               *)
THEOREM CursorsClosed == Spec => []CursorClosed
<1>1. Inv => CursorClosed
  BY DEF Inv, CursorInv, CursorClosed, Settled
<1>2. QED
  BY <1>1, Invariance, PTL

(* A table of a completed export is complete in the output or announced as *)
(* incomplete, except an INSERT table before one that bestEffort recovers. *)
THEOREM AccountedFor == Spec => []CompleteOrFlagged
<1>1. Inv => CompleteOrFlagged
  <2> SUFFICES ASSUME Inv, ep = "completed", ~CallbackRecovered, NEW i \in Tables
               PROVE  \/ out[i] = rows[i]
                      \/ i \in flagged /\ i \in marked
                      \/ opt.bestEffort /\ format[i] = "insert" /\ \E j \in flagged : j > i
    BY DEF CompleteOrFlagged
  <2>1. /\ sp = "idle" /\ ~Doomed /\ ~Dead /\ ~Leaving
    BY DEF Inv, Control, CallInv, Doomed, Dead, Leaving
  <2>2. ~raised
    BY <2>1 DEF Inv, DoomInv, CallbackRecovered
  <2>3. active = NoTable /\ table = TableCount /\ table # 0 
    BY DEF Inv, Control, ActiveInv, TableInv
  <2>4. Kept(i) = Taken(i) \/ Named(i) \/ Lost(i)
    BY <2>1, <2>2 DEF Inv, AccountInv
  <2>5. Kept(i) = out[i]
    BY <2>1, <2>3, Naturals DEF Inv, Control, Kept, Pending, Owed, NoTable
  <2>6. i <= table /\ i \in Nat /\ table \in Nat
    BY <2>3, SizesAssumption DEF Tables
  <2>7. CASE Kept(i) = Taken(i)
    <3>1. i < table => Taken(i) = rows[i]
      BY DEF Taken
    <3>2. i = table => Taken(i) = rows[i] \/ Named(i)
      BY <2>3 DEF Inv, AccountInv, Taken
    <3>3. QED
      BY <2>5, <2>6, <2>7, <3>1, <3>2 DEF Named
  <2>8. QED
    BY <2>1, <2>4, <2>7 DEF Named, Lost
<1>2. QED
  BY <1>1, Invariance, PTL

(* Once a fail-fast export has met an error nothing more is written: the   *)
(* finally blocks run, and nothing of the serializer does.                 *)
THEOREM Silent == Spec => NothingAfterFailure
<1>1. Inv /\ [Next]_vars =>
        [ ~opt.bestEffort /\ (faulted # {} \/ flagged # {} \/ raised \/ broken \/ blamed # NoTable)
            => UNCHANGED written ]_vars
  <2> SUFFICES ASSUME Inv, Next, ~opt.bestEffort,
                      faulted # {} \/ flagged # {} \/ raised \/ broken \/ blamed # NoTable
               PROVE  UNCHANGED written
    OBVIOUS
  <2>1. Failing
    BY DEF Inv, FailInv
  <2>2. ~Serialize
    BY <2>1 DEF Inv, Control, CallInv, Failing, Dead, Serialize, SerializerStep, At, Consume,
        Complete, Blank, Begin, Header, BadRow, RowCancelled, CopyChunk, FlushEarly, Push,
        Consumed, RecoverEnd, RecoverMark, Finish, Flush
  <2>3. QED
    BY <2>2, EngineKeeps DEF Next, Abort, output
<1>2. QED
  BY <1>1, Invariance, PTL DEF Spec, NothingAfterFailure
=============================================================================
