------------------------ MODULE PlainDataSerializer ------------------------
(***************************************************************************)
(* The stateful table data serializer and the writer under it.             *)
(*                                                                         *)
(* consume, recoverTable and finish are called one at a time by DataExport *)
(* and run as a chain of awaited writes.  The output is kept as far as the *)
(* properties need it: how many rows of each table it holds (rows of a     *)
(* table are written in order), which COPY block is open at its end, which *)
(* tables carry an INCOMPLETE comment, and whether anything was ever       *)
(* written where a restore would not read it as intended.                  *)
(***************************************************************************)
EXTENDS Naturals

CONSTANTS
  TableCount,       \* tables of the plan, in archive order
  MaxRows,          \* rows of a table (bound)
  RowsPerInsert,    \* options.rowsPerInsert
  CallbackMayThrow  \* the caller's progress callback may throw

ASSUME SizesAssumption ==
  /\ TableCount \in Nat \ {0} /\ MaxRows \in Nat
  /\ RowsPerInsert \in Nat \ {0} /\ CallbackMayThrow \in BOOLEAN

Tables  == 1..TableCount
NoTable == 0
Rows    == 0..MaxRows

VARIABLES
  format,    \* "copy" or "insert" for each table (options.mode, tableModes)
  sp,        \* where the serializer is; "ok" and "threw" end a call
  call,      \* the method running: consume, recover, finish
  target,    \* the table of the batch or of the diagnostic
  todo,      \* rows of the batch still to serialize
  active,    \* #active, the table whose fragment is open
  pend,      \* active.pendingRows, rows rendered but not written
  stat,      \* stats.rows of each table
  flagged,   \* tables with an error in #diagnostics
  raised,    \* a progress callback has thrown (history)
  aborted,   \* signal.aborted
  broken,    \* the output stream has failed
  out,       \* rows of each table in the output
  block,     \* the table whose COPY block the output ends in
  marked,    \* tables with an INCOMPLETE comment in the output
  strayed    \* a row, header, terminator or comment in the wrong place

written    == <<out, block, marked, strayed>>
output     == <<aborted, broken, written>>
serializer == <<sp, call, target, todo, active, pend, stat, flagged, raised>>
\* what the steps of one method may leave alone
counts     == <<stat, flagged, raised>>

InitSerializer ==
  /\ format \in [Tables -> {"copy", "insert"}]
  /\ sp = "idle" /\ call = "none" /\ target = NoTable /\ todo = 0
  /\ active = NoTable /\ pend = 0
  /\ stat = [t \in Tables |-> 0] /\ flagged = {} /\ raised = FALSE
  /\ aborted = FALSE /\ broken = FALSE
  /\ out = [t \in Tables |-> 0] /\ block = NoTable
  /\ marked = {} /\ strayed = FALSE

-----------------------------------------------------------------------------
(* What a write adds to the output.                                        *)
Stray(wrong) == strayed' = IF wrong THEN TRUE ELSE strayed

PutRows(t, n) ==
  /\ out' = [out EXCEPT ![t] = @ + n]
  /\ Stray(n > 0 /\ block # (IF format[t] = "copy" THEN t ELSE NoTable))
  /\ UNCHANGED <<block, marked>>

PutHeader(t) == block' = t /\ Stray(block # NoTable) /\ UNCHANGED <<out, marked>>

PutTerminator(t) == block' = NoTable /\ Stray(block # t) /\ UNCHANGED <<out, marked>>

PutComment(t) ==
  marked' = marked \cup {t} /\ Stray(block # NoTable) /\ UNCHANGED <<out, block>>

PutNothing == UNCHANGED written

(* StreamDumpWriter.write.  It rejects once the signal has fired or the    *)
(* stream has failed, and a stream that failed stays failed; when the      *)
(* signal fires while the bytes are on their way, it rejects although they *)
(* reach the stream.                                                       *)
Written(put) == ~aborted /\ ~broken /\ put /\ UNCHANGED <<aborted, broken>>

Rejected(put) ==
  \/ aborted /\ PutNothing /\ UNCHANGED <<aborted, broken>>
  \/ ~aborted /\ broken' = TRUE /\ PutNothing /\ UNCHANGED aborted
  \/ ~aborted /\ ~broken /\ put /\ aborted' = TRUE /\ UNCHANGED broken

-----------------------------------------------------------------------------
(* The serializer is at point p of the running method.                     *)
At(p) == sp = p /\ UNCHANGED <<format, call, target>>

Threw == sp' = "threw"

(* The write that carries put rejects, and the method with it.             *)
WriteFails(put) == Rejected(put) /\ Threw /\ UNCHANGED <<todo, active, pend, counts>>

(* onProgress: the method goes on at p, or the callback throws.            *)
Report(p) ==
  \/ sp' = p /\ UNCHANGED raised
  \/ CallbackMayThrow /\ Threw /\ raised' = TRUE

(* consume: the batch of another table completes the active one first.     *)
Consume ==
  /\ At("consume")
  /\ sp' = IF aborted THEN "threw"
           ELSE IF active = target THEN "body"
           ELSE IF active = NoTable THEN "begin" ELSE "complete"
  /\ UNCHANGED <<todo, active, pend, counts, output>>

(* completeActive, first write: the COPY terminator or the last INSERT.    *)
Complete ==
  /\ At("complete")
  /\ LET put == IF format[active] = "copy" THEN PutTerminator(active)
                ELSE PutRows(active, pend)
         wrote == format[active] = "copy" \/ pend > 0
     IN \/ /\ wrote /\ Written(put) /\ pend' = 0 /\ Report("blank")
           /\ UNCHANGED <<todo, active, stat, flagged>>
        \/ wrote /\ WriteFails(put)
        \/ /\ ~wrote /\ sp' = "blank"
           /\ UNCHANGED <<todo, active, pend, counts, output>>

(* completeActive, second write: #active is reset only after the progress  *)
(* report.                                                                 *)
Blank ==
  /\ At("blank")
  /\ \/ /\ Written(PutNothing)
        /\ Report(IF call = "finish" THEN "flush" ELSE "begin")
        /\ active' = IF sp' = "threw" THEN active ELSE NoTable
        /\ UNCHANGED <<todo, pend, stat, flagged>>
     \/ WriteFails(PutNothing)

(* startTable: a planning error leaves no table active; after that #active *)
(* is the new table, before its header is written.                         *)
Begin ==
  /\ At("begin")
  /\ \/ Threw /\ flagged' = flagged \cup {target} /\ UNCHANGED <<active, pend, raised>>
     \/ /\ active' = target /\ pend' = 0 /\ UNCHANGED flagged
        /\ Report(IF format[target] = "copy" THEN "header" ELSE "body")
  /\ UNCHANGED <<todo, stat, output>>

Header ==
  /\ At("header")
  /\ \/ /\ Written(PutHeader(target))
        /\ sp' = "body" /\ UNCHANGED <<todo, active, pend, counts>>
     \/ WriteFails(PutHeader(target))

(* A row that cannot be rendered: whatever of the batch has not been       *)
(* written is lost, and failure() records a diagnostic.                    *)
BadRow ==
  /\ At("body") /\ todo > 0 /\ ~aborted
  /\ Threw /\ flagged' = flagged \cup {target}
  /\ UNCHANGED <<todo, active, pend, stat, raised, output>>

(* throwIfAborted at the head of each row.                                 *)
RowCancelled ==
  /\ At("body") /\ todo > 0 /\ aborted
  /\ Threw /\ UNCHANGED <<todo, active, pend, counts, output>>

\* Mutant of CopyChunk: counts the rows of the batch still to write.
CopyChunkCountsBatch ==
  /\ At("body") /\ todo > 0 /\ format[target] = "copy"
  /\ \E n \in 1..todo :
       \/ /\ Written(PutRows(target, n))
          /\ todo' = todo - n /\ stat' = [stat EXCEPT ![target] = @ + todo]
          /\ UNCHANGED <<sp, active, pend, flagged, raised>>
       \/ WriteFails(PutRows(target, n))

(* writeCopyBatch: chunks of rows, counted once they are written.          *)
CopyChunk ==
  /\ At("body") /\ todo > 0 /\ format[target] = "copy"
  /\ \E n \in 1..todo :
       \/ /\ Written(PutRows(target, n))
          /\ todo' = todo - n /\ stat' = [stat EXCEPT ![target] = @ + n]
          /\ UNCHANGED <<sp, active, pend, flagged, raised>>
       \/ WriteFails(PutRows(target, n))

\* Mutant of FlushEarly: the rows written stay pending.
FlushEarlyKeepsRows ==
  /\ At("body") /\ todo > 0 /\ format[target] = "insert" /\ pend > 0 /\ ~aborted
  /\ \/ /\ Written(PutRows(target, pend)) /\ pend' = pend /\ Report("push")
        /\ UNCHANGED <<todo, active, stat, flagged>>
     \/ WriteFails(PutRows(target, pend))

(* queueInsertRow: the pending statement is written first when the row     *)
(* would make it too long ...                                              *)
FlushEarly ==
  /\ At("body") /\ todo > 0 /\ format[target] = "insert" /\ pend > 0 /\ ~aborted
  /\ \/ /\ Written(PutRows(target, pend)) /\ pend' = 0 /\ Report("push")
        /\ UNCHANGED <<todo, active, stat, flagged>>
     \/ WriteFails(PutRows(target, pend))

(* ... then the row is queued, and the statement written when it is full.  *)
(* stats.rows counts the row when it is queued.                            *)
Push ==
  /\ sp \in {"body", "push"} /\ At(sp)
  /\ todo > 0 /\ format[target] = "insert" /\ (sp = "body" => ~aborted)
  /\ LET full == pend + 1 >= RowsPerInsert
         put  == PutRows(target, pend + 1)
     IN \/ /\ ~full /\ pend' = pend + 1 /\ sp' = "body"
           /\ UNCHANGED <<raised, output>>
        \/ full /\ Written(put) /\ pend' = 0 /\ Report("body")
        \/ /\ full /\ Rejected(put) /\ Threw /\ pend' = pend + 1
           /\ UNCHANGED raised
  /\ todo' = IF sp' = "body" THEN todo - 1 ELSE todo
  /\ stat' = IF sp' = "body" THEN [stat EXCEPT ![target] = @ + 1] ELSE stat
  /\ UNCHANGED <<active, flagged>>

Consumed ==
  /\ At("body") /\ todo = 0 /\ Report("ok")
  /\ UNCHANGED <<todo, active, pend, stat, flagged, output>>

-----------------------------------------------------------------------------
(* recoverTable closes whatever table is active: a COPY block by its       *)
(* terminator, INSERT rows by dropping those not written.                  *)
CopyOpen == active # NoTable /\ format[active] = "copy"

\* Mutant of RecoverEnd: an open COPY block is forgotten, not terminated.
RecoverEndUnterminated ==
  /\ At("recover")
  /\ pend' = 0 /\ active' = NoTable /\ sp' = "mark"
  /\ UNCHANGED <<todo, counts, output>>

RecoverEnd ==
  /\ At("recover")
  /\ \/ /\ CopyOpen
        /\ \/ /\ Written(PutTerminator(active))
              /\ active' = NoTable /\ sp' = "mark" /\ UNCHANGED <<todo, pend, counts>>
           \/ WriteFails(PutTerminator(active))
     \/ /\ ~CopyOpen
        /\ pend' = 0 /\ active' = NoTable /\ sp' = "mark"
        /\ UNCHANGED <<todo, counts, output>>

(* The comment naming the table of the diagnostic, and the diagnostic.     *)
RecoverMark ==
  /\ At("mark")
  /\ \/ /\ Written(PutComment(target))
        /\ flagged' = flagged \cup {target} /\ sp' = "ok"
        /\ UNCHANGED <<todo, active, pend, stat, raised>>
     \/ WriteFails(PutComment(target))

(* finish: complete the active table, then flush the writer.               *)
Finish ==
  /\ At("finish")
  /\ sp' = IF active = NoTable THEN "flush" ELSE "complete"
  /\ UNCHANGED <<todo, active, pend, counts, output>>

Flush ==
  /\ At("flush")
  /\ \/ Written(PutNothing) /\ Report("ok") /\ UNCHANGED <<todo, active, pend, stat, flagged>>
     \/ WriteFails(PutNothing)

SerializerStep ==
  \/ Consume \/ Complete \/ Blank \/ Begin \/ Header
  \/ BadRow \/ RowCancelled \/ CopyChunk \/ FlushEarly \/ Push \/ Consumed
  \/ RecoverEnd \/ RecoverMark \/ Finish \/ Flush

MethodType ==
  /\ sp \in {"idle", "consume", "complete", "blank", "begin", "header", "body", "push",
             "recover", "mark", "finish", "flush", "ok", "threw"}
  /\ call \in {"none", "consume", "recover", "finish"}
  /\ target \in {NoTable} \cup Tables /\ active \in {NoTable} \cup Tables
  /\ todo \in Nat /\ pend \in Nat /\ stat \in [Tables -> Nat]
  /\ flagged \subseteq Tables /\ raised \in BOOLEAN

OutputType ==
  /\ aborted \in BOOLEAN /\ broken \in BOOLEAN
  /\ out \in [Tables -> Nat] /\ block \in {NoTable} \cup Tables
  /\ marked \subseteq Tables /\ strayed \in BOOLEAN

SerializerType == format \in [Tables -> {"copy", "insert"}] /\ MethodType /\ OutputType
=============================================================================
