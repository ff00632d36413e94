----------------------------- MODULE CopyLoad ------------------------------
(***************************************************************************)
(* One COPY block: loadCopyTextStream between the payload generator of     *)
(* SqlDumpReader and PgConnectionAdapter.openCopyFrom.                     *)
(*                                                                         *)
(* The payload is a stream of lines up to the marker; which line comes     *)
(* next, or that the file ends first, is the source's choice.  The pieces  *)
(* that run by themselves are                                              *)
(*   - the generator readCopyPayload, resumed when the pipeline takes what *)
(*     it yielded, and pending while it awaits the source;                 *)
(*   - the server, which may reject the COPY at any moment;                *)
(*   - the signal, which destroys the writable.                            *)
(*                                                                         *)
(* A destroyed payload closes its generator.  One that is suspended at a   *)
(* yield runs its finally block at once; one that awaits the source runs   *)
(* it after the pending read; one that never started never runs it.        *)
(***************************************************************************)
EXTENDS RestoreBackend

CONSTANT MaxLines        \* payload lines of one COPY block (bound)

ASSUME MaxLinesAssumption == MaxLines \in Nat

VARIABLES
  gen,                \* where the generator is
  activeCopy,         \* #activeCopy
  copyPayloadPending, \* #copyPayloadPending
  lines,              \* payload lines read
  ended,              \* #ended: the source is exhausted
  counted,            \* operations whose bytes are in copyBytesWritten ...
  rowsOf              \* ... and whose rows are in rowsRestored

reader == <<gen, activeCopy, copyPayloadPending, lines, ended>>
totals == <<counted, rowsOf>>

Generators == {"none", "unstarted", "waiting", "yielded", "closing", "done"}

(* The generator, or close(), holds a pending next() of the source.        *)
Reading == gen \in {"waiting", "closing"}

(* nextOperation returns a COPY operation with its payload.                *)
NewPayload ==
  /\ gen' = "unstarted" /\ lines' = 0
  /\ activeCopy' = TRUE /\ copyPayloadPending' = TRUE

(* source.destroy(reason), by pipeline, abortCopy or the finally block.    *)
PayloadDestroyed ==
  /\ gen' = CASE gen \in {"unstarted", "yielded"} -> "done"
              [] gen = "waiting" -> "closing"
              [] OTHER -> gen
  /\ activeCopy' = IF gen = "yielded" THEN FALSE ELSE activeCopy

-----------------------------------------------------------------------------
(* One read of the source by readCopyPayload, discardCopyPayloadRemainder  *)
(* or nextOperation; past the end there is nothing but the end.            *)
Line   == ~ended /\ lines < MaxLines /\ lines' = lines + 1 /\ UNCHANGED ended
Marker == ~ended /\ lines' = 0 /\ UNCHANGED ended
End    == ended' = TRUE /\ UNCHANGED lines

(* A generator that fails destroys the writable through the pipeline.      *)
GeneratorThrows ==
  /\ gen' = "done" /\ activeCopy' = FALSE
  /\ copy' = IF copy = "open" THEN "destroyed" ELSE copy

GenStart ==
  /\ gen = "unstarted" /\ copy = "open"
  /\ gen' = "waiting"
  /\ UNCHANGED <<activeCopy, copyPayloadPending, lines, ended, totals,
                 opNumber, op, aborted, tracked, wire, copy, backend>>

(* Lines are collected until a chunk is full; the marker ends the payload. *)
GenRead ==
  /\ gen = "waiting"
  /\ \/ Line /\ gen' \in {"waiting", "yielded"} /\ UNCHANGED <<activeCopy, copyPayloadPending, copy>>
     \/ Marker /\ gen' = "yielded" /\ copyPayloadPending' = FALSE /\ UNCHANGED <<activeCopy, copy>>
     \/ End /\ GeneratorThrows /\ UNCHANGED copyPayloadPending
     \/ aborted /\ GeneratorThrows /\ UNCHANGED <<copyPayloadPending, lines, ended>>
  /\ UNCHANGED <<totals, opNumber, op, aborted, tracked, wire, backend>>

(* The monitor counts a chunk, and its progress callback may throw; then   *)
(* the pipeline pulls again, or ends the writable.                         *)
Progress ==
  /\ counted' = counted \cup {opNumber} /\ rowsOf' = rowsOf \cup {opNumber}

GenResume ==
  /\ gen = "yielded" /\ copy = "open"
  /\ Progress
  /\ IF copyPayloadPending
       THEN gen' = "waiting" /\ UNCHANGED <<activeCopy, copy>>
       ELSE gen' = "done" /\ activeCopy' = FALSE /\ copy' = "ending"
  /\ UNCHANGED <<copyPayloadPending, lines, ended, opNumber, op, aborted, tracked, wire, backend>>

MonitorThrows ==
  /\ gen = "yielded" /\ copy = "open"
  /\ Progress \/ UNCHANGED totals
  /\ PayloadDestroyed
  /\ copy' = "destroyed"
  /\ UNCHANGED <<copyPayloadPending, lines, ended, opNumber, op, aborted, tracked, wire, backend>>

(* The queued close runs when the read it waits behind has been used.      *)
GenClose ==
  /\ gen = "closing"
  /\ gen' = "done" /\ activeCopy' = FALSE
  /\ \/ Line /\ UNCHANGED copyPayloadPending
     \/ Marker /\ copyPayloadPending' = FALSE
     \/ End /\ UNCHANGED copyPayloadPending
     \/ aborted /\ UNCHANGED <<copyPayloadPending, lines, ended>>
  /\ UNCHANGED <<totals, opNumber, op, aborted, tracked, wire, copy, backend>>

Generator == GenStart \/ GenRead \/ GenResume \/ GenClose

-----------------------------------------------------------------------------
(* openCopyFrom puts the COPY on the wire.                                 *)
OpenCopy ==
  /\ reply = "none" /\ copy = "none"
  /\ IF aborted THEN reply' = "rejected" /\ UNCHANGED copy
                ELSE copy' = "open" /\ UNCHANGED reply
  /\ UNCHANGED <<sent, orphan>>

(* settleFailure.  A signal has already made the loader reject.            *)
Abandoned == copy \in {"abandoned", "late"}

CopyFailed ==
  /\ copy' = "none"
  /\ reply' = IF Abandoned THEN reply ELSE "error"
  /\ tracked' = AfterError(tracked)
  /\ IF copy = "open" THEN PayloadDestroyed ELSE UNCHANGED <<gen, activeCopy>>

(* The server answers after a round trip; the pipeline has started then.   *)
ServerRejectsCopy ==
  /\ copy # "none" /\ orphan = "none" /\ up
  /\ copy = "open" => gen # "unstarted"
  /\ CopyFailed
  /\ tx' = TxAfterError(tx)
  /\ UNCHANGED <<copyPayloadPending, lines, ended, totals, opNumber, op, aborted,
                 sent, orphan, up, entry, savepoint, effects>>

(* CommandComplete.  After an abort it comes too late for the adapter,     *)
(* which settles the operation as a failure all the same.                  *)
ServerCompletesCopy ==
  /\ copy \in {"ending", "late"} /\ orphan = "none" /\ up
  /\ Applied
  /\ copy' = "none"
  /\ IF copy = "late" THEN tracked' = AfterError(tracked) /\ UNCHANGED reply
                      ELSE reply' = "ok" /\ UNCHANGED tracked
  /\ UNCHANGED <<reader, totals, opNumber, op, aborted, sent, orphan>>

(* onSignalAbort: the writable is destroyed, and the loader rejects.       *)
AbandonCopy ==
  /\ copy' = IF copy = "open" THEN "abandoned" ELSE "late"
  /\ reply' = "rejected"
  /\ PayloadDestroyed

CopyUnreachable ==
  /\ copy # "none" /\ ~up
  /\ CopyFailed
  /\ UNCHANGED <<copyPayloadPending, lines, ended, totals, opNumber, op, aborted,
                 sent, orphan, backend>>

Copying == ServerRejectsCopy \/ ServerCompletesCopy \/ CopyUnreachable

CopyType ==
  /\ gen \in Generators
  /\ activeCopy \in BOOLEAN /\ copyPayloadPending \in BOOLEAN /\ ended \in BOOLEAN
  /\ lines \in 0..MaxLines
  /\ counted \subseteq 1..opNumber /\ rowsOf \subseteq 1..opNumber
=============================================================================
