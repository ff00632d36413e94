------------------------ MODULE SqlDumpRestoreProofs ------------------------
(***************************************************************************)
(* Proofs about SqlDumpRestore, for any dump, any number of operations and *)
(* any connection: its safety properties, and that it implements           *)
(* RestoreContract (without the contract's fairness, which TLC checks).    *)
(***************************************************************************)
EXTENDS SqlDumpRestore, SequenceTheorems, TLAPS

(* The restore is being ended; a signal cut its last statement off, so     *)
(* that the server may still be executing it; an operation was taken and   *)
(* is not settled.                                                         *)
Ended  == pc \in {"cleanup", "rollback", "closing", "done"}
Cut    == aborted /\ (reply = "rejected" \/ Ended)
Active == pc \in {"protect", "savepoint", "exec", "copy", "release"}

(* Which await holds the wire, and what a signal leaves on it.             *)
WireInv ==
  /\ sent # "none" =>
       /\ pc \in Asking /\ sent = Text(pc) /\ reply = "none"
       /\ copy \in {"none", "abandoned", "late"}
       /\ aborted => pc \in Unsignalled
  /\ reply # "none" => pc \in Asking \cup {"copy"}
  /\ reply = "rejected" => aborted /\ pc \notin Unsignalled
  /\ copy \in {"open", "ending", "destroyed"} => pc = "copy" /\ reply = "none"
  /\ copy \in {"open", "ending"} => ~aborted
  /\ copy \in {"abandoned", "late"} \/ orphan # "none" => Cut
  /\ orphan \in {"none", "SAVEPOINT", "RELEASE", op}
  /\ outcome \in {"success", "completed-with-errors"} =>
       orphan = "none" /\ copy = "none" /\ pc \in {"closing", "done"}

(* The operation the restore is at, and the savepoint that protects it.    *)
PathInv ==
  /\ IF opNumber = 0 THEN op = "none" ELSE script[opNumber] = op
  /\ Active => opNumber # 0
  /\ pc \in {"acquire", "connecting"} => opNumber = 0
  /\ pc \in {"copy", "discard"} \/ copy # "none" => op = "copy"
  /\ pc = "exec" => op # "copy"
  /\ pc = "savepoint" => Guarded /\ ~usedSavepoint
  /\ usedSavepoint => Guarded
  /\ pc \in {"release", "rollback to", "release after"} => usedSavepoint
  /\ pc \in {"protect", "undo"} => ~usedSavepoint
  /\ pc \in {"discard", "recover", "rollback to", "release after", "undo"} =>
       ~opt.stopOnError /\ opNumber \in failed

(* Where the loop goes on, the payload of every COPY block is behind it.   *)
PayloadInv ==
  /\ gen \in {"unstarted", "waiting", "yielded", "closing"} => activeCopy
  /\ \/ pc \in {"acquire", "connecting", "loop", "reading", "release", "recover", "rollback to",
                "release after", "undo"}
     \/ pc \in {"protect", "savepoint", "exec"} /\ op # "copy"
     \/ pc = "copy" /\ reply = "ok"
     \/ copy = "ending"
     => ~activeCopy /\ ~copyPayloadPending

(* What the adapter's estimate says of the block, statement by statement.  *)
Outside == tracked \in {"idle", "unknown"}
Untracked == Uses("END")
Known ==
  \/ Untracked \/ tracked = "unknown"
  \/ tx = "idle" /\ tracked = "idle"
  \/ tx = "open" /\ tracked = "in-transaction"
Ready   == tx # "failed" /\ tracked # "failed" /\ ~savepoint /\ Known
Covered == tx = "open" /\ tracked = "in-transaction" /\ savepoint
Bare    == tx = "open" /\ tracked = "in-transaction" /\ ~savepoint

Blocks ==
  /\ Outside => tx = "idle" \/ (Cut /\ op = "BEGIN")
  /\ savepoint => tx # "idle"
  /\ inner # {} => savepoint
  /\ pending # {} => tx # "idle"

BeforeOperation ==
  /\ pc \in {"acquire", "connecting", "loop", "reading", "protect"} => Ready
  /\ pc \in {"acquire", "connecting"} => Outside
  /\ pc = "savepoint" =>
       /\ reply = "none" => Ready /\ tracked = "in-transaction"
       /\ reply = "ok" => Covered
       /\ reply = "error" => Untracked

DuringOperation ==
  /\ pc \in {"exec", "copy"} /\ reply \in {"none", "ok"} =>
       IF usedSavepoint THEN Covered ELSE Ready
  /\ pc \in {"exec", "copy"} /\ reply = "error" =>
       IF usedSavepoint THEN savepoint ELSE ~savepoint
  /\ pc \in {"exec", "copy", "discard", "recover", "undo"} /\ Guarded /\ ~usedSavepoint
       /\ reply # "rejected" => Outside
  /\ pc = "release" =>
       /\ reply = "none" => Covered
       /\ reply = "ok" => Bare
       /\ reply # "error"

Recovery ==
  /\ pc \in {"discard", "recover"} \/ (pc \in {"rollback to", "undo"} /\ reply = "none") =>
       IF usedSavepoint THEN savepoint \/ late # {} ELSE ~savepoint
  /\ pc = "rollback to" /\ reply # "none" =>
       IF reply = "ok" THEN Covered ELSE late # {}
  /\ pc = "release after" =>
       /\ reply = "none" => Covered
       /\ reply = "ok" => Bare
       /\ reply # "error"
  /\ pc = "undo" /\ reply # "none" =>
       reply = "ok" /\ tx = "idle" /\ tracked = "idle" /\ ~savepoint
  /\ pc = "rollback" /\ reply # "none" => reply = "ok" /\ tracked = "idle"
  /\ pc \in {"closing", "done"} /\ ~Resolved /\ opt.rollbackOnError => Outside

(* All of it for a caller's connection that came outside a transaction,    *)
(* as long as it lives.                                                    *)
Alone == up /\ entry = "idle"

SessionInv == Alone => Blocks /\ BeforeOperation /\ DuringOperation /\ Recovery

(* What each cause of an early end says.                                   *)
CauseInv ==
  /\ pc \in {"closing", "done"} <=> outcome # "running"
  /\ pc \in {"cleanup", "rollback"} \/ outcome = "failed" => cause # "none"
  /\ cause = "cancelled" => aborted /\ outcome # "failed"
  /\ cause = "operation" => opt.stopOnError
  /\ cause # "pending"
  /\ Alone /\ cause = "savepoint" => Untracked
  /\ Alone /\ cause = "recover" =>
       \/ Untracked \/ late # {}
       \/ tracked = "unknown" /\ pc \in {"cleanup", "closing", "done"} /\ sent = "none"

(* The operations that are settled, and the counters.                      *)
Settling ==
  /\ completed \cup failed \subseteq 1..opNumber /\ late \subseteq 1..opNumber
  /\ Active \/ orphan # "none" \/ copy # "none" => opNumber \notin failed
  /\ Active => completed \cup failed = 1..(opNumber - 1)
  /\ ~Active /\ (~Ended \/ Resolved) => completed \cup failed = 1..opNumber
  /\ ~Ended \/ Resolved => (opt.stopOnError => failed = {})
  /\ Resolved => outcome = Status

(* rowsRestored is that of the operations restored so far, but for the     *)
(* COPY or the savepoint the restore is in.                                *)
Restored == DataIn(completed \ failed)

Counting ==
  /\ ~aborted =>
       /\ pc = "copy" => rowsOf \ {opNumber} = Restored
       /\ pc = "release" => rowsOf = Restored \cup {opNumber}
       /\ pc \notin {"copy", "release"} => rowsOf = Restored
  /\ \A n \in completed : script[n] = "copy" => n \in counted
  /\ copy = "ending" \/ (pc = "copy" /\ reply = "ok") \/ (pc = "release" /\ op = "copy") =>
       opNumber \in counted

ReportInv == Settling /\ Counting

(* Where the effect of each operation is.                                  *)
Effects == inner \cup pending \cup kept

ControlFailed == \E n \in failed : script[n] \in Control

(* ... of the current operation,                                           *)
Placed ==
  /\ inner \subseteq {opNumber}
  /\ \/ pc \in {"protect", "savepoint"} /\ reply # "rejected"
     \/ pc \in {"exec", "copy"} /\ reply \in {"none", "error"}
     => opNumber \notin Effects
  /\ pc \in {"exec", "copy"} /\ reply = "ok" /\ op \notin Control => opNumber \in Effects
  /\ pc = "release" /\ reply \in {"none", "ok"} => opNumber \in Effects

(* ... of those that failed,                                               *)
FailedGone == (failed \ late) \cap Effects = {}

(* ... and of those reported as completed.                                 *)
Reported == DataIn(completed)

ReportedKept ==
  (~Ended /\ reply # "rejected") \/ Resolved =>
    \/ ControlFailed
    \/ pc = "exec" /\ reply = "error" /\ op \in Control
    \/ Reported \subseteq kept \cup pending

EffectsInv == Alone => Placed /\ FailedGone /\ ReportedKept

(* The inductive invariant.                                                *)
Inv ==
  /\ TypeOK /\ WireInv /\ PathInv /\ PayloadInv /\ SessionInv /\ CauseInv /\ ReportInv
  /\ EffectsInv

-----------------------------------------------------------------------------
(* Reading an operation appends its kind to the script: the kinds before   *)
(* it stay as they are.                                                    *)
LEMMA Appended ==
  ASSUME NEW n \in Nat, NEW K, NEW s \in [1..n -> K], NEW e \in K
  PROVE  /\ Append(s, e) \in [1..(n + 1) -> K]
         /\ Append(s, e)[n + 1] = e
         /\ \A i \in 1..n : Append(s, e)[i] = s[i]
<1>1. s \in Seq(K) /\ Len(s) = n
  OBVIOUS
<1> DEFINE t == Append(s, e)
<1>2. /\ t \in Seq(K) /\ Len(t) = n + 1
      /\ \A i \in 1..n : t[i] = s[i]
      /\ t[n + 1] = e
  BY <1>1, AppendProperties
<1>3. t \in [1..(n + 1) -> K]
  BY <1>2, LenProperties
<1>4. QED
  BY <1>2, <1>3

(* Whenever a statement that has an effect of its own is on its way, it is *)
(* that of an operation that was taken.                                    *)
LEMMA Numbered ==
  ASSUME TypeOK, WireInv, PathInv
  PROVE  Active \/ sent = "sql" \/ orphan = "sql" \/ copy # "none" =>
           opNumber \in 1..opNumber /\ opNumber # 0
<1>1. sent = "sql" => pc = "exec"
  BY DEF WireInv, Text, Asking
<1>2. orphan = "sql" => op = "sql"
  BY DEF WireInv
<1>3. opNumber # 0 => opNumber \in 1..opNumber
  BY DEF TypeOK, BackendType
<1>4. QED
  BY <1>1, <1>2, <1>3 DEF PathInv, Active

(* The server, the COPY pipeline, the signal and a lost connection leave   *)
(* the loop of restoreSqlDump and its counters alone.                      *)
LEMMA Elsewhere ==
  ASSUME Backend \/ CopyBlock \/ LoseConnection \/ Abort \/ Terminated
  PROVE  UNCHANGED <<client, opNumber, op>>
  BY DEF Backend, CopyBlock, Generator, Copying, LoseConnection, Abort, Terminated, vars,
      Serve, ServeOrphan, Unreachable, GenStart, GenRead, GenResume, GenClose, MonitorThrows,
      ServerRejectsCopy, ServerCompletesCopy, CopyUnreachable

-----------------------------------------------------------------------------
(* The state of the loop, and its counters.                                *)
PointType ==
  /\ pc \in Points /\ cause \in Causes /\ outcome \in Outcomes
  /\ opt \in [stopOnError : BOOLEAN, rollbackOnError : BOOLEAN]
  /\ usedSavepoint \in BOOLEAN

CountType ==
  /\ completed \subseteq 1..opNumber /\ failed \subseteq 1..opNumber
  /\ late \subseteq 1..opNumber
  /\ opNumber <= MaxOps /\ script \in [1..opNumber -> Kinds]

(* The point of the loop, the causes, the options and the outcome stay     *)
(* well typed.                                                             *)
LEMMA PointTypeNext ==
  ASSUME TypeOK, WireInv, PathInv, Next PROVE PointType'
<1> USE DEF TypeOK, ClientType, PointType, Points, Asking, Causes, Outcomes
<1>1. ASSUME Acquire PROVE PointType'
  BY <1>1 DEF Acquire, Goto, wire, backend, effects, reader, totals, client
<1>2. ASSUME Connect PROVE PointType'
  BY <1>2 DEF Connect, Goto, Throw, wire, backend, effects, reader, totals, client
<1>3. ASSUME Loop PROVE PointType'
  BY <1>3 DEF Loop, Goto, Throw, wire, backend, effects, reader, totals, client
<1>4. ASSUME ReadOperation PROVE PointType'
  BY <1>4 DEF ReadOperation, CountOperation, NewPayload, Goto, wire, backend, effects, reader,
      totals, client
<1>5. ASSUME ReadEnd PROVE PointType'
  BY <1>5 DEF ReadEnd, Goto, Throw, Status, wire, backend, effects, reader, totals, client
<1>6. ASSUME ReadFails PROVE PointType'
  BY <1>6 DEF ReadFails, Throw, wire, backend, effects, reader, totals, client
<1>7. ASSUME Protect PROVE PointType'
  BY <1>7 DEF Protect, Guarded, StartOperation, OperationFails, RowsWithoutCurrent, Throw,
      Goto, wire, backend, effects, reader, totals, client
<1>8. ASSUME Ask PROVE PointType'
  <2>1. UNCHANGED <<pc, cause, outcome, opt, usedSavepoint>>
    BY <1>8 DEF Ask, client
  <2> HIDE DEF Points, Asking, Causes, Outcomes
  <2>2. QED
    BY <2>1
<1>9. ASSUME AskCopy PROVE PointType'
  BY <1>9 DEF AskCopy, OpenCopy, wire, backend, effects, reader, totals, client
<1>10. ASSUME Savepoint PROVE PointType'
  BY <1>10 DEF Savepoint, Settled, StartOperation, OperationFails, RowsWithoutCurrent, Throw,
      Goto, wire, backend, effects, reader, totals, client
<1>11. ASSUME Exec PROVE PointType'
  BY <1>11 DEF Exec, Settled, AfterOperation, OperationCompletes, OperationFails,
      RowsWithoutCurrent, Throw, Goto, wire, backend, effects, reader, totals, client
<1>12. ASSUME Copied PROVE PointType'
  BY <1>12 DEF Copied, Settled, AfterOperation, OperationCompletes, OperationFails,
      RowsWithoutCurrent, Throw, Goto, wire, backend, effects, reader, totals, client
<1>13. ASSUME Release PROVE PointType'
  BY <1>13 DEF Release, Settled, OperationCompletes, OperationFails, RowsWithoutCurrent,
      Throw, Goto, wire, backend, effects, reader, totals, client
<1>14. ASSUME Discard PROVE PointType'
  <2>1. /\ pc' \in {"discard", "recover", "cleanup"}
        /\ cause' \in {cause, "payload", "truncated", "cancelled"}
        /\ UNCHANGED <<outcome, opt, usedSavepoint>>
    BY <1>14 DEF Discard, Throw, Goto
  <2>2. pc' \in Points /\ cause' \in Causes
    BY <2>1
  <2> HIDE DEF Points, Asking, Causes, Outcomes
  <2>3. QED
    BY <2>1, <2>2
<1>15. ASSUME Recover PROVE PointType'
  BY <1>15 DEF Recover, Throw, Goto, wire, backend, effects, reader, totals, client
<1>16. ASSUME RollbackTo PROVE PointType'
  BY <1>16 DEF RollbackTo, Recovering, Settled, Goto, Throw, wire, backend, effects, reader,
      totals, client
<1>17. ASSUME ReleaseAfter PROVE PointType'
  BY <1>17 DEF ReleaseAfter, Recovering, Settled, Goto, Throw, wire, backend, effects, reader,
      totals, client
<1>18. ASSUME Undo PROVE PointType'
  BY <1>18 DEF Undo, Recovering, Settled, Goto, Throw, wire, backend, effects, reader, totals,
      client
<1>19. ASSUME Cleanup PROVE PointType'
  BY <1>19 DEF Cleanup, MustRollBack, Goto, Finish, wire, backend, effects, reader, totals,
      client
<1>20. ASSUME Rollback PROVE PointType'
  BY <1>20 DEF Rollback, Finish, wire, backend, effects, reader, totals, client
<1>21. ASSUME Close PROVE PointType'
  BY <1>21 DEF Close, Reading, Goto, wire, backend, effects, reader, totals, client
<1>22. ASSUME Backend \/ CopyBlock \/ LoseConnection \/ Abort \/ Terminated PROVE PointType'
  <2>1. UNCHANGED <<pc, cause, outcome, opt, usedSavepoint>>
    BY <1>22, Elsewhere DEF client
  <2> HIDE DEF Points, Asking, Causes, Outcomes
  <2>2. QED
    BY <2>1
<1>23. QED
  BY <1>1, <1>2, <1>3, <1>4, <1>5, <1>6, <1>7, <1>8, <1>9, <1>10, <1>11, <1>12, <1>13, <1>14,
     <1>15, <1>16, <1>17, <1>18, <1>19, <1>20, <1>21, <1>22 DEF Next, Client

(* operationsCompleted and operationsFailed count operations that were     *)
(* read, of the bounded dump.                                              *)
LEMMA CountTypeNext ==
  ASSUME TypeOK, WireInv, PathInv, Next PROVE CountType'
<1> USE DEF TypeOK, ClientType, CountType
<1>1. ASSUME Acquire PROVE CountType'
  BY <1>1 DEF Acquire, Goto, wire, backend, effects, reader, totals, client
<1>2. ASSUME Connect PROVE CountType'
  BY <1>2 DEF Connect, Goto, Throw, wire, backend, effects, reader, totals, client
<1>3. ASSUME Loop PROVE CountType'
  BY <1>3 DEF Loop, Goto, Throw, wire, backend, effects, reader, totals, client
<1>4. ASSUME ReadOperation PROVE CountType'
  <2>1. opNumber' = opNumber + 1 /\ script' = Append(script, op') /\ op' \in Kinds
        /\ opNumber < MaxOps /\ UNCHANGED <<completed, failed, late>>
    BY <1>4 DEF ReadOperation, CountOperation
  <2>2. opNumber \in Nat /\ MaxOps \in Nat
    BY MaxOpsAssumption DEF BackendType
  <2>3. 1..opNumber \subseteq 1..opNumber'
    BY <2>1, <2>2
  <2>4. script' \in [1..opNumber' -> Kinds]
    BY <2>1, <2>2, Appended
  <2>5. QED
    BY <2>1, <2>2, <2>3, <2>4
<1>5. ASSUME ReadEnd PROVE CountType'
  BY <1>5 DEF ReadEnd, Goto, Throw, Status, wire, backend, effects, reader, totals, client
<1>6. ASSUME ReadFails PROVE CountType'
  BY <1>6 DEF ReadFails, Throw, wire, backend, effects, reader, totals, client
<1>7. ASSUME Protect PROVE CountType'
  BY <1>7, Numbered DEF Protect, Guarded, StartOperation, OperationFails, RowsWithoutCurrent,
      Throw, Goto, Active, BackendType, wire, backend, effects, reader, totals, client
<1>8. ASSUME Ask PROVE CountType'
  BY <1>8 DEF Ask, Send, wire, backend, effects, reader, totals, client
<1>9. ASSUME AskCopy PROVE CountType'
  BY <1>9 DEF AskCopy, OpenCopy, wire, backend, effects, reader, totals, client
<1>10. ASSUME Savepoint PROVE CountType'
  BY <1>10, Numbered DEF Savepoint, Settled, StartOperation, OperationFails,
      RowsWithoutCurrent, Throw, Goto, Active, BackendType, wire, backend, effects, reader,
      totals, client
<1>11. ASSUME Exec PROVE CountType'
  BY <1>11, Numbered DEF Exec, Settled, AfterOperation, OperationCompletes, OperationFails,
      RowsWithoutCurrent, Throw, Goto, Active, BackendType, wire, backend, effects, reader,
      totals, client
<1>12. ASSUME Copied PROVE CountType'
  BY <1>12, Numbered DEF Copied, Settled, AfterOperation, OperationCompletes, OperationFails,
      RowsWithoutCurrent, Throw, Goto, Active, BackendType, wire, backend, effects, reader,
      totals, client
<1>13. ASSUME Release PROVE CountType'
  BY <1>13, Numbered DEF Release, Settled, OperationCompletes, OperationFails,
      RowsWithoutCurrent, Throw, Goto, Active, BackendType, wire, backend, effects, reader,
      totals, client
<1>14. ASSUME Discard PROVE CountType'
  BY <1>14 DEF Discard, PayloadLeft, Line, Marker, End, Throw, Goto, wire, backend, effects,
      reader, totals, client
<1>15. ASSUME Recover PROVE CountType'
  BY <1>15 DEF Recover, Throw, Goto, wire, backend, effects, reader, totals, client
<1>16. ASSUME RollbackTo PROVE CountType'
  BY <1>16 DEF RollbackTo, Recovering, Settled, Goto, Throw, wire, backend, effects, reader,
      totals, client
<1>17. ASSUME ReleaseAfter PROVE CountType'
  BY <1>17 DEF ReleaseAfter, Recovering, Settled, Goto, Throw, wire, backend, effects, reader,
      totals, client
<1>18. ASSUME Undo PROVE CountType'
  BY <1>18 DEF Undo, Recovering, Settled, Goto, Throw, wire, backend, effects, reader, totals,
      client
<1>19. ASSUME Cleanup PROVE CountType'
  BY <1>19 DEF Cleanup, MustRollBack, Goto, Finish, wire, backend, effects, reader, totals,
      client
<1>20. ASSUME Rollback PROVE CountType'
  BY <1>20 DEF Rollback, Finish, wire, backend, effects, reader, totals, client
<1>21. ASSUME Close PROVE CountType'
  BY <1>21 DEF Close, Reading, Goto, wire, backend, effects, reader, totals, client
<1>22. ASSUME Backend \/ CopyBlock \/ LoseConnection \/ Abort \/ Terminated PROVE CountType'
  BY <1>22, Elsewhere DEF client
<1>23. QED
  BY <1>1, <1>2, <1>3, <1>4, <1>5, <1>6, <1>7, <1>8, <1>9, <1>10, <1>11, <1>12, <1>13, <1>14,
     <1>15, <1>16, <1>17, <1>18, <1>19, <1>20, <1>21, <1>22 DEF Next, Client

-----------------------------------------------------------------------------
(* The wire and the block; the payload reader; the effects and totals.     *)
WireType ==
  /\ opNumber \in Nat
  /\ op \in DumpStatements \cup {"none", "copy"}
  /\ aborted \in BOOLEAN /\ up \in BOOLEAN /\ savepoint \in BOOLEAN
  /\ tracked \in TrackedTx /\ tx \in BackendTx /\ entry \in BackendTx
  /\ sent \in Statements \cup {"none"} /\ orphan \in Statements \cup {"none"}
  /\ reply \in {"none", "ok", "error", "rejected"}
  /\ copy \in {"none", "open", "ending", "destroyed", "abandoned", "late"}

ReaderType ==
  /\ gen \in Generators
  /\ activeCopy \in BOOLEAN /\ copyPayloadPending \in BOOLEAN /\ ended \in BOOLEAN
  /\ lines \in 0..MaxLines

EffectType ==
  /\ inner \subseteq 1..opNumber /\ pending \subseteq 1..opNumber
  /\ kept \subseteq 1..opNumber
  /\ counted \subseteq 1..opNumber /\ rowsOf \subseteq 1..opNumber

(* updateTransactionStatus and the catch block of query() stay among the   *)
(* four statuses, an error among the three block states.                   *)
LEMMA StatusTypes ==
  ASSUME TypeOK
  PROVE  /\ \A s : AfterSuccess(tracked, s) \in TrackedTx
         /\ AfterError(tracked) \in TrackedTx
         /\ TxAfterError(tx) \in BackendTx
         /\ "idle" \in BackendTx /\ "open" \in BackendTx
  BY DEF TypeOK, BackendType, AfterSuccess, AfterError, TxAfterError, TrackedTx, BackendTx

(* The wire and the block of the backend stay well typed.                  *)
LEMMA WireTypeNext ==
  ASSUME TypeOK, WireInv, PathInv, Next PROVE WireType'
<1> USE DEF TypeOK, BackendType, WireType
<1>1. ASSUME Acquire PROVE WireType'
  BY <1>1 DEF Acquire, Goto, wire, backend, effects, reader, totals, client
<1>2. ASSUME Connect PROVE WireType'
  BY <1>2 DEF Connect, Goto, Throw, wire, backend, effects, reader, totals, client
<1>3. ASSUME Loop PROVE WireType'
  BY <1>3 DEF Loop, Goto, Throw, wire, backend, effects, reader, totals, client
<1>4. ASSUME ReadOperation PROVE WireType'
  <2>1. op' \in Kinds /\ opNumber' = opNumber + 1
    BY <1>4 DEF ReadOperation, CountOperation
  <2>2. UNCHANGED <<aborted, up, savepoint, tracked, tx, entry, sent, orphan, reply, copy>>
    BY <1>4 DEF ReadOperation, wire, backend
  <2>3. QED
    BY <2>1, <2>2, KindsAssumption
<1>5. ASSUME ReadEnd PROVE WireType'
  BY <1>5 DEF ReadEnd, Goto, Throw, Status, wire, backend, effects, reader, totals, client
<1>6. ASSUME ReadFails PROVE WireType'
  BY <1>6 DEF ReadFails, Throw, wire, backend, effects, reader, totals, client
<1>7. ASSUME Protect PROVE WireType'
  BY <1>7 DEF Protect, Guarded, StartOperation, OperationFails, RowsWithoutCurrent, Throw,
      Goto, wire, backend, effects, reader, totals, client
<1>8. ASSUME Ask PROVE WireType'
  <2>1. sent' \in {sent, Text(pc)} /\ reply' \in {reply, "rejected"}
        /\ UNCHANGED <<opNumber, op, aborted, up, savepoint, tracked, tx, entry, orphan, copy>>
    BY <1>8 DEF Ask, Send, backend
  <2>2. pc = "exec" => op \in DumpStatements
    <3>1. pc = "exec" => opNumber \in 1..opNumber /\ opNumber # 0
      BY Numbered DEF Active
    <3>2. pc = "exec" => op \in Kinds /\ op # "copy"
      BY <3>1 DEF PathInv, ClientType
    <3>3. QED
      BY <3>2, KindsAssumption
  <2>3. Text(pc) \in Statements
    BY <1>8, <2>2 DEF Ask, Text, Asking, Statements
  <2>4. QED
    BY <2>1, <2>3
<1>9. ASSUME AskCopy PROVE WireType'
  BY <1>9 DEF AskCopy, OpenCopy, wire, backend, effects, reader, totals, client
<1>10. ASSUME Savepoint PROVE WireType'
  BY <1>10 DEF Savepoint, Settled, StartOperation, OperationFails, RowsWithoutCurrent, Throw,
      Goto, wire, backend, effects, reader, totals, client
<1>11. ASSUME Exec PROVE WireType'
  BY <1>11 DEF Exec, Settled, AfterOperation, OperationCompletes, OperationFails,
      RowsWithoutCurrent, Throw, Goto, wire, backend, effects, reader, totals, client
<1>12. ASSUME Copied PROVE WireType'
  BY <1>12 DEF Copied, Settled, AfterOperation, OperationCompletes, OperationFails,
      RowsWithoutCurrent, Throw, Goto, wire, backend, effects, reader, totals, client
<1>13. ASSUME Release PROVE WireType'
  BY <1>13 DEF Release, Settled, OperationCompletes, OperationFails, RowsWithoutCurrent,
      Throw, Goto, wire, backend, effects, reader, totals, client
<1>14. ASSUME Discard PROVE WireType'
  BY <1>14 DEF Discard, wire, backend
<1>15. ASSUME Recover PROVE WireType'
  BY <1>15 DEF Recover, wire, backend
<1>16. ASSUME RollbackTo PROVE WireType'
  BY <1>16 DEF RollbackTo, Recovering, Settled, Goto, Throw, wire, backend, effects, reader,
      totals, client
<1>17. ASSUME ReleaseAfter PROVE WireType'
  BY <1>17 DEF ReleaseAfter, Recovering, Settled, Goto, Throw, wire, backend, effects, reader,
      totals, client
<1>18. ASSUME Undo PROVE WireType'
  BY <1>18 DEF Undo, Recovering, Settled, Goto, Throw, wire, backend, effects, reader, totals,
      client
<1>19. ASSUME Cleanup PROVE WireType'
  BY <1>19 DEF Cleanup, MustRollBack, Goto, Finish, wire, backend, effects, reader, totals,
      client
<1>20. ASSUME Rollback PROVE WireType'
  BY <1>20 DEF Rollback, Finish, wire, backend, effects, reader, totals, client
<1>21. ASSUME Close PROVE WireType'
  BY <1>21 DEF Close, Reading, Goto, wire, backend, effects, reader, totals, client
<1>22. ASSUME Serve, UNCHANGED <<client, reader, totals>> PROVE WireType'
  BY <1>22, StatusTypes DEF Serve, Executes, Fails, Failure, Applied, EndBlock, SetSavepoint,
      ReleaseSavepoint, RollbackToSavepoint, Ending, client, reader, totals, backend, effects
<1>23. ASSUME ServeOrphan, UNCHANGED <<client, reader, totals>> PROVE WireType'
  <2>1. /\ orphan' = "none" /\ up' = up /\ entry' = entry
        /\ UNCHANGED <<opNumber, op, aborted, tracked, sent, reply, copy>>
        /\ tx' \in {tx, "open", "idle", TxAfterError(tx)} /\ savepoint' \in {savepoint, TRUE, FALSE}
    BY <1>23 DEF ServeOrphan, Executes, Failure, Applied, EndBlock, SetSavepoint,
        ReleaseSavepoint, RollbackToSavepoint
  <2>2. tx' \in BackendTx /\ savepoint' \in BOOLEAN
    BY <2>1, StatusTypes
  <2>3. QED
    BY <2>1, <2>2
<1>24. ASSUME Unreachable, UNCHANGED <<client, reader, totals>> PROVE WireType'
  BY <1>24, StatusTypes DEF Unreachable, client, reader, totals, backend, effects
<1>25. ASSUME GenStart, UNCHANGED client PROVE WireType'
  BY <1>25 DEF GenStart, client, wire, backend, effects, totals, reader
<1>26. ASSUME GenRead, UNCHANGED client PROVE WireType'
  BY <1>26 DEF GenRead, Line, Marker, End, GeneratorThrows, client, wire, backend, effects,
      totals, reader
<1>27. ASSUME GenResume, UNCHANGED client PROVE WireType'
  BY <1>27 DEF GenResume, Progress, client, wire, backend, effects, totals, reader
<1>28. ASSUME GenClose, UNCHANGED client PROVE WireType'
  BY <1>28 DEF GenClose, Line, Marker, End, client, wire, backend, effects, totals, reader
<1>29. ASSUME MonitorThrows, UNCHANGED client PROVE WireType'
  BY <1>29 DEF MonitorThrows, Progress, PayloadDestroyed, client, wire, backend, effects,
      totals, reader
<1>30. ASSUME ServerRejectsCopy, UNCHANGED client PROVE WireType'
  BY <1>30, StatusTypes DEF ServerRejectsCopy, CopyFailed, Abandoned, PayloadDestroyed,
      client, wire, backend, effects, totals, reader
<1>31. ASSUME ServerCompletesCopy, UNCHANGED client PROVE WireType'
  BY <1>31, StatusTypes DEF ServerCompletesCopy, Applied, client, wire, backend, effects,
      totals, reader
<1>32. ASSUME CopyUnreachable, UNCHANGED client PROVE WireType'
  BY <1>32, StatusTypes DEF CopyUnreachable, CopyFailed, Abandoned, PayloadDestroyed, client,
      wire, backend, effects, totals, reader
<1>33. ASSUME LoseConnection PROVE WireType'
  BY <1>33, StatusTypes DEF LoseConnection, wire, backend, effects, reader, totals, client
<1>34. ASSUME Abort PROVE WireType'
  BY <1>34 DEF Abort, AbandonCopy, PayloadDestroyed, Unsignalled, wire, backend, effects,
      reader, totals, client
<1>35. ASSUME Terminated PROVE WireType'
  BY <1>35 DEF Terminated, vars, client, wire, backend, effects, totals, reader
<1>36. QED
  BY <1>1, <1>2, <1>3, <1>4, <1>5, <1>6, <1>7, <1>8, <1>9, <1>10, <1>11, <1>12, <1>13, <1>14,
     <1>15, <1>16, <1>17, <1>18, <1>19, <1>20, <1>21, <1>22, <1>23, <1>24, <1>25, <1>26,
     <1>27, <1>28, <1>29, <1>30, <1>31, <1>32, <1>33, <1>34, <1>35 DEF Next, Client, Backend,
      CopyBlock, Generator, Copying

(* The COPY payload reader stays well typed.                               *)
LEMMA ReaderTypeNext ==
  ASSUME TypeOK, WireInv, PathInv, Next PROVE ReaderType'
<1> USE DEF TypeOK, CopyType, ReaderType, Generators
<1>1. ASSUME Acquire PROVE ReaderType'
  BY <1>1 DEF Acquire, Goto, wire, backend, effects, reader, totals, client
<1>2. ASSUME Connect PROVE ReaderType'
  BY <1>2 DEF Connect, Goto, Throw, wire, backend, effects, reader, totals, client
<1>3. ASSUME Loop PROVE ReaderType'
  BY <1>3 DEF Loop, Goto, Throw, wire, backend, effects, reader, totals, client
<1>4. ASSUME ReadOperation PROVE ReaderType'
  <2>1. lines' \in 0..MaxLines
    BY <1>4, MaxLinesAssumption DEF ReadOperation, NewPayload
  <2>2. QED
    BY <1>4, <2>1 DEF ReadOperation, NewPayload
<1>5. ASSUME ReadEnd PROVE ReaderType'
  BY <1>5 DEF ReadEnd, Goto, Throw, Status, wire, backend, effects, reader, totals, client
<1>6. ASSUME ReadFails PROVE ReaderType'
  BY <1>6 DEF ReadFails, Throw, wire, backend, effects, reader, totals, client
<1>7. ASSUME Protect PROVE ReaderType'
  BY <1>7 DEF Protect, Guarded, StartOperation, OperationFails, RowsWithoutCurrent, Throw,
      Goto, wire, backend, effects, reader, totals, client
<1>8. ASSUME Ask PROVE ReaderType'
  BY <1>8 DEF Ask, Send, wire, backend, effects, reader, totals, client
<1>9. ASSUME AskCopy PROVE ReaderType'
  BY <1>9 DEF AskCopy, OpenCopy, wire, backend, effects, reader, totals, client
<1>10. ASSUME Savepoint PROVE ReaderType'
  BY <1>10 DEF Savepoint, Settled, StartOperation, OperationFails, RowsWithoutCurrent, Throw,
      Goto, wire, backend, effects, reader, totals, client
<1>11. ASSUME Exec PROVE ReaderType'
  BY <1>11 DEF Exec, Settled, AfterOperation, OperationCompletes, OperationFails,
      RowsWithoutCurrent, Throw, Goto, wire, backend, effects, reader, totals, client
<1>12. ASSUME Copied PROVE ReaderType'
  BY <1>12 DEF Copied, Settled, AfterOperation, OperationCompletes, OperationFails,
      RowsWithoutCurrent, Throw, Goto, wire, backend, effects, reader, totals, client
<1>13. ASSUME Release PROVE ReaderType'
  BY <1>13 DEF Release, Settled, OperationCompletes, OperationFails, RowsWithoutCurrent,
      Throw, Goto, wire, backend, effects, reader, totals, client
<1>14. ASSUME Discard PROVE ReaderType'
  <2>1. lines' \in 0..MaxLines
    BY <1>14, MaxLinesAssumption DEF Discard, PayloadLeft, Line, Marker, End
  <2>2. QED
    BY <1>14, <2>1 DEF Discard, PayloadLeft, Line, Marker, End
<1>15. ASSUME Recover PROVE ReaderType'
  BY <1>15 DEF Recover, Throw, Goto, wire, backend, effects, reader, totals, client
<1>16. ASSUME RollbackTo PROVE ReaderType'
  BY <1>16 DEF RollbackTo, Recovering, Settled, Goto, Throw, wire, backend, effects, reader,
      totals, client
<1>17. ASSUME ReleaseAfter PROVE ReaderType'
  BY <1>17 DEF ReleaseAfter, Recovering, Settled, Goto, Throw, wire, backend, effects, reader,
      totals, client
<1>18. ASSUME Undo PROVE ReaderType'
  BY <1>18 DEF Undo, Recovering, Settled, Goto, Throw, wire, backend, effects, reader, totals,
      client
<1>19. ASSUME Cleanup PROVE ReaderType'
  BY <1>19 DEF Cleanup, MustRollBack, Goto, Finish, wire, backend, effects, reader, totals,
      client
<1>20. ASSUME Rollback PROVE ReaderType'
  BY <1>20 DEF Rollback, Finish, wire, backend, effects, reader, totals, client
<1>21. ASSUME Close PROVE ReaderType'
  BY <1>21 DEF Close, Reading, Goto, wire, backend, effects, reader, totals, client
<1>22. ASSUME Serve, UNCHANGED <<client, reader, totals>> PROVE ReaderType'
  BY <1>22 DEF Serve, Executes, Fails, Failure, Applied, EndBlock, SetSavepoint,
      ReleaseSavepoint, RollbackToSavepoint, AfterSuccess, AfterError, TxAfterError, Ending,
      client, reader, totals, backend, effects
<1>23. ASSUME ServeOrphan, UNCHANGED <<client, reader, totals>> PROVE ReaderType'
  BY <1>23 DEF ServeOrphan, Executes, Failure, Applied, EndBlock, SetSavepoint,
      ReleaseSavepoint, RollbackToSavepoint, TxAfterError, Ending, client, reader, totals,
      backend, effects
<1>24. ASSUME Unreachable, UNCHANGED <<client, reader, totals>> PROVE ReaderType'
  BY <1>24 DEF Unreachable, AfterError, client, reader, totals, backend, effects
<1>25. ASSUME GenStart, UNCHANGED client PROVE ReaderType'
  BY <1>25 DEF GenStart, client, wire, backend, effects, totals, reader
<1>26. ASSUME GenRead, UNCHANGED client PROVE ReaderType'
  <2>1. lines' \in 0..MaxLines
    BY <1>26, MaxLinesAssumption DEF GenRead, Line, Marker, End, GeneratorThrows
  <2>2. QED
    BY <1>26, <2>1 DEF GenRead, Line, Marker, End, GeneratorThrows
<1>27. ASSUME GenResume, UNCHANGED client PROVE ReaderType'
  BY <1>27 DEF GenResume, Progress, client, wire, backend, effects, totals, reader
<1>28. ASSUME GenClose, UNCHANGED client PROVE ReaderType'
  <2>1. lines' \in 0..MaxLines
    BY <1>28, MaxLinesAssumption DEF GenClose, Line, Marker, End
  <2>2. QED
    BY <1>28, <2>1 DEF GenClose, Line, Marker, End
<1>29. ASSUME MonitorThrows, UNCHANGED client PROVE ReaderType'
  BY <1>29 DEF MonitorThrows, Progress, PayloadDestroyed, client, wire, backend, effects,
      totals, reader
<1>30. ASSUME ServerRejectsCopy, UNCHANGED client PROVE ReaderType'
  BY <1>30 DEF ServerRejectsCopy, CopyFailed, Abandoned, PayloadDestroyed, AfterError,
      TxAfterError, client, wire, backend, effects, totals, reader
<1>31. ASSUME ServerCompletesCopy, UNCHANGED client PROVE ReaderType'
  BY <1>31 DEF ServerCompletesCopy, Applied, AfterError, client, wire, backend, effects,
      totals, reader
<1>32. ASSUME CopyUnreachable, UNCHANGED client PROVE ReaderType'
  BY <1>32 DEF CopyUnreachable, CopyFailed, Abandoned, PayloadDestroyed, AfterError, client,
      wire, backend, effects, totals, reader
<1>33. ASSUME LoseConnection PROVE ReaderType'
  BY <1>33 DEF LoseConnection, wire, backend, effects, reader, totals, client
<1>34. ASSUME Abort PROVE ReaderType'
  BY <1>34 DEF Abort, AbandonCopy, PayloadDestroyed, Unsignalled, wire, backend, effects,
      reader, totals, client
<1>35. ASSUME Terminated PROVE ReaderType'
  BY <1>35 DEF Terminated, vars, client, wire, backend, effects, totals, reader
<1>36. QED
  BY <1>1, <1>2, <1>3, <1>4, <1>5, <1>6, <1>7, <1>8, <1>9, <1>10, <1>11, <1>12, <1>13, <1>14,
     <1>15, <1>16, <1>17, <1>18, <1>19, <1>20, <1>21, <1>22, <1>23, <1>24, <1>25, <1>26,
     <1>27, <1>28, <1>29, <1>30, <1>31, <1>32, <1>33, <1>34, <1>35 DEF Next, Client, Backend,
      CopyBlock, Generator, Copying

(* Effects, rows and bytes belong to operations that were read.            *)
LEMMA EffectTypeNext ==
  ASSUME TypeOK, WireInv, PathInv, Next PROVE EffectType'
<1> USE DEF TypeOK, BackendType, CopyType, EffectType
<1>1. ASSUME Acquire PROVE EffectType'
  BY <1>1 DEF Acquire, Goto, wire, backend, effects, reader, totals, client
<1>2. ASSUME Connect PROVE EffectType'
  BY <1>2 DEF Connect, Goto, Throw, wire, backend, effects, reader, totals, client
<1>3. ASSUME Loop PROVE EffectType'
  BY <1>3 DEF Loop, Goto, Throw, wire, backend, effects, reader, totals, client
<1>4. ASSUME ReadOperation PROVE EffectType'
  <2>1. opNumber' = opNumber + 1 /\ UNCHANGED <<inner, pending, kept, counted, rowsOf>>
    BY <1>4 DEF ReadOperation, CountOperation, backend, effects, totals
  <2>2. opNumber \in Nat
    OBVIOUS
  <2>3. 1..opNumber \subseteq 1..opNumber'
    BY <2>1, <2>2
  <2>4. QED
    BY <2>1, <2>3
<1>5. ASSUME ReadEnd PROVE EffectType'
  BY <1>5 DEF ReadEnd, Goto, Throw, Status, wire, backend, effects, reader, totals, client
<1>6. ASSUME ReadFails PROVE EffectType'
  BY <1>6 DEF ReadFails, Throw, wire, backend, effects, reader, totals, client
<1>7. ASSUME Protect PROVE EffectType'
  BY <1>7 DEF Protect, Guarded, StartOperation, OperationFails, RowsWithoutCurrent, Throw,
      Goto, wire, backend, effects, reader, totals, client
<1>8. ASSUME Ask PROVE EffectType'
  BY <1>8 DEF Ask, Send, wire, backend, effects, reader, totals, client
<1>9. ASSUME AskCopy PROVE EffectType'
  BY <1>9 DEF AskCopy, OpenCopy, wire, backend, effects, reader, totals, client
<1>10. ASSUME Savepoint PROVE EffectType'
  BY <1>10 DEF Savepoint, Settled, StartOperation, OperationFails, RowsWithoutCurrent, Throw,
      Goto, wire, backend, effects, reader, totals, client
<1>11. ASSUME Exec PROVE EffectType'
  BY <1>11, Numbered DEF Exec, Settled, AfterOperation, OperationCompletes, OperationFails,
      RowsWithoutCurrent, Throw, Goto, Active, wire, backend, effects, reader, totals, client
<1>12. ASSUME Copied PROVE EffectType'
  BY <1>12, Numbered DEF Copied, Settled, AfterOperation, OperationCompletes, OperationFails,
      RowsWithoutCurrent, Throw, Goto, Active, wire, backend, effects, reader, totals, client
<1>13. ASSUME Release PROVE EffectType'
  BY <1>13 DEF Release, Settled, OperationCompletes, OperationFails, RowsWithoutCurrent,
      Throw, Goto, wire, backend, effects, reader, totals, client
<1>14. ASSUME Discard PROVE EffectType'
  BY <1>14 DEF Discard, PayloadLeft, Line, Marker, End, Throw, Goto, wire, backend, effects,
      reader, totals, client
<1>15. ASSUME Recover PROVE EffectType'
  BY <1>15 DEF Recover, Throw, Goto, wire, backend, effects, reader, totals, client
<1>16. ASSUME RollbackTo PROVE EffectType'
  BY <1>16 DEF RollbackTo, Recovering, Settled, Goto, Throw, wire, backend, effects, reader,
      totals, client
<1>17. ASSUME ReleaseAfter PROVE EffectType'
  BY <1>17 DEF ReleaseAfter, Recovering, Settled, Goto, Throw, wire, backend, effects, reader,
      totals, client
<1>18. ASSUME Undo PROVE EffectType'
  BY <1>18 DEF Undo, Recovering, Settled, Goto, Throw, wire, backend, effects, reader, totals,
      client
<1>19. ASSUME Cleanup PROVE EffectType'
  BY <1>19 DEF Cleanup, MustRollBack, Goto, Finish, wire, backend, effects, reader, totals,
      client
<1>20. ASSUME Rollback PROVE EffectType'
  BY <1>20 DEF Rollback, Finish, wire, backend, effects, reader, totals, client
<1>21. ASSUME Close PROVE EffectType'
  BY <1>21 DEF Close, Reading, Goto, wire, backend, effects, reader, totals, client
<1>22. ASSUME Serve, UNCHANGED <<client, reader, totals>> PROVE EffectType'
  BY <1>22, Numbered DEF Serve, Executes, Fails, Failure, Applied, EndBlock, SetSavepoint,
      ReleaseSavepoint, RollbackToSavepoint, AfterSuccess, AfterError, TxAfterError, Ending,
      client, reader, totals, backend, effects
<1>23. ASSUME ServeOrphan, UNCHANGED <<client, reader, totals>> PROVE EffectType'
  BY <1>23, Numbered DEF ServeOrphan, Executes, Failure, Applied, EndBlock, SetSavepoint,
      ReleaseSavepoint, RollbackToSavepoint, TxAfterError, Ending, client, reader, totals,
      backend, effects
<1>24. ASSUME Unreachable, UNCHANGED <<client, reader, totals>> PROVE EffectType'
  BY <1>24 DEF Unreachable, AfterError, client, reader, totals, backend, effects
<1>25. ASSUME GenStart, UNCHANGED client PROVE EffectType'
  BY <1>25 DEF GenStart, client, wire, backend, effects, totals, reader
<1>26. ASSUME GenRead, UNCHANGED client PROVE EffectType'
  BY <1>26 DEF GenRead, Line, Marker, End, GeneratorThrows, client, wire, backend, effects,
      totals, reader
<1>27. ASSUME GenResume, UNCHANGED client PROVE EffectType'
  BY <1>27, Numbered DEF GenResume, Progress, client, wire, backend, effects, totals, reader
<1>28. ASSUME GenClose, UNCHANGED client PROVE EffectType'
  BY <1>28 DEF GenClose, Line, Marker, End, client, wire, backend, effects, totals, reader
<1>29. ASSUME MonitorThrows, UNCHANGED client PROVE EffectType'
  BY <1>29, Numbered DEF MonitorThrows, Progress, PayloadDestroyed, client, wire, backend,
      effects, totals, reader
<1>30. ASSUME ServerRejectsCopy, UNCHANGED client PROVE EffectType'
  BY <1>30 DEF ServerRejectsCopy, CopyFailed, Abandoned, PayloadDestroyed, AfterError,
      TxAfterError, client, wire, backend, effects, totals, reader
<1>31. ASSUME ServerCompletesCopy, UNCHANGED client PROVE EffectType'
  BY <1>31, Numbered DEF ServerCompletesCopy, Applied, AfterError, client, wire, backend,
      effects, totals, reader
<1>32. ASSUME CopyUnreachable, UNCHANGED client PROVE EffectType'
  BY <1>32 DEF CopyUnreachable, CopyFailed, Abandoned, PayloadDestroyed, AfterError, client,
      wire, backend, effects, totals, reader
<1>33. ASSUME LoseConnection PROVE EffectType'
  BY <1>33 DEF LoseConnection, wire, backend, effects, reader, totals, client
<1>34. ASSUME Abort PROVE EffectType'
  BY <1>34 DEF Abort, AbandonCopy, PayloadDestroyed, Unsignalled, wire, backend, effects,
      reader, totals, client
<1>35. ASSUME Terminated PROVE EffectType'
  BY <1>35 DEF Terminated, vars, client, wire, backend, effects, totals, reader
<1>36. QED
  BY <1>1, <1>2, <1>3, <1>4, <1>5, <1>6, <1>7, <1>8, <1>9, <1>10, <1>11, <1>12, <1>13, <1>14,
     <1>15, <1>16, <1>17, <1>18, <1>19, <1>20, <1>21, <1>22, <1>23, <1>24, <1>25, <1>26,
     <1>27, <1>28, <1>29, <1>30, <1>31, <1>32, <1>33, <1>34, <1>35 DEF Next, Client, Backend,
      CopyBlock, Generator, Copying

(* Type correctness is inductive, given what the wire and the path say.    *)
LEMMA TypeNext ==
  ASSUME TypeOK, WireInv, PathInv, Next PROVE TypeOK'
<1>1. /\ WireType' /\ EffectType' => BackendType'
      /\ ReaderType' /\ EffectType' => CopyType'
      /\ PointType' /\ CountType' => ClientType'
  BY DEF WireType, EffectType, ReaderType, PointType, CountType, BackendType, CopyType,
      ClientType
<1>2. QED
  BY <1>1, WireTypeNext, ReaderTypeNext, EffectTypeNext, PointTypeNext, CountTypeNext
     DEF TypeOK

-----------------------------------------------------------------------------
(* One await at a time holds the wire; an orphan or an abandoned COPY is   *)
(* left only by a signal that ends the restore.                            *)
LEMMA WireNext ==
  ASSUME TypeOK, WireInv, PathInv, Next PROVE WireInv'
<1> USE DEF WireInv, Cut, Ended, Asking, Unsignalled, Text
<1>1. ASSUME Acquire PROVE WireInv'
  BY <1>1 DEF Acquire, Goto, wire, backend, effects, reader, totals, client, TypeOK,
      BackendType
<1>2. ASSUME Connect PROVE WireInv'
  BY <1>2 DEF Connect, Goto, Throw, wire, backend, effects, reader, totals, client, TypeOK,
      BackendType
<1>3. ASSUME Loop PROVE WireInv'
  BY <1>3 DEF Loop, Goto, Throw, wire, backend, effects, reader, totals, client, TypeOK,
      BackendType
<1>4. ASSUME ReadOperation PROVE WireInv'
  BY <1>4 DEF ReadOperation, CountOperation, NewPayload, Goto, wire, backend, effects, reader,
      totals, client, TypeOK, BackendType
<1>5. ASSUME ReadEnd PROVE WireInv'
  BY <1>5 DEF ReadEnd, Goto, Throw, Status, wire, backend, effects, reader, totals, client,
      TypeOK, BackendType
<1>6. ASSUME ReadFails PROVE WireInv'
  BY <1>6 DEF ReadFails, Throw, wire, backend, effects, reader, totals, client, TypeOK,
      BackendType
<1>7. ASSUME Protect PROVE WireInv'
  BY <1>7 DEF Protect, Guarded, StartOperation, OperationFails, RowsWithoutCurrent, Throw,
      Goto, wire, backend, effects, reader, totals, client, TypeOK, BackendType
<1>8. ASSUME Ask PROVE WireInv'
  BY <1>8 DEF Ask, Send, wire, backend, effects, reader, totals, client, TypeOK, BackendType
<1>9. ASSUME AskCopy PROVE WireInv'
  BY <1>9 DEF AskCopy, OpenCopy, wire, backend, effects, reader, totals, client, TypeOK,
      BackendType
<1>10. ASSUME Savepoint PROVE WireInv'
  BY <1>10 DEF Savepoint, Settled, StartOperation, OperationFails, RowsWithoutCurrent, Throw,
      Goto, wire, backend, effects, reader, totals, client, TypeOK, BackendType
<1>11. ASSUME Exec PROVE WireInv'
  BY <1>11 DEF Exec, Settled, AfterOperation, OperationCompletes, OperationFails,
      RowsWithoutCurrent, Throw, Goto, wire, backend, effects, reader, totals, client, TypeOK,
      BackendType
<1>12. ASSUME Copied PROVE WireInv'
  BY <1>12 DEF Copied, Settled, AfterOperation, OperationCompletes, OperationFails,
      RowsWithoutCurrent, Throw, Goto, wire, backend, effects, reader, totals, client, TypeOK,
      BackendType
<1>13. ASSUME Release PROVE WireInv'
  BY <1>13 DEF Release, Settled, OperationCompletes, OperationFails, RowsWithoutCurrent,
      Throw, Goto, wire, backend, effects, reader, totals, client, TypeOK, BackendType
<1>14. ASSUME Discard PROVE WireInv'
  BY <1>14 DEF Discard, PayloadLeft, Line, Marker, End, Throw, Goto, wire, backend, effects,
      reader, totals, client, TypeOK, BackendType
<1>15. ASSUME Recover PROVE WireInv'
  BY <1>15 DEF Recover, Throw, Goto, wire, backend, effects, reader, totals, client, TypeOK,
      BackendType
<1>16. ASSUME RollbackTo PROVE WireInv'
  BY <1>16 DEF RollbackTo, Recovering, Settled, Goto, Throw, wire, backend, effects, reader,
      totals, client, TypeOK, BackendType
<1>17. ASSUME ReleaseAfter PROVE WireInv'
  BY <1>17 DEF ReleaseAfter, Recovering, Settled, Goto, Throw, wire, backend, effects, reader,
      totals, client, TypeOK, BackendType
<1>18. ASSUME Undo PROVE WireInv'
  BY <1>18 DEF Undo, Recovering, Settled, Goto, Throw, wire, backend, effects, reader, totals,
      client, TypeOK, BackendType
<1>19. ASSUME Cleanup PROVE WireInv'
  BY <1>19 DEF Cleanup, MustRollBack, Goto, Finish, wire, backend, effects, reader, totals,
      client, TypeOK, BackendType
<1>20. ASSUME Rollback PROVE WireInv'
  BY <1>20 DEF Rollback, Finish, wire, backend, effects, reader, totals, client, TypeOK,
      BackendType
<1>21. ASSUME Close PROVE WireInv'
  BY <1>21 DEF Close, Reading, Goto, wire, backend, effects, reader, totals, client, TypeOK,
      BackendType
<1>22. ASSUME Serve, UNCHANGED <<client, reader, totals>> PROVE WireInv'
  BY <1>22 DEF Serve, Executes, Fails, Failure, Applied, EndBlock, SetSavepoint,
      ReleaseSavepoint, RollbackToSavepoint, AfterSuccess, AfterError, TxAfterError, Ending,
      client, reader, totals, backend, effects, TypeOK, BackendType
<1>23. ASSUME ServeOrphan, UNCHANGED <<client, reader, totals>> PROVE WireInv'
  BY <1>23 DEF ServeOrphan, Executes, Failure, Applied, EndBlock, SetSavepoint,
      ReleaseSavepoint, RollbackToSavepoint, TxAfterError, Ending, client, reader, totals,
      backend, effects, TypeOK, BackendType
<1>24. ASSUME Unreachable, UNCHANGED <<client, reader, totals>> PROVE WireInv'
  BY <1>24 DEF Unreachable, AfterError, client, reader, totals, backend, effects, TypeOK,
      BackendType
<1>25. ASSUME GenStart, UNCHANGED client PROVE WireInv'
  BY <1>25 DEF GenStart, client, wire, backend, effects, totals, reader, TypeOK, BackendType
<1>26. ASSUME GenRead, UNCHANGED client PROVE WireInv'
  BY <1>26 DEF GenRead, Line, Marker, End, GeneratorThrows, client, wire, backend, effects,
      totals, reader, TypeOK, BackendType
<1>27. ASSUME GenResume, UNCHANGED client PROVE WireInv'
  BY <1>27 DEF GenResume, Progress, client, wire, backend, effects, totals, reader, TypeOK,
      BackendType
<1>28. ASSUME GenClose, UNCHANGED client PROVE WireInv'
  BY <1>28 DEF GenClose, Line, Marker, End, client, wire, backend, effects, totals, reader,
      TypeOK, BackendType
<1>29. ASSUME MonitorThrows, UNCHANGED client PROVE WireInv'
  BY <1>29 DEF MonitorThrows, Progress, PayloadDestroyed, client, wire, backend, effects,
      totals, reader, TypeOK, BackendType
<1>30. ASSUME ServerRejectsCopy, UNCHANGED client PROVE WireInv'
  BY <1>30 DEF ServerRejectsCopy, CopyFailed, Abandoned, PayloadDestroyed, AfterError,
      TxAfterError, client, wire, backend, effects, totals, reader, TypeOK, BackendType
<1>31. ASSUME ServerCompletesCopy, UNCHANGED client PROVE WireInv'
  BY <1>31 DEF ServerCompletesCopy, Applied, AfterError, client, wire, backend, effects,
      totals, reader, TypeOK, BackendType
<1>32. ASSUME CopyUnreachable, UNCHANGED client PROVE WireInv'
  BY <1>32 DEF CopyUnreachable, CopyFailed, Abandoned, PayloadDestroyed, AfterError, client,
      wire, backend, effects, totals, reader, TypeOK, BackendType
<1>33. ASSUME LoseConnection PROVE WireInv'
  BY <1>33 DEF LoseConnection, wire, backend, effects, reader, totals, client, TypeOK,
      BackendType
<1>34. ASSUME Abort PROVE WireInv'
  BY <1>34 DEF Abort, AbandonCopy, PayloadDestroyed, wire, backend, effects, reader, totals,
      client, TypeOK, BackendType
<1>35. ASSUME Terminated PROVE WireInv'
  BY <1>35 DEF Terminated, vars, client, wire, backend, effects, totals, reader, TypeOK,
      BackendType
<1>36. QED
  BY <1>1, <1>2, <1>3, <1>4, <1>5, <1>6, <1>7, <1>8, <1>9, <1>10, <1>11, <1>12, <1>13, <1>14,
     <1>15, <1>16, <1>17, <1>18, <1>19, <1>20, <1>21, <1>22, <1>23, <1>24, <1>25, <1>26,
     <1>27, <1>28, <1>29, <1>30, <1>31, <1>32, <1>33, <1>34, <1>35 DEF Next, Client, Backend,
      CopyBlock, Generator, Copying

(* op is the operation read last, and a savepoint protects only the        *)
(* operations for which one is asked.                                      *)
LEMMA PathNext ==
  ASSUME TypeOK, WireInv, PathInv, Next PROVE PathInv'
<1> USE DEF PathInv, Guarded, Control, Active
<1>1. ASSUME Acquire PROVE PathInv'
  BY <1>1 DEF Acquire, Goto, wire, backend, effects, reader, totals, client
<1>2. ASSUME Connect PROVE PathInv'
  BY <1>2 DEF Connect, Goto, Throw, wire, backend, effects, reader, totals, client
<1>3. ASSUME Loop PROVE PathInv'
  BY <1>3 DEF Loop, Goto, Throw, wire, backend, effects, reader, totals, client
<1>4. ASSUME ReadOperation PROVE PathInv'
  <2>1. /\ opNumber' = opNumber + 1 /\ script' = Append(script, op') /\ op' \in Kinds
        /\ pc = "reading" /\ pc' = "protect" /\ usedSavepoint' = FALSE
        /\ UNCHANGED <<opt, failed, copy>>
    BY <1>4 DEF ReadOperation, CountOperation, Goto
  <2>2. opNumber \in Nat /\ script \in [1..opNumber -> Kinds]
    BY DEF TypeOK, BackendType, ClientType
  <2>3. script'[opNumber'] = op' /\ opNumber' # 0
    BY <2>1, <2>2, Appended
  <2>4. copy = "none"
    BY <1>4 DEF ReadOperation, WireInv, Cut, Ended, TypeOK, BackendType
  <2>5. QED
    BY <2>1, <2>3, <2>4
<1>5. ASSUME ReadEnd PROVE PathInv'
  BY <1>5 DEF ReadEnd, Goto, Throw, Status, wire, backend, effects, reader, totals, client
<1>6. ASSUME ReadFails PROVE PathInv'
  BY <1>6 DEF ReadFails, Throw, wire, backend, effects, reader, totals, client
<1>7. ASSUME Protect PROVE PathInv'
  BY <1>7 DEF Protect, StartOperation, OperationFails, RowsWithoutCurrent, Throw, Goto, wire,
      backend, effects, reader, totals, client
<1>8. ASSUME Ask PROVE PathInv'
  BY <1>8 DEF Ask, Send, wire, backend, effects, reader, totals, client
<1>9. ASSUME AskCopy PROVE PathInv'
  BY <1>9 DEF AskCopy, OpenCopy, wire, backend, effects, reader, totals, client
<1>10. ASSUME Savepoint PROVE PathInv'
  BY <1>10 DEF Savepoint, Settled, StartOperation, OperationFails, RowsWithoutCurrent, Throw,
      Goto, wire, backend, effects, reader, totals, client
<1>11. ASSUME Exec PROVE PathInv'
  BY <1>11 DEF Exec, Settled, AfterOperation, OperationCompletes, OperationFails,
      RowsWithoutCurrent, Throw, Goto, wire, backend, effects, reader, totals, client
<1>12. ASSUME Copied PROVE PathInv'
  BY <1>12 DEF Copied, Settled, AfterOperation, OperationCompletes, OperationFails,
      RowsWithoutCurrent, Throw, Goto, wire, backend, effects, reader, totals, client
<1>13. ASSUME Release PROVE PathInv'
  BY <1>13 DEF Release, Settled, OperationCompletes, OperationFails, RowsWithoutCurrent,
      Throw, Goto, wire, backend, effects, reader, totals, client
<1>14. ASSUME Discard PROVE PathInv'
  BY <1>14 DEF Discard, PayloadLeft, Line, Marker, End, Throw, Goto, wire, backend, effects,
      reader, totals, client
<1>15. ASSUME Recover PROVE PathInv'
  BY <1>15 DEF Recover, Throw, Goto, wire, backend, effects, reader, totals, client
<1>16. ASSUME RollbackTo PROVE PathInv'
  BY <1>16 DEF RollbackTo, Recovering, Settled, Goto, Throw, wire, backend, effects, reader,
      totals, client
<1>17. ASSUME ReleaseAfter PROVE PathInv'
  BY <1>17 DEF ReleaseAfter, Recovering, Settled, Goto, Throw, wire, backend, effects, reader,
      totals, client
<1>18. ASSUME Undo PROVE PathInv'
  BY <1>18 DEF Undo, Recovering, Settled, Goto, Throw, wire, backend, effects, reader, totals,
      client
<1>19. ASSUME Cleanup PROVE PathInv'
  BY <1>19 DEF Cleanup, MustRollBack, Goto, Finish, TypeOK, ClientType, wire, backend,
      effects, reader, totals, client
<1>20. ASSUME Rollback PROVE PathInv'
  BY <1>20 DEF Rollback, Finish, wire, backend, effects, reader, totals, client
<1>21. ASSUME Close PROVE PathInv'
  BY <1>21 DEF Close, Reading, Goto, wire, backend, effects, reader, totals, client
<1>22. ASSUME Serve, UNCHANGED <<client, reader, totals>> PROVE PathInv'
  BY <1>22 DEF Serve, Executes, Fails, Failure, Applied, EndBlock, SetSavepoint,
      ReleaseSavepoint, RollbackToSavepoint, AfterSuccess, AfterError, TxAfterError, Ending,
      client, reader, totals, backend, effects
<1>23. ASSUME ServeOrphan, UNCHANGED <<client, reader, totals>> PROVE PathInv'
  BY <1>23 DEF ServeOrphan, Executes, Failure, Applied, EndBlock, SetSavepoint,
      ReleaseSavepoint, RollbackToSavepoint, TxAfterError, Ending, client, reader, totals,
      backend, effects
<1>24. ASSUME Unreachable, UNCHANGED <<client, reader, totals>> PROVE PathInv'
  BY <1>24 DEF Unreachable, AfterError, client, reader, totals, backend, effects
<1>25. ASSUME GenStart, UNCHANGED client PROVE PathInv'
  BY <1>25 DEF GenStart, client, wire, backend, effects, totals, reader
<1>26. ASSUME GenRead, UNCHANGED client PROVE PathInv'
  BY <1>26 DEF GenRead, Line, Marker, End, GeneratorThrows, client, wire, backend, effects,
      totals, reader
<1>27. ASSUME GenResume, UNCHANGED client PROVE PathInv'
  BY <1>27 DEF GenResume, Progress, client, wire, backend, effects, totals, reader
<1>28. ASSUME GenClose, UNCHANGED client PROVE PathInv'
  BY <1>28 DEF GenClose, Line, Marker, End, client, wire, backend, effects, totals, reader
<1>29. ASSUME MonitorThrows, UNCHANGED client PROVE PathInv'
  BY <1>29 DEF MonitorThrows, Progress, PayloadDestroyed, client, wire, backend, effects,
      totals, reader
<1>30. ASSUME ServerRejectsCopy, UNCHANGED client PROVE PathInv'
  BY <1>30 DEF ServerRejectsCopy, CopyFailed, Abandoned, PayloadDestroyed, AfterError,
      TxAfterError, client, wire, backend, effects, totals, reader
<1>31. ASSUME ServerCompletesCopy, UNCHANGED client PROVE PathInv'
  BY <1>31 DEF ServerCompletesCopy, Applied, AfterError, client, wire, backend, effects,
      totals, reader
<1>32. ASSUME CopyUnreachable, UNCHANGED client PROVE PathInv'
  BY <1>32 DEF CopyUnreachable, CopyFailed, Abandoned, PayloadDestroyed, AfterError, client,
      wire, backend, effects, totals, reader
<1>33. ASSUME LoseConnection PROVE PathInv'
  BY <1>33 DEF LoseConnection, wire, backend, effects, reader, totals, client
<1>34. ASSUME Abort PROVE PathInv'
  BY <1>34 DEF Abort, AbandonCopy, PayloadDestroyed, Unsignalled, wire, backend, effects,
      reader, totals, client
<1>35. ASSUME Terminated PROVE PathInv'
  BY <1>35 DEF Terminated, vars, client, wire, backend, effects, totals, reader
<1>36. QED
  BY <1>1, <1>2, <1>3, <1>4, <1>5, <1>6, <1>7, <1>8, <1>9, <1>10, <1>11, <1>12, <1>13, <1>14,
     <1>15, <1>16, <1>17, <1>18, <1>19, <1>20, <1>21, <1>22, <1>23, <1>24, <1>25, <1>26,
     <1>27, <1>28, <1>29, <1>30, <1>31, <1>32, <1>33, <1>34, <1>35 DEF Next, Client, Backend,
      CopyBlock, Generator, Copying

(* The loop goes on only when the payload of the COPY block has been read  *)
(* to its marker, or discarded up to it.                                   *)
LEMMA PayloadNext ==
  ASSUME TypeOK, WireInv, PathInv, PayloadInv, Next PROVE PayloadInv'
<1> USE DEF PayloadInv
<1>1. ASSUME Acquire PROVE PayloadInv'
  BY <1>1 DEF Acquire, Goto, wire, backend, effects, reader, totals, client
<1>2. ASSUME Connect PROVE PayloadInv'
  BY <1>2 DEF Connect, Goto, Throw, wire, backend, effects, reader, totals, client
<1>3. ASSUME Loop PROVE PayloadInv'
  BY <1>3 DEF Loop, Goto, Throw, wire, backend, effects, reader, totals, client
<1>4. ASSUME ReadOperation PROVE PayloadInv'
  BY <1>4 DEF ReadOperation, CountOperation, NewPayload, Goto, WireInv, PathInv, Asking, wire,
      backend, effects, reader, totals, client
<1>5. ASSUME ReadEnd PROVE PayloadInv'
  BY <1>5 DEF ReadEnd, Goto, Throw, Status, wire, backend, effects, reader, totals, client
<1>6. ASSUME ReadFails PROVE PayloadInv'
  BY <1>6 DEF ReadFails, Throw, wire, backend, effects, reader, totals, client
<1>7. ASSUME Protect PROVE PayloadInv'
  BY <1>7 DEF Protect, Guarded, StartOperation, OperationFails, RowsWithoutCurrent, Throw,
      Goto, WireInv, PathInv, Asking, wire, backend, effects, reader, totals, client
<1>8. ASSUME Ask PROVE PayloadInv'
  BY <1>8 DEF Ask, Send, wire, backend, effects, reader, totals, client
<1>9. ASSUME AskCopy PROVE PayloadInv'
  BY <1>9 DEF AskCopy, OpenCopy, wire, backend, effects, reader, totals, client
<1>10. ASSUME Savepoint PROVE PayloadInv'
  BY <1>10 DEF Savepoint, Settled, StartOperation, OperationFails, RowsWithoutCurrent, Throw,
      Goto, wire, backend, effects, reader, totals, client
<1>11. ASSUME Exec PROVE PayloadInv'
  BY <1>11 DEF Exec, Settled, AfterOperation, OperationCompletes, OperationFails,
      RowsWithoutCurrent, Throw, Goto, WireInv, PathInv, Asking, wire, backend, effects,
      reader, totals, client
<1>12. ASSUME Copied PROVE PayloadInv'
  BY <1>12 DEF Copied, Settled, AfterOperation, OperationCompletes, OperationFails,
      RowsWithoutCurrent, Throw, Goto, WireInv, PathInv, Asking, wire, backend, effects,
      reader, totals, client
<1>13. ASSUME Release PROVE PayloadInv'
  BY <1>13 DEF Release, Settled, OperationCompletes, OperationFails, RowsWithoutCurrent,
      Throw, Goto, wire, backend, effects, reader, totals, client
<1>14. ASSUME Discard PROVE PayloadInv'
  <2>1. pc = "discard" /\ UNCHANGED <<gen, activeCopy, copy>>
    BY <1>14 DEF Discard
  <2>2. \/ pc' \in {"cleanup", "discard"}
        \/ pc' = "recover" /\ ~activeCopy' /\ ~copyPayloadPending'
    BY <1>14 DEF Discard, PayloadLeft, Throw, Goto
  <2>3. copy # "ending"
    BY <2>1 DEF WireInv
  <2>4. QED
    BY <2>1, <2>2, <2>3
<1>15. ASSUME Recover PROVE PayloadInv'
  BY <1>15 DEF Recover, Throw, Goto, wire, backend, effects, reader, totals, client
<1>16. ASSUME RollbackTo PROVE PayloadInv'
  BY <1>16 DEF RollbackTo, Recovering, Settled, Goto, Throw, wire, backend, effects, reader,
      totals, client
<1>17. ASSUME ReleaseAfter PROVE PayloadInv'
  BY <1>17 DEF ReleaseAfter, Recovering, Settled, Goto, Throw, wire, backend, effects, reader,
      totals, client
<1>18. ASSUME Undo PROVE PayloadInv'
  BY <1>18 DEF Undo, Recovering, Settled, Goto, Throw, wire, backend, effects, reader, totals,
      client
<1>19. ASSUME Cleanup PROVE PayloadInv'
  BY <1>19 DEF Cleanup, MustRollBack, Goto, Finish, wire, backend, effects, reader, totals,
      client
<1>20. ASSUME Rollback PROVE PayloadInv'
  BY <1>20 DEF Rollback, Finish, wire, backend, effects, reader, totals, client
<1>21. ASSUME Close PROVE PayloadInv'
  BY <1>21 DEF Close, Reading, Goto, wire, backend, effects, reader, totals, client
<1>22. ASSUME Serve, UNCHANGED <<client, reader, totals>> PROVE PayloadInv'
  BY <1>22 DEF Serve, Executes, Fails, Failure, Applied, EndBlock, SetSavepoint,
      ReleaseSavepoint, RollbackToSavepoint, AfterSuccess, AfterError, TxAfterError, Ending,
      WireInv, PathInv, Asking, client, reader, totals, backend, effects
<1>23. ASSUME ServeOrphan, UNCHANGED <<client, reader, totals>> PROVE PayloadInv'
  BY <1>23 DEF ServeOrphan, Executes, Failure, Applied, EndBlock, SetSavepoint,
      ReleaseSavepoint, RollbackToSavepoint, TxAfterError, Ending, client, reader, totals,
      backend, effects
<1>24. ASSUME Unreachable, UNCHANGED <<client, reader, totals>> PROVE PayloadInv'
  BY <1>24 DEF Unreachable, AfterError, client, reader, totals, backend, effects
<1>25. ASSUME GenStart, UNCHANGED client PROVE PayloadInv'
  BY <1>25 DEF GenStart, client, wire, backend, effects, totals, reader
<1>26. ASSUME GenRead, UNCHANGED client PROVE PayloadInv'
  BY <1>26 DEF GenRead, Line, Marker, End, GeneratorThrows, client, wire, backend, effects,
      totals, reader
<1>27. ASSUME GenResume, UNCHANGED client PROVE PayloadInv'
  BY <1>27 DEF GenResume, Progress, client, wire, backend, effects, totals, reader
<1>28. ASSUME GenClose, UNCHANGED client PROVE PayloadInv'
  BY <1>28 DEF GenClose, Line, Marker, End, client, wire, backend, effects, totals, reader
<1>29. ASSUME MonitorThrows, UNCHANGED client PROVE PayloadInv'
  BY <1>29 DEF MonitorThrows, Progress, PayloadDestroyed, client, wire, backend, effects,
      totals, reader
<1>30. ASSUME ServerRejectsCopy, UNCHANGED client PROVE PayloadInv'
  BY <1>30 DEF ServerRejectsCopy, CopyFailed, Abandoned, PayloadDestroyed, AfterError,
      TxAfterError, client, wire, backend, effects, totals, reader
<1>31. ASSUME ServerCompletesCopy, UNCHANGED client PROVE PayloadInv'
  BY <1>31 DEF ServerCompletesCopy, Applied, AfterError, client, wire, backend, effects,
      totals, reader
<1>32. ASSUME CopyUnreachable, UNCHANGED client PROVE PayloadInv'
  BY <1>32 DEF CopyUnreachable, CopyFailed, Abandoned, PayloadDestroyed, AfterError, client,
      wire, backend, effects, totals, reader
<1>33. ASSUME LoseConnection PROVE PayloadInv'
  BY <1>33 DEF LoseConnection, wire, backend, effects, reader, totals, client
<1>34. ASSUME Abort PROVE PayloadInv'
  BY <1>34 DEF Abort, AbandonCopy, PayloadDestroyed, Unsignalled, wire, backend, effects,
      reader, totals, client
<1>35. ASSUME Terminated PROVE PayloadInv'
  BY <1>35 DEF Terminated, vars, client, wire, backend, effects, totals, reader
<1>36. QED
  BY <1>1, <1>2, <1>3, <1>4, <1>5, <1>6, <1>7, <1>8, <1>9, <1>10, <1>11, <1>12, <1>13, <1>14,
     <1>15, <1>16, <1>17, <1>18, <1>19, <1>20, <1>21, <1>22, <1>23, <1>24, <1>25, <1>26,
     <1>27, <1>28, <1>29, <1>30, <1>31, <1>32, <1>33, <1>34, <1>35 DEF Next, Client, Backend,
      CopyBlock, Generator, Copying

-----------------------------------------------------------------------------
(* An END that was read stays in the script.                               *)
LEMMA UntrackedStays ==
  ASSUME TypeOK, Next PROVE Untracked => Untracked'
<1>1. ASSUME ReadOperation PROVE Untracked => Untracked'
  <2>1. /\ opNumber' = opNumber + 1 /\ script' = Append(script, op') /\ op' \in Kinds
    BY <1>1 DEF ReadOperation, CountOperation
  <2>2. opNumber \in Nat /\ script \in [1..opNumber -> Kinds]
    BY DEF TypeOK, BackendType, ClientType
  <2>3. \A n \in 1..opNumber : script'[n] = script[n] /\ n \in 1..opNumber'
    BY <2>1, <2>2, Appended
  <2>4. QED
    BY <2>3 DEF Untracked, Uses
<1>2. ASSUME UNCHANGED <<opNumber, script>> PROVE Untracked => Untracked'
  BY <1>2 DEF Untracked, Uses
<1>3. ReadOperation \/ UNCHANGED <<opNumber, script>>
  BY Elsewhere DEF Next, Client, client, Acquire, Connect, Loop, ReadEnd, ReadFails, Protect,
      Ask, AskCopy, Savepoint, Exec, Copied, Release, Discard, Recover, RollbackTo,
      ReleaseAfter, Undo, Cleanup, Rollback, Close, Recovering, Settled
<1>4. QED
  BY <1>1, <1>2, <1>3

(* The END being executed is in the script.                                *)
LEMMA EndUntracked ==
  ASSUME TypeOK, PathInv, op = "END" PROVE Untracked
<1>1. opNumber # 0 /\ script[opNumber] = "END"
  BY DEF PathInv
<1>2. opNumber \in 1..opNumber
  BY <1>1 DEF TypeOK, BackendType
<1>3. QED
  BY <1>1, <1>2 DEF Untracked, Uses

(* What one answer of the backend does to the block, to its effects and to *)
(* the estimate of PgConnectionAdapter.                                    *)
LEMMA Served ==
  ASSUME TypeOK, Serve
  PROVE  /\ sent # "none" /\ orphan = "none" /\ copy = "none" /\ up /\ sent' = "none"
         /\ UNCHANGED <<opNumber, op, aborted, orphan, copy, up, entry>>
         /\ \/ /\ reply' = "ok"
               /\ \/ /\ sent = "BEGIN" /\ tracked' = "in-transaction"
                     /\ tx # "failed" /\ tx' = "open" /\ UNCHANGED <<savepoint, effects>>
                  \/ /\ sent \in {"COMMIT", "END"} /\ EndBlock(tx = "open")
                     /\ tracked' = IF sent = "COMMIT" THEN "idle" ELSE tracked
                  \/ sent = "ROLLBACK" /\ EndBlock(FALSE) /\ tracked' = "idle"
                  \/ sent = "SAVEPOINT" /\ SetSavepoint /\ tracked' = "in-transaction"
                  \/ sent = "RELEASE" /\ ReleaseSavepoint /\ tracked' = "in-transaction"
                  \/ sent = "ROLLBACK TO" /\ RollbackToSavepoint
                       /\ tracked' = "in-transaction"
                  \/ sent = "sql" /\ Applied /\ tracked' = tracked
            \/ /\ reply' = "error" /\ tracked' = AfterError(tracked)
               /\ \/ sent \in {"COMMIT", "END"} /\ tx = "open" /\ EndBlock(FALSE)
                  \/ /\ tx' = TxAfterError(tx) /\ UNCHANGED <<savepoint, effects>>
                     /\ \/ sent = "sql"
                        \/ sent = "BEGIN" /\ tx = "failed"
                        \/ sent = "SAVEPOINT" /\ tx # "open"
                        \/ sent = "RELEASE" /\ (tx # "open" \/ ~savepoint)
                        \/ sent = "ROLLBACK TO" /\ (tx = "idle" \/ ~savepoint)
<1>1. sent \in Statements
  BY DEF Serve, TypeOK, BackendType
<1>2. CASE Executes(sent) /\ reply' = "ok" /\ tracked' = AfterSuccess(tracked, sent)
  BY <1>2 DEF Serve, Executes, AfterSuccess, EndBlock, SetSavepoint, ReleaseSavepoint,
      RollbackToSavepoint, Applied
<1>3. CASE Fails(sent) /\ reply' = "error" /\ tracked' = AfterError(tracked)
  BY <1>1, <1>3 DEF Serve, Fails, Failure, Ending, Statements, DumpStatements, EndBlock
<1>4. QED
  BY <1>2, <1>3 DEF Serve

(* What a statement whose client stopped waiting does to the block: the    *)
(* estimate does not see it.                                               *)
LEMMA OrphanServed ==
  ASSUME TypeOK, WireInv, ServeOrphan
  PROVE  /\ Cut /\ up /\ orphan # "none"
         /\ orphan' = "none"
         /\ UNCHANGED <<opNumber, op, aborted, tracked, sent, reply, copy, up, entry>>
         /\ \/ orphan = "BEGIN" /\ op = "BEGIN" /\ tx' = "open"
                 /\ UNCHANGED <<savepoint, effects>>
            \/ /\ orphan \in {"COMMIT", "END"} /\ op = orphan
               /\ EndBlock(tx = "open") \/ EndBlock(FALSE)
            \/ orphan = "SAVEPOINT" /\ SetSavepoint
            \/ orphan = "RELEASE" /\ ReleaseSavepoint
            \/ orphan = "sql" /\ op = "sql" /\ Applied
            \/ orphan \notin Ending /\ tx' = TxAfterError(tx)
                 /\ UNCHANGED <<savepoint, effects>>
<1>1. /\ orphan \in {"SAVEPOINT", "RELEASE", op} /\ Cut
      /\ op \in DumpStatements \cup {"none", "copy"}
  BY DEF ServeOrphan, TypeOK, BackendType, WireInv
<1>2. orphan \in Statements
  BY DEF ServeOrphan, TypeOK, BackendType
<1>3. orphan \notin {"ROLLBACK", "ROLLBACK TO"}
  BY <1>1 DEF DumpStatements
<1>4. CASE Executes(orphan)
  BY <1>1, <1>2, <1>3, <1>4 DEF ServeOrphan, Executes, EndBlock, SetSavepoint,
      ReleaseSavepoint, Applied
<1>5. CASE Failure(orphan)
  BY <1>1, <1>2, <1>5 DEF ServeOrphan, Failure, EndBlock
<1>6. QED
  BY <1>4, <1>5 DEF ServeOrphan

(* The steps of the payload generator touch neither the wire nor the       *)
(* backend.                                                                *)
LEMMA ReaderSteps ==
  ASSUME GenStart \/ GenRead \/ GenResume \/ GenClose \/ MonitorThrows
  PROVE  UNCHANGED <<tracked, wire, backend, opNumber, op, aborted>>
  BY DEF GenStart, GenRead, GenResume, GenClose, MonitorThrows

(* Where the estimate says that no block is open there is none, but for a  *)
(* BEGIN a signal cut off; effects wait only in a block.                   *)
LEMMA BlocksNext ==
  ASSUME TypeOK, WireInv, PathInv, SessionInv, Next PROVE Alone' => Blocks'
<1> USE DEF Alone, SessionInv, Blocks, Outside, Cut, Ended
<1>1. ASSUME Acquire PROVE Alone' => Blocks'
  BY <1>1 DEF Acquire, Goto, wire, backend, effects, reader, totals, client, TypeOK,
      BackendType, BackendTx
<1>2. ASSUME Connect PROVE Alone' => Blocks'
  BY <1>2 DEF Connect, Goto, Throw, wire, backend, effects, reader, totals, client, TypeOK,
      BackendType, BackendTx
<1>3. ASSUME Loop PROVE Alone' => Blocks'
  BY <1>3 DEF Loop, Goto, Throw, wire, backend, effects, reader, totals, client, TypeOK,
      BackendType, BackendTx
<1>4. ASSUME ReadOperation PROVE Alone' => Blocks'
  BY <1>4 DEF ReadOperation, CountOperation, NewPayload, Goto, wire, backend, effects, reader,
      totals, client, TypeOK, BackendType, BackendTx
<1>5. ASSUME ReadEnd PROVE Alone' => Blocks'
  BY <1>5 DEF ReadEnd, Goto, Throw, Status, wire, backend, effects, reader, totals, client,
      TypeOK, BackendType, BackendTx
<1>6. ASSUME ReadFails PROVE Alone' => Blocks'
  BY <1>6 DEF ReadFails, Throw, wire, backend, effects, reader, totals, client, TypeOK,
      BackendType, BackendTx
<1>7. ASSUME Protect PROVE Alone' => Blocks'
  BY <1>7 DEF Protect, Guarded, StartOperation, OperationFails, RowsWithoutCurrent, Throw,
      Goto, wire, backend, effects, reader, totals, client, TypeOK, BackendType, BackendTx
<1>8. ASSUME Ask PROVE Alone' => Blocks'
  BY <1>8 DEF Ask, Send, wire, backend, effects, reader, totals, client, TypeOK, BackendType,
      BackendTx
<1>9. ASSUME AskCopy PROVE Alone' => Blocks'
  BY <1>9 DEF AskCopy, OpenCopy, wire, backend, effects, reader, totals, client, TypeOK,
      BackendType, BackendTx
<1>10. ASSUME Savepoint PROVE Alone' => Blocks'
  BY <1>10 DEF Savepoint, Settled, StartOperation, OperationFails, RowsWithoutCurrent, Throw,
      Goto, wire, backend, effects, reader, totals, client, TypeOK, BackendType, BackendTx
<1>11. ASSUME Exec PROVE Alone' => Blocks'
  BY <1>11 DEF Exec, Settled, AfterOperation, OperationCompletes, OperationFails,
      RowsWithoutCurrent, Throw, Goto, wire, backend, effects, reader, totals, client, TypeOK,
      BackendType, BackendTx
<1>12. ASSUME Copied PROVE Alone' => Blocks'
  BY <1>12 DEF Copied, Settled, AfterOperation, OperationCompletes, OperationFails,
      RowsWithoutCurrent, Throw, Goto, wire, backend, effects, reader, totals, client, TypeOK,
      BackendType, BackendTx
<1>13. ASSUME Release PROVE Alone' => Blocks'
  BY <1>13 DEF Release, Settled, OperationCompletes, OperationFails, RowsWithoutCurrent,
      Throw, Goto, wire, backend, effects, reader, totals, client, TypeOK, BackendType,
      BackendTx
<1>14. ASSUME Discard PROVE Alone' => Blocks'
  BY <1>14 DEF Discard, PayloadLeft, Line, Marker, End, Throw, Goto, wire, backend, effects,
      reader, totals, client, TypeOK, BackendType, BackendTx
<1>15. ASSUME Recover PROVE Alone' => Blocks'
  BY <1>15 DEF Recover, Throw, Goto, wire, backend, effects, reader, totals, client, TypeOK,
      BackendType, BackendTx
<1>16. ASSUME RollbackTo PROVE Alone' => Blocks'
  BY <1>16 DEF RollbackTo, Recovering, Settled, Goto, Throw, wire, backend, effects, reader,
      totals, client, TypeOK, BackendType, BackendTx
<1>17. ASSUME ReleaseAfter PROVE Alone' => Blocks'
  BY <1>17 DEF ReleaseAfter, Recovering, Settled, Goto, Throw, wire, backend, effects, reader,
      totals, client, TypeOK, BackendType, BackendTx
<1>18. ASSUME Undo PROVE Alone' => Blocks'
  BY <1>18 DEF Undo, Recovering, Settled, Goto, Throw, wire, backend, effects, reader, totals,
      client, TypeOK, BackendType, BackendTx
<1>19. ASSUME Cleanup PROVE Alone' => Blocks'
  BY <1>19 DEF Cleanup, MustRollBack, Goto, Finish, wire, backend, effects, reader, totals,
      client, TypeOK, BackendType, BackendTx
<1>20. ASSUME Rollback PROVE Alone' => Blocks'
  BY <1>20 DEF Rollback, Finish, wire, backend, effects, reader, totals, client, TypeOK,
      BackendType, BackendTx
<1>21. ASSUME Close PROVE Alone' => Blocks'
  BY <1>21 DEF Close, Reading, Goto, wire, backend, effects, reader, totals, client, TypeOK,
      BackendType, BackendTx
<1>22. ASSUME Serve, UNCHANGED <<client, reader, totals>> PROVE Alone' => Blocks'
  BY <1>22, Served DEF EndBlock, SetSavepoint, ReleaseSavepoint, RollbackToSavepoint, Applied,
      AfterError, TxAfterError, effects, WireInv, client, reader, totals, backend, TypeOK,
      BackendType, BackendTx
<1>23. ASSUME ServeOrphan, UNCHANGED <<client, reader, totals>> PROVE Alone' => Blocks'
  BY <1>23, OrphanServed DEF EndBlock, SetSavepoint, ReleaseSavepoint, RollbackToSavepoint,
      Applied, AfterError, TxAfterError, effects, Ending, client, reader, totals, backend,
      TypeOK, BackendType, BackendTx
<1>24. ASSUME Unreachable, UNCHANGED <<client, reader, totals>> PROVE Alone' => Blocks'
  BY <1>24 DEF Unreachable, AfterError, client, reader, totals, backend, effects, TypeOK,
      BackendType, BackendTx
<1>25. ASSUME GenStart \/ GenRead \/ GenResume \/ GenClose \/ MonitorThrows, UNCHANGED
             client
      PROVE Alone' => Blocks'
  BY <1>25 DEF GenStart, GenRead, Line, Marker, End, GeneratorThrows, GenResume, Progress,
      GenClose, MonitorThrows, PayloadDestroyed, client, wire, backend, effects, totals,
      reader, TypeOK, BackendType, BackendTx
<1>26. ASSUME ServerRejectsCopy, UNCHANGED client PROVE Alone' => Blocks'
  BY <1>26 DEF ServerRejectsCopy, CopyFailed, Abandoned, PayloadDestroyed, AfterError,
      TxAfterError, PathInv, client, wire, backend, effects, totals, reader, TypeOK,
      BackendType, BackendTx
<1>27. ASSUME ServerCompletesCopy, UNCHANGED client PROVE Alone' => Blocks'
  BY <1>27 DEF ServerCompletesCopy, Applied, AfterError, PathInv, client, wire, backend,
      effects, totals, reader, TypeOK, BackendType, BackendTx
<1>28. ASSUME CopyUnreachable, UNCHANGED client PROVE Alone' => Blocks'
  BY <1>28 DEF CopyUnreachable, CopyFailed, Abandoned, PayloadDestroyed, AfterError, client,
      wire, backend, effects, totals, reader, TypeOK, BackendType, BackendTx
<1>29. ASSUME LoseConnection PROVE Alone' => Blocks'
  BY <1>29 DEF LoseConnection, wire, backend, effects, reader, totals, client, TypeOK,
      BackendType, BackendTx
<1>30. ASSUME Abort PROVE Alone' => Blocks'
  BY <1>30 DEF Abort, AbandonCopy, PayloadDestroyed, Unsignalled, wire, backend, effects,
      reader, totals, client, TypeOK, BackendType, BackendTx
<1>31. ASSUME Terminated PROVE Alone' => Blocks'
  BY <1>31 DEF Terminated, vars, client, wire, backend, effects, totals, reader, TypeOK,
      BackendType, BackendTx
<1>32. QED
  BY <1>1, <1>2, <1>3, <1>4, <1>5, <1>6, <1>7, <1>8, <1>9, <1>10, <1>11, <1>12, <1>13, <1>14,
     <1>15, <1>16, <1>17, <1>18, <1>19, <1>20, <1>21, <1>22, <1>23, <1>24, <1>25, <1>26,
     <1>27, <1>28, <1>29, <1>30, <1>31 DEF Next, Client, Backend, CopyBlock, Generator,
      Copying

(* The loop takes each operation with a block that is not aborted, without *)
(* a savepoint, and known to the adapter.                                  *)
LEMMA BeforeNext ==
  ASSUME TypeOK, WireInv, PathInv, SessionInv, Next PROVE Alone' => BeforeOperation'
<1> USE DEF Alone, SessionInv, BeforeOperation, Ready, Known, Outside, Covered
<1>1. ASSUME Acquire PROVE Alone' => BeforeOperation'
  BY <1>1, UntrackedStays DEF Acquire, Goto, wire, backend, effects, reader, totals, client
<1>2. ASSUME Connect PROVE Alone' => BeforeOperation'
  BY <1>2, UntrackedStays DEF Connect, Goto, Throw, wire, backend, effects, reader, totals,
      client
<1>3. ASSUME Loop PROVE Alone' => BeforeOperation'
  BY <1>3, UntrackedStays DEF Loop, Goto, Throw, wire, backend, effects, reader, totals,
      client
<1>4. ASSUME ReadOperation PROVE Alone' => BeforeOperation'
  BY <1>4, UntrackedStays DEF ReadOperation, CountOperation, NewPayload, Goto, wire, backend,
      effects, reader, totals, client
<1>5. ASSUME ReadEnd PROVE Alone' => BeforeOperation'
  BY <1>5, UntrackedStays DEF ReadEnd, Goto, Throw, Status, wire, backend, effects, reader,
      totals, client
<1>6. ASSUME ReadFails PROVE Alone' => BeforeOperation'
  BY <1>6, UntrackedStays DEF ReadFails, Throw, wire, backend, effects, reader, totals, client
<1>7. ASSUME Protect PROVE Alone' => BeforeOperation'
  BY <1>7, UntrackedStays DEF Protect, Guarded, StartOperation, OperationFails,
      RowsWithoutCurrent, Throw, Goto, WireInv, Asking, wire, backend, effects, reader,
      totals, client
<1>8. ASSUME Ask PROVE Alone' => BeforeOperation'
  BY <1>8, UntrackedStays DEF Ask, Send, wire, backend, effects, reader, totals, client
<1>9. ASSUME AskCopy PROVE Alone' => BeforeOperation'
  BY <1>9, UntrackedStays DEF AskCopy, OpenCopy, wire, backend, effects, reader, totals,
      client
<1>10. ASSUME Savepoint PROVE Alone' => BeforeOperation'
  BY <1>10, UntrackedStays DEF Savepoint, Settled, StartOperation, OperationFails,
      RowsWithoutCurrent, Throw, Goto, wire, backend, effects, reader, totals, client
<1>11. ASSUME Exec PROVE Alone' => BeforeOperation'
  BY <1>11, UntrackedStays DEF Exec, Settled, AfterOperation, OperationCompletes,
      OperationFails, RowsWithoutCurrent, Throw, Goto, DuringOperation, PathInv, wire,
      backend, effects, reader, totals, client
<1>12. ASSUME Copied PROVE Alone' => BeforeOperation'
  BY <1>12, UntrackedStays DEF Copied, Settled, AfterOperation, OperationCompletes,
      OperationFails, RowsWithoutCurrent, Throw, Goto, DuringOperation, PathInv, wire,
      backend, effects, reader, totals, client
<1>13. ASSUME Release PROVE Alone' => BeforeOperation'
  BY <1>13, UntrackedStays DEF Release, Settled, OperationCompletes, OperationFails,
      RowsWithoutCurrent, Throw, Goto, DuringOperation, Bare, wire, backend, effects, reader,
      totals, client
<1>14. ASSUME Discard PROVE Alone' => BeforeOperation'
  BY <1>14, UntrackedStays DEF Discard, PayloadLeft, Line, Marker, End, Throw, Goto, wire,
      backend, effects, reader, totals, client
<1>15. ASSUME Recover PROVE Alone' => BeforeOperation'
  BY <1>15, UntrackedStays DEF Recover, Throw, Goto, Recovery, Blocks, Cut, Ended, WireInv,
      Asking, TypeOK, BackendType, BackendTx, wire, backend, effects, reader, totals, client
<1>16. ASSUME RollbackTo PROVE Alone' => BeforeOperation'
  BY <1>16, UntrackedStays DEF RollbackTo, Recovering, Settled, Goto, Throw, wire, backend,
      effects, reader, totals, client
<1>17. ASSUME ReleaseAfter PROVE Alone' => BeforeOperation'
  BY <1>17, UntrackedStays DEF ReleaseAfter, Recovering, Settled, Goto, Throw, Recovery, Bare,
      wire, backend, effects, reader, totals, client
<1>18. ASSUME Undo PROVE Alone' => BeforeOperation'
  BY <1>18, UntrackedStays DEF Undo, Recovering, Settled, Goto, Throw, Recovery, wire,
      backend, effects, reader, totals, client
<1>19. ASSUME Cleanup PROVE Alone' => BeforeOperation'
  BY <1>19, UntrackedStays DEF Cleanup, MustRollBack, Goto, Finish, wire, backend, effects,
      reader, totals, client
<1>20. ASSUME Rollback PROVE Alone' => BeforeOperation'
  BY <1>20, UntrackedStays DEF Rollback, Finish, wire, backend, effects, reader, totals,
      client
<1>21. ASSUME Close PROVE Alone' => BeforeOperation'
  BY <1>21, UntrackedStays DEF Close, Reading, Goto, wire, backend, effects, reader, totals,
      client
<1>22. ASSUME Serve, UNCHANGED <<client, reader, totals>> PROVE Alone' => BeforeOperation'
  BY <1>22, UntrackedStays, Served DEF EndBlock, SetSavepoint, ReleaseSavepoint,
      RollbackToSavepoint, Applied, AfterError, TxAfterError, effects, WireInv, Text, Asking,
      TypeOK, BackendType, BackendTx, client, reader, totals, backend
<1>23. ASSUME ServeOrphan, UNCHANGED <<client, reader, totals>>
      PROVE Alone' => BeforeOperation'
  BY <1>23, UntrackedStays, OrphanServed DEF Cut, Ended, WireInv, Asking, client, reader,
      totals, backend, effects
<1>24. ASSUME Unreachable, UNCHANGED <<client, reader, totals>>
      PROVE Alone' => BeforeOperation'
  BY <1>24, UntrackedStays DEF Unreachable, AfterError, client, reader, totals, backend,
      effects
<1>25. ASSUME GenStart \/ GenRead \/ GenResume \/ GenClose \/ MonitorThrows, UNCHANGED
             client
      PROVE Alone' => BeforeOperation'
  BY <1>25, UntrackedStays, ReaderSteps DEF client, wire, backend, effects, totals, reader
<1>26. ASSUME ServerRejectsCopy, UNCHANGED client PROVE Alone' => BeforeOperation'
  BY <1>26, UntrackedStays DEF ServerRejectsCopy, CopyFailed, Abandoned, WireInv, Cut, Ended,
      Asking, TypeOK, BackendType, client, wire, backend, effects, totals, reader
<1>27. ASSUME ServerCompletesCopy, UNCHANGED client PROVE Alone' => BeforeOperation'
  BY <1>27, UntrackedStays DEF ServerCompletesCopy, Applied, WireInv, Cut, Ended, Asking,
      TypeOK, BackendType, client, wire, backend, effects, totals, reader
<1>28. ASSUME CopyUnreachable, UNCHANGED client PROVE Alone' => BeforeOperation'
  BY <1>28, UntrackedStays DEF CopyUnreachable, CopyFailed, Abandoned, PayloadDestroyed,
      AfterError, client, wire, backend, effects, totals, reader
<1>29. ASSUME LoseConnection PROVE Alone' => BeforeOperation'
  BY <1>29, UntrackedStays DEF LoseConnection, wire, backend, effects, reader, totals, client
<1>30. ASSUME Abort PROVE Alone' => BeforeOperation'
  BY <1>30, UntrackedStays DEF Abort, AbandonCopy, WireInv, Unsignalled, wire, backend,
      effects, reader, totals, client
<1>31. ASSUME Terminated PROVE Alone' => BeforeOperation'
  BY <1>31, UntrackedStays DEF Terminated, vars, client, wire, backend, effects, totals,
      reader
<1>32. QED
  BY <1>1, <1>2, <1>3, <1>4, <1>5, <1>6, <1>7, <1>8, <1>9, <1>10, <1>11, <1>12, <1>13, <1>14,
     <1>15, <1>16, <1>17, <1>18, <1>19, <1>20, <1>21, <1>22, <1>23, <1>24, <1>25, <1>26,
     <1>27, <1>28, <1>29, <1>30, <1>31 DEF Next, Client, Backend, CopyBlock, Generator,
      Copying

(* While an operation runs, its savepoint exists if it asked for one and   *)
(* does not if it did not.                                                 *)
LEMMA DuringNext ==
  ASSUME TypeOK, WireInv, PathInv, SessionInv, Next PROVE Alone' => DuringOperation'
<1> USE DEF Alone, SessionInv, DuringOperation, Ready, Known, Outside, Covered, Bare, Guarded,
    PathInv
<1>1. ASSUME Acquire PROVE Alone' => DuringOperation'
  BY <1>1, UntrackedStays DEF Acquire, Goto, wire, backend, effects, reader, totals, client
<1>2. ASSUME Connect PROVE Alone' => DuringOperation'
  BY <1>2, UntrackedStays DEF Connect, Goto, Throw, wire, backend, effects, reader, totals,
      client
<1>3. ASSUME Loop PROVE Alone' => DuringOperation'
  BY <1>3, UntrackedStays DEF Loop, Goto, Throw, wire, backend, effects, reader, totals,
      client
<1>4. ASSUME ReadOperation PROVE Alone' => DuringOperation'
  BY <1>4, UntrackedStays DEF ReadOperation, CountOperation, NewPayload, Goto, wire, backend,
      effects, reader, totals, client
<1>5. ASSUME ReadEnd PROVE Alone' => DuringOperation'
  BY <1>5, UntrackedStays DEF ReadEnd, Goto, Throw, Status, wire, backend, effects, reader,
      totals, client
<1>6. ASSUME ReadFails PROVE Alone' => DuringOperation'
  BY <1>6, UntrackedStays DEF ReadFails, Throw, wire, backend, effects, reader, totals, client
<1>7. ASSUME Protect PROVE Alone' => DuringOperation'
  BY <1>7, UntrackedStays DEF Protect, StartOperation, OperationFails, RowsWithoutCurrent,
      Throw, Goto, BeforeOperation, WireInv, Asking, TypeOK, BackendType, TrackedTx, wire,
      backend, effects, reader, totals, client
<1>8. ASSUME Ask PROVE Alone' => DuringOperation'
  BY <1>8, UntrackedStays DEF Ask, Send, wire, backend, effects, reader, totals, client
<1>9. ASSUME AskCopy PROVE Alone' => DuringOperation'
  BY <1>9, UntrackedStays DEF AskCopy, OpenCopy, wire, backend, effects, reader, totals,
      client
<1>10. ASSUME Savepoint PROVE Alone' => DuringOperation'
  BY <1>10, UntrackedStays DEF Savepoint, Settled, StartOperation, OperationFails,
      RowsWithoutCurrent, Throw, Goto, BeforeOperation, WireInv, wire, backend, effects,
      reader, totals, client
<1>11. ASSUME Exec PROVE Alone' => DuringOperation'
  BY <1>11, UntrackedStays DEF Exec, Settled, AfterOperation, OperationCompletes,
      OperationFails, RowsWithoutCurrent, Throw, Goto, WireInv, wire, backend, effects,
      reader, totals, client
<1>12. ASSUME Copied PROVE Alone' => DuringOperation'
  BY <1>12, UntrackedStays DEF Copied, Settled, AfterOperation, OperationCompletes,
      OperationFails, RowsWithoutCurrent, Throw, Goto, WireInv, wire, backend, effects,
      reader, totals, client
<1>13. ASSUME Release PROVE Alone' => DuringOperation'
  BY <1>13, UntrackedStays DEF Release, Settled, OperationCompletes, OperationFails,
      RowsWithoutCurrent, Throw, Goto, WireInv, wire, backend, effects, reader, totals, client
<1>14. ASSUME Discard PROVE Alone' => DuringOperation'
  BY <1>14, UntrackedStays DEF Discard, PayloadLeft, Line, Marker, End, Throw, Goto, wire,
      backend, effects, reader, totals, client
<1>15. ASSUME Recover PROVE Alone' => DuringOperation'
  BY <1>15, UntrackedStays DEF Recover, Throw, Goto, WireInv, wire, backend, effects, reader,
      totals, client
<1>16. ASSUME RollbackTo PROVE Alone' => DuringOperation'
  BY <1>16, UntrackedStays DEF RollbackTo, Recovering, Settled, Goto, Throw, wire, backend,
      effects, reader, totals, client
<1>17. ASSUME ReleaseAfter PROVE Alone' => DuringOperation'
  BY <1>17, UntrackedStays DEF ReleaseAfter, Recovering, Settled, Goto, Throw, wire, backend,
      effects, reader, totals, client
<1>18. ASSUME Undo PROVE Alone' => DuringOperation'
  BY <1>18, UntrackedStays DEF Undo, Recovering, Settled, Goto, Throw, wire, backend, effects,
      reader, totals, client
<1>19. ASSUME Cleanup PROVE Alone' => DuringOperation'
  BY <1>19, UntrackedStays DEF Cleanup, MustRollBack, Goto, Finish, wire, backend, effects,
      reader, totals, client
<1>20. ASSUME Rollback PROVE Alone' => DuringOperation'
  BY <1>20, UntrackedStays DEF Rollback, Finish, wire, backend, effects, reader, totals,
      client
<1>21. ASSUME Close PROVE Alone' => DuringOperation'
  BY <1>21, UntrackedStays DEF Close, Reading, Goto, wire, backend, effects, reader, totals,
      client
<1>22. ASSUME Serve, UNCHANGED <<client, reader, totals>> PROVE Alone' => DuringOperation'
  <2>1. sent # "none" /\ reply = "none" /\ UNCHANGED <<pc, opt, usedSavepoint, op, up, entry>>
    BY <1>22, Served DEF client, WireInv
  <2>a. CASE pc = "exec"
    <3>1. sent = op
      BY <2>1, <2>a DEF WireInv, Text
    <3>2. Guarded => sent = "sql"
      BY <2>1, <2>a, <3>1 DEF Control, TypeOK, BackendType, DumpStatements
    <3>3. CASE Guarded
      <4>1. /\ \/ reply' = "ok" /\ tx # "failed" /\ UNCHANGED <<tx, tracked>>
               \/ reply' = "error" /\ tracked' = AfterError(tracked)
            /\ UNCHANGED savepoint
        BY <1>22, <3>2, <3>3, Served DEF EndBlock, SetSavepoint, ReleaseSavepoint,
            RollbackToSavepoint, Applied, AfterError, TxAfterError, effects
      <4>2. QED
        BY <2>1, <2>a, <3>3, <4>1, UntrackedStays DEF AfterError, Control
    <3>4. CASE ~Guarded
      <4>1. ~usedSavepoint
        BY <3>4
      <4>2. Alone' => Ready
        BY <2>1, <2>a, <4>1, <1>22, Served
      <4>3. op \in {"BEGIN", "COMMIT", "END", "sql"} /\ (op = "END" => Untracked')
        BY <2>1, <2>a, <3>1, EndUntracked, UntrackedStays DEF TypeOK, BackendType,
            DumpStatements
      <4>4. Alone' => (reply' = "ok" => Ready') /\ (reply' = "error" => ~savepoint')
        BY <1>22, <3>1, <4>2, <4>3, Served, UntrackedStays DEF EndBlock, SetSavepoint,
            ReleaseSavepoint, RollbackToSavepoint, Applied, AfterError, TxAfterError, effects
      <4>5. QED
        BY <2>1, <2>a, <3>4, <4>1, <4>4, <1>22, Served DEF Control
    <3>5. QED
      BY <3>3, <3>4
  <2>4. CASE pc = "release"
    BY <1>22, <2>1, <2>4, Served DEF EndBlock, SetSavepoint, ReleaseSavepoint,
        RollbackToSavepoint, Applied, AfterError, TxAfterError, effects, WireInv, Text
  <2>5. CASE pc = "undo"
    BY <1>22, <2>1, <2>5, Served DEF EndBlock, SetSavepoint, ReleaseSavepoint,
        RollbackToSavepoint, Applied, AfterError, TxAfterError, effects, WireInv, Text
  <2>6. CASE pc \in {"discard", "recover", "copy"}
    BY <2>1, <2>6 DEF WireInv, Asking
  <2>7. QED
    BY <2>1, <2>a, <2>4, <2>5, <2>6
<1>23. ASSUME ServeOrphan, UNCHANGED <<client, reader, totals>>
      PROVE Alone' => DuringOperation'
  BY <1>23, UntrackedStays, OrphanServed DEF WireInv, Cut, Ended, Asking, client, reader,
      totals, backend, effects
<1>24. ASSUME Unreachable, UNCHANGED <<client, reader, totals>>
      PROVE Alone' => DuringOperation'
  BY <1>24, UntrackedStays DEF Unreachable, AfterError, client, reader, totals, backend,
      effects
<1>25. ASSUME GenStart \/ GenRead \/ GenResume \/ GenClose \/ MonitorThrows, UNCHANGED
             client
      PROVE Alone' => DuringOperation'
  BY <1>25, UntrackedStays, ReaderSteps DEF client, wire, backend, effects, totals, reader
<1>26. ASSUME ServerRejectsCopy, UNCHANGED client PROVE Alone' => DuringOperation'
  BY <1>26, UntrackedStays DEF ServerRejectsCopy, CopyFailed, Abandoned, TxAfterError,
      AfterError, Cut, Ended, WireInv, Asking, TypeOK, BackendType, TrackedTx, client, wire,
      backend, effects, totals, reader
<1>27. ASSUME ServerCompletesCopy, UNCHANGED client PROVE Alone' => DuringOperation'
  BY <1>27, UntrackedStays DEF ServerCompletesCopy, Applied, AfterError, Cut, Ended, WireInv,
      Asking, TypeOK, BackendType, TrackedTx, client, wire, backend, effects, totals, reader
<1>28. ASSUME CopyUnreachable, UNCHANGED client PROVE Alone' => DuringOperation'
  BY <1>28, UntrackedStays DEF CopyUnreachable, CopyFailed, Abandoned, PayloadDestroyed,
      AfterError, client, wire, backend, effects, totals, reader
<1>29. ASSUME LoseConnection PROVE Alone' => DuringOperation'
  BY <1>29, UntrackedStays DEF LoseConnection, wire, backend, effects, reader, totals, client
<1>30. ASSUME Abort PROVE Alone' => DuringOperation'
  BY <1>30, UntrackedStays DEF Abort, AbandonCopy, WireInv, Unsignalled, wire, backend,
      effects, reader, totals, client
<1>31. ASSUME Terminated PROVE Alone' => DuringOperation'
  BY <1>31, UntrackedStays DEF Terminated, vars, client, wire, backend, effects, totals,
      reader
<1>32. QED
  BY <1>1, <1>2, <1>3, <1>4, <1>5, <1>6, <1>7, <1>8, <1>9, <1>10, <1>11, <1>12, <1>13, <1>14,
     <1>15, <1>16, <1>17, <1>18, <1>19, <1>20, <1>21, <1>22, <1>23, <1>24, <1>25, <1>26,
     <1>27, <1>28, <1>29, <1>30, <1>31 DEF Next, Client, Backend, CopyBlock, Generator,
      Copying

(* recoverFailedOperation and rollbackActiveTransaction find the savepoint *)
(* or the block they mean to undo, and leave the block as the estimate     *)
(* says.                                                                   *)
LEMMA RecoveryNext ==
  ASSUME TypeOK, WireInv, PathInv, SessionInv, Next PROVE Alone' => Recovery'
<1> USE DEF Alone, SessionInv, Recovery, Ready, Known, Outside, Covered, Bare, Resolved,
    PathInv
<1>1. ASSUME Acquire PROVE Alone' => Recovery'
  BY <1>1 DEF Acquire, Goto, BeforeOperation, wire, backend, effects, reader, totals, client
<1>2. ASSUME Connect PROVE Alone' => Recovery'
  BY <1>2 DEF Connect, Goto, Throw, BeforeOperation, wire, backend, effects, reader, totals,
      client
<1>3. ASSUME Loop PROVE Alone' => Recovery'
  BY <1>3 DEF Loop, Goto, Throw, wire, backend, effects, reader, totals, client
<1>4. ASSUME ReadOperation PROVE Alone' => Recovery'
  BY <1>4 DEF ReadOperation, CountOperation, NewPayload, Goto, wire, backend, effects, reader,
      totals, client
<1>5. ASSUME ReadEnd PROVE Alone' => Recovery'
  BY <1>5 DEF ReadEnd, Goto, Throw, Status, wire, backend, effects, reader, totals, client
<1>6. ASSUME ReadFails PROVE Alone' => Recovery'
  BY <1>6 DEF ReadFails, Throw, wire, backend, effects, reader, totals, client
<1>7. ASSUME Protect PROVE Alone' => Recovery'
  BY <1>7 DEF Protect, Guarded, StartOperation, OperationFails, RowsWithoutCurrent, Throw,
      Goto, BeforeOperation, WireInv, Asking, wire, backend, effects, reader, totals, client
<1>8. ASSUME Ask PROVE Alone' => Recovery'
  BY <1>8 DEF Ask, Send, Unsignalled, wire, backend, effects, reader, totals, client
<1>9. ASSUME AskCopy PROVE Alone' => Recovery'
  BY <1>9 DEF AskCopy, OpenCopy, wire, backend, effects, reader, totals, client
<1>10. ASSUME Savepoint PROVE Alone' => Recovery'
  BY <1>10 DEF Savepoint, Settled, StartOperation, OperationFails, RowsWithoutCurrent, Throw,
      Goto, BeforeOperation, WireInv, wire, backend, effects, reader, totals, client
<1>11. ASSUME Exec PROVE Alone' => Recovery'
  BY <1>11 DEF Exec, Settled, AfterOperation, OperationCompletes, OperationFails,
      RowsWithoutCurrent, Throw, Goto, DuringOperation, WireInv, TypeOK, BackendType, wire,
      backend, effects, reader, totals, client
<1>12. ASSUME Copied PROVE Alone' => Recovery'
  BY <1>12 DEF Copied, Settled, AfterOperation, OperationCompletes, OperationFails,
      RowsWithoutCurrent, Throw, Goto, DuringOperation, WireInv, TypeOK, BackendType, wire,
      backend, effects, reader, totals, client
<1>13. ASSUME Release PROVE Alone' => Recovery'
  BY <1>13 DEF Release, Settled, OperationCompletes, OperationFails, RowsWithoutCurrent,
      Throw, Goto, DuringOperation, WireInv, TypeOK, BackendType, wire, backend, effects,
      reader, totals, client
<1>14. ASSUME Discard PROVE Alone' => Recovery'
  BY <1>14 DEF Discard, PayloadLeft, Line, Marker, End, Throw, Goto, wire, backend, effects,
      reader, totals, client
<1>15. ASSUME Recover PROVE Alone' => Recovery'
  BY <1>15 DEF Recover, Throw, Goto, WireInv, Asking, wire, backend, effects, reader, totals,
      client
<1>16. ASSUME RollbackTo PROVE Alone' => Recovery'
  BY <1>16 DEF RollbackTo, Recovering, Settled, Goto, Throw, wire, backend, effects, reader,
      totals, client
<1>17. ASSUME ReleaseAfter PROVE Alone' => Recovery'
  BY <1>17 DEF ReleaseAfter, Recovering, Settled, Goto, Throw, wire, backend, effects, reader,
      totals, client
<1>18. ASSUME Undo PROVE Alone' => Recovery'
  BY <1>18 DEF Undo, Recovering, Settled, Goto, Throw, wire, backend, effects, reader, totals,
      client
<1>19. ASSUME Cleanup PROVE Alone' => Recovery'
  BY <1>19 DEF Cleanup, MustRollBack, Goto, Finish, TypeOK, BackendType, TrackedTx,
      ClientType, WireInv, Asking, wire, backend, effects, reader, totals, client
<1>20. ASSUME Rollback PROVE Alone' => Recovery'
  BY <1>20 DEF Rollback, Finish, wire, backend, effects, reader, totals, client
<1>21. ASSUME Close PROVE Alone' => Recovery'
  BY <1>21 DEF Close, Reading, Goto, wire, backend, effects, reader, totals, client
<1>22. ASSUME Serve, UNCHANGED <<client, reader, totals>> PROVE Alone' => Recovery'
  BY <1>22, Served DEF EndBlock, SetSavepoint, ReleaseSavepoint, RollbackToSavepoint, Applied,
      AfterError, TxAfterError, effects, Blocks, WireInv, Text, Asking, TypeOK, BackendType,
      BackendTx, client, reader, totals, backend
<1>23. ASSUME ServeOrphan, UNCHANGED <<client, reader, totals>> PROVE Alone' => Recovery'
  BY <1>23, OrphanServed DEF WireInv, Cut, Ended, Asking, client, reader, totals, backend,
      effects
<1>24. ASSUME Unreachable, UNCHANGED <<client, reader, totals>> PROVE Alone' => Recovery'
  BY <1>24 DEF Unreachable, AfterError, client, reader, totals, backend, effects
<1>25. ASSUME GenStart \/ GenRead \/ GenResume \/ GenClose \/ MonitorThrows, UNCHANGED
             client
      PROVE Alone' => Recovery'
  <2>1. UNCHANGED <<pc, opt, usedSavepoint, outcome, late, tracked, tx, savepoint, reply, up,
                    entry>>
    BY <1>25, ReaderSteps DEF client, wire, backend
  <2>2. Recovery => Recovery'
    BY <2>1
  <2>3. QED
    BY <2>1, <2>2
<1>26. ASSUME ServerRejectsCopy, UNCHANGED client PROVE Alone' => Recovery'
  BY <1>26 DEF ServerRejectsCopy, CopyFailed, Abandoned, TxAfterError, AfterError, Cut, Ended,
      WireInv, Asking, TypeOK, BackendType, TrackedTx, client, wire, backend, effects, totals,
      reader
<1>27. ASSUME ServerCompletesCopy, UNCHANGED client PROVE Alone' => Recovery'
  BY <1>27 DEF ServerCompletesCopy, Applied, AfterError, Cut, Ended, WireInv, Asking, TypeOK,
      BackendType, TrackedTx, client, wire, backend, effects, totals, reader
<1>28. ASSUME CopyUnreachable, UNCHANGED client PROVE Alone' => Recovery'
  BY <1>28 DEF CopyUnreachable, CopyFailed, Abandoned, PayloadDestroyed, AfterError, client,
      wire, backend, effects, totals, reader
<1>29. ASSUME LoseConnection PROVE Alone' => Recovery'
  BY <1>29 DEF LoseConnection, wire, backend, effects, reader, totals, client
<1>30. ASSUME Abort PROVE Alone' => Recovery'
  BY <1>30 DEF Abort, AbandonCopy, WireInv, Unsignalled, wire, backend, effects, reader,
      totals, client
<1>31. ASSUME Terminated PROVE Alone' => Recovery'
  BY <1>31 DEF Terminated, vars, client, wire, backend, effects, totals, reader
<1>32. QED
  BY <1>1, <1>2, <1>3, <1>4, <1>5, <1>6, <1>7, <1>8, <1>9, <1>10, <1>11, <1>12, <1>13, <1>14,
     <1>15, <1>16, <1>17, <1>18, <1>19, <1>20, <1>21, <1>22, <1>23, <1>24, <1>25, <1>26,
     <1>27, <1>28, <1>29, <1>30, <1>31 DEF Next, Client, Backend, CopyBlock, Generator,
      Copying

-----------------------------------------------------------------------------
(* Settling operation n after the first n - 1 settles the first n.         *)
LEMMA Interval ==
  ASSUME NEW n \in Nat, n # 0
  PROVE  (1..(n - 1)) \cup {n} = 1..n /\ n \notin 1..(n - 1) /\ n \in 1..n
  OBVIOUS

(* The steps that may settle the operation in flight.                      *)
OperationStep == Protect \/ Savepoint \/ Exec \/ Copied \/ Release

(* ... and that leave it in flight.                                        *)
Unsettled == completed' = completed /\ failed' = failed

(* What the steps that settle an operation change: the operation           *)
(* completes, fails, fails after it completed, or goes on.                 *)
LEMMA Operated ==
  ASSUME TypeOK, PathInv, OperationStep
  PROVE  /\ Active
         /\ UNCHANGED <<opNumber, op, script, opt, outcome, aborted, tracked, orphan, copy, backend>>
         /\ late' \in {late, late \cup {opNumber}}
         /\ completed' \in {completed, completed \cup {opNumber}}
         /\ \/ pc' \in {"savepoint", "exec", "copy", "release"} /\ Unsettled
            \/ pc' = "loop" /\ completed' = completed \cup {opNumber} /\ failed' = failed
            \/ pc' = "cleanup" /\ Unsettled
            \/ pc' = "cleanup" /\ aborted /\ failed' = failed
            \/ /\ ~aborted /\ failed' = failed \cup {opNumber}
               /\ pc' = "cleanup" \/ (pc' \in {"discard", "recover"} /\ ~opt.stopOnError)
<1>1. /\ Active
      /\ UNCHANGED <<opNumber, op, script, opt, outcome, aborted, tracked, orphan, copy, backend>>
  BY DEF OperationStep, Settled, Active, backend, effects, wire, client, totals, reader,
      Protect, Savepoint, Exec, Copied, Release
<1>2. late' \in {late, late \cup {opNumber}}
        /\ completed' \in {completed, completed \cup {opNumber}}
  BY DEF OperationStep, Unsettled, Settled, StartOperation, AfterOperation,
      OperationCompletes, OperationFails, RowsWithoutCurrent, Throw, Goto, Protect, Savepoint,
      Exec, Copied, Release
<1>3. QED
  <2>1. CASE Protect
    BY <1>1, <1>2, <2>1 DEF Protect, Guarded, StartOperation, Unsettled, OperationFails,
        RowsWithoutCurrent, Throw, Goto
  <2>2. CASE Savepoint
    BY <1>1, <1>2, <2>2 DEF Savepoint, Settled, StartOperation, Unsettled, OperationFails,
        RowsWithoutCurrent, Throw, Goto
  <2>3. CASE Exec
    BY <1>1, <1>2, <2>3 DEF Exec, Settled, Unsettled, AfterOperation, OperationCompletes,
        OperationFails, RowsWithoutCurrent, Throw, Goto
  <2>4. CASE Copied
    BY <1>1, <1>2, <2>4 DEF Copied, Settled, Unsettled, AfterOperation, OperationCompletes,
        OperationFails, RowsWithoutCurrent, Throw, Goto
  <2>5. CASE Release
    BY <1>1, <1>2, <2>5 DEF Release, Settled, Unsettled, AfterOperation, OperationCompletes,
        OperationFails, RowsWithoutCurrent, Throw, Goto
  <2>6. QED
    BY <2>1, <2>2, <2>3, <2>4, <2>5 DEF OperationStep

(* The operation was not settled before its step, and is the last one      *)
(* settled after it.                                                       *)
LEMMA NowSettled ==
  ASSUME TypeOK, Active, opNumber # 0, OperationStep, completed \cup failed = 1..(opNumber - 1)
  PROVE  /\ opNumber \notin completed \cup failed
         /\ failed' = failed \cup {opNumber} \/ completed' = completed \cup {opNumber} =>
             (completed' \in {completed, completed \cup {opNumber}}
              /\ failed' \in {failed, failed \cup {opNumber}} =>
                completed' \cup failed' = 1..opNumber)
<1>1. (1..(opNumber - 1)) \cup {opNumber} = 1..opNumber /\ opNumber \notin 1..(opNumber - 1)
  BY Interval DEF TypeOK, BackendType
<1>2. QED
  BY <1>1

(* Each cause of an early end is the one the code reports, and the loop    *)
(* never ends for a COPY payload still pending.                            *)
LEMMA CauseNext ==
  ASSUME TypeOK, WireInv, PathInv, PayloadInv, SessionInv, CauseInv, Next PROVE CauseInv'
<1> USE DEF CauseInv, Alone
<1>1. ASSUME Acquire PROVE CauseInv'
  BY <1>1, UntrackedStays DEF Acquire, Goto, wire, backend, effects, reader, totals, client
<1>2. ASSUME Connect PROVE CauseInv'
  BY <1>2, UntrackedStays DEF Connect, Goto, Throw, wire, backend, effects, reader, totals,
      client
<1>3. ASSUME Loop PROVE CauseInv'
  BY <1>3, UntrackedStays DEF Loop, Goto, Throw, PayloadInv, TypeOK, CopyType, wire, backend,
      effects, reader, totals, client
<1>4. ASSUME ReadOperation PROVE CauseInv'
  BY <1>4, UntrackedStays DEF ReadOperation, CountOperation, NewPayload, Goto, wire, backend,
      effects, reader, totals, client
<1>5. ASSUME ReadEnd PROVE CauseInv'
  BY <1>5, UntrackedStays DEF ReadEnd, Goto, Throw, Status, wire, backend, effects, reader,
      totals, client
<1>6. ASSUME ReadFails PROVE CauseInv'
  BY <1>6, UntrackedStays DEF ReadFails, Throw, wire, backend, effects, reader, totals, client
<1>7. ASSUME Protect PROVE CauseInv'
  BY <1>7, UntrackedStays DEF Protect, Guarded, StartOperation, OperationFails,
      RowsWithoutCurrent, Throw, Goto, TypeOK, BackendType, WireInv, wire, backend, effects,
      reader, totals, client
<1>8. ASSUME Ask PROVE CauseInv'
  BY <1>8, UntrackedStays DEF Ask, Send, Asking, wire, backend, effects, reader, totals,
      client
<1>9. ASSUME AskCopy PROVE CauseInv'
  BY <1>9, UntrackedStays DEF AskCopy, OpenCopy, wire, backend, effects, reader, totals,
      client
<1>10. ASSUME Savepoint PROVE CauseInv'
  BY <1>10, UntrackedStays DEF Savepoint, Settled, StartOperation, OperationFails,
      RowsWithoutCurrent, Throw, Goto, SessionInv, BeforeOperation, TypeOK, BackendType,
      WireInv, wire, backend, effects, reader, totals, client
<1>11. ASSUME Exec PROVE CauseInv'
  BY <1>11, UntrackedStays DEF Exec, Settled, AfterOperation, OperationCompletes,
      OperationFails, RowsWithoutCurrent, Throw, Goto, TypeOK, BackendType, WireInv, wire,
      backend, effects, reader, totals, client
<1>12. ASSUME Copied PROVE CauseInv'
  BY <1>12, UntrackedStays DEF Copied, Settled, AfterOperation, OperationCompletes,
      OperationFails, RowsWithoutCurrent, Throw, Goto, TypeOK, BackendType, WireInv, wire,
      backend, effects, reader, totals, client
<1>13. ASSUME Release PROVE CauseInv'
  BY <1>13, UntrackedStays DEF Release, Settled, OperationCompletes, OperationFails,
      RowsWithoutCurrent, Throw, Goto, TypeOK, BackendType, WireInv, wire, backend, effects,
      reader, totals, client
<1>14. ASSUME Discard PROVE CauseInv'
  BY <1>14, UntrackedStays DEF Discard, PayloadLeft, Line, Marker, End, Throw, Goto, wire,
      backend, effects, reader, totals, client
<1>15. ASSUME Recover PROVE CauseInv'
  BY <1>15, UntrackedStays DEF Recover, Throw, Goto, WireInv, Asking, wire, backend, effects,
      reader, totals, client
<1>16. ASSUME RollbackTo PROVE CauseInv'
  BY <1>16, UntrackedStays DEF RollbackTo, Recovering, Settled, Goto, Throw, SessionInv,
      Recovery, TypeOK, BackendType, WireInv, Unsignalled, wire, backend, effects, reader,
      totals, client
<1>17. ASSUME ReleaseAfter PROVE CauseInv'
  BY <1>17, UntrackedStays DEF ReleaseAfter, Recovering, Settled, Goto, Throw, SessionInv,
      Recovery, TypeOK, BackendType, WireInv, Unsignalled, wire, backend, effects, reader,
      totals, client
<1>18. ASSUME Undo PROVE CauseInv'
  BY <1>18, UntrackedStays DEF Undo, Recovering, Settled, Goto, Throw, SessionInv, Recovery,
      TypeOK, BackendType, WireInv, Unsignalled, wire, backend, effects, reader, totals,
      client
<1>19. ASSUME Cleanup PROVE CauseInv'
  BY <1>19, UntrackedStays DEF Cleanup, MustRollBack, Goto, Finish, TypeOK, ClientType,
      BackendType, TrackedTx, wire, backend, effects, reader, totals, client
<1>20. ASSUME Rollback PROVE CauseInv'
  BY <1>20, UntrackedStays DEF Rollback, Finish, wire, backend, effects, reader, totals,
      client
<1>21. ASSUME Close PROVE CauseInv'
  BY <1>21, UntrackedStays DEF Close, Reading, Goto, wire, backend, effects, reader, totals,
      client
<1>22. ASSUME Serve, UNCHANGED <<client, reader, totals>> PROVE CauseInv'
  BY <1>22, UntrackedStays, Served DEF AfterError, client, reader, totals, backend, effects
<1>23. ASSUME ServeOrphan, UNCHANGED <<client, reader, totals>> PROVE CauseInv'
  BY <1>23, UntrackedStays, OrphanServed DEF client, reader, totals, backend, effects
<1>24. ASSUME Unreachable, UNCHANGED <<client, reader, totals>> PROVE CauseInv'
  BY <1>24, UntrackedStays DEF Unreachable, AfterError, client, reader, totals, backend,
      effects
<1>25. ASSUME GenStart \/ GenRead \/ GenResume \/ GenClose \/ MonitorThrows, UNCHANGED
             client
      PROVE CauseInv'
  BY <1>25, UntrackedStays, ReaderSteps DEF client, wire, backend, effects, totals, reader
<1>26. ASSUME ServerRejectsCopy, UNCHANGED client PROVE CauseInv'
  BY <1>26, UntrackedStays DEF ServerRejectsCopy, CopyFailed, AfterError, client, wire,
      backend, effects, totals, reader
<1>27. ASSUME ServerCompletesCopy, UNCHANGED client PROVE CauseInv'
  BY <1>27, UntrackedStays DEF ServerCompletesCopy, Applied, AfterError, client, wire,
      backend, effects, totals, reader
<1>28. ASSUME CopyUnreachable, UNCHANGED client PROVE CauseInv'
  BY <1>28, UntrackedStays DEF CopyUnreachable, CopyFailed, Abandoned, PayloadDestroyed,
      AfterError, client, wire, backend, effects, totals, reader
<1>29. ASSUME LoseConnection PROVE CauseInv'
  BY <1>29, UntrackedStays DEF LoseConnection, wire, backend, effects, reader, totals, client
<1>30. ASSUME Abort PROVE CauseInv'
  BY <1>30, UntrackedStays DEF Abort, AbandonCopy, Unsignalled, wire, backend, effects,
      reader, totals, client
<1>31. ASSUME Terminated PROVE CauseInv'
  BY <1>31, UntrackedStays DEF Terminated, vars, client, wire, backend, effects, totals,
      reader
<1>32. QED
  BY <1>1, <1>2, <1>3, <1>4, <1>5, <1>6, <1>7, <1>8, <1>9, <1>10, <1>11, <1>12, <1>13, <1>14,
     <1>15, <1>16, <1>17, <1>18, <1>19, <1>20, <1>21, <1>22, <1>23, <1>24, <1>25, <1>26,
     <1>27, <1>28, <1>29, <1>30, <1>31 DEF Next, Client, Backend, CopyBlock, Generator,
      Copying

-----------------------------------------------------------------------------
(* A step of an operation keeps the account of the settled ones.           *)
LEMMA SettlingOperation ==
  ASSUME TypeOK, WireInv, PathInv, CauseInv, Settling, OperationStep PROVE Settling'
<1>1. /\ Active /\ ~Ended /\ outcome = "running" /\ ~Resolved /\ opNumber # 0
      /\ opNumber \notin failed /\ (opt.stopOnError => failed = {})
      /\ completed \cup failed = 1..(opNumber - 1)
  BY Operated DEF Active, Ended, Resolved, PathInv, CauseInv, Settling
<1>2. UNCHANGED <<opNumber, opt, outcome, aborted, orphan, copy>> /\ ~Resolved'
  BY <1>1, Operated DEF Resolved
<1>3. late' \subseteq 1..opNumber
  <2>1. opNumber \in 1..opNumber
    BY <1>1, Interval DEF TypeOK, BackendType
  <2>2. QED
    BY <2>1, Operated DEF Settling
<1>4. CASE pc' \in {"savepoint", "exec", "copy", "release"} /\ Unsettled
  BY <1>1, <1>2, <1>3, <1>4 DEF Settling, Active, Ended, Unsettled
<1>5. CASE pc' = "loop" /\ completed' = completed \cup {opNumber} /\ failed' = failed
  <2>1. completed' \cup failed' = 1..opNumber
    BY <1>1, <1>5, NowSettled
  <2>2. QED
    BY <1>1, <1>2, <1>3, <1>5, <2>1 DEF Settling, Active, Ended
<1>6. CASE pc' = "cleanup" /\ failed' = failed
  <2>1. completed' \cup failed' \subseteq 1..opNumber
    BY <1>1, <1>6, NowSettled, Operated DEF Settling
  <2>2. QED
    BY <1>1, <1>2, <1>3, <1>6, <2>1 DEF Settling, Active, Ended
<1>7. CASE /\ ~aborted /\ failed' = failed \cup {opNumber}
           /\ pc' = "cleanup" \/ (pc' \in {"discard", "recover"} /\ ~opt.stopOnError)
  <2>1. completed' \cup failed' = 1..opNumber
    BY <1>1, <1>7, NowSettled, Operated
  <2>2. orphan = "none" /\ copy = "none"
    BY <1>7 DEF OperationStep, WireInv, PathInv, Cut, Active, Asking, TypeOK, BackendType,
        Settled, Protect, Savepoint, Exec, Copied, Release
  <2>3. QED
    BY <1>1, <1>2, <1>3, <1>7, <2>1, <2>2 DEF Settling, Active, Ended
<1>8. QED
  BY <1>4, <1>5, <1>6, <1>7, Operated DEF Unsettled

(* Every operation before the current one is settled exactly once, and     *)
(* with stopOnError none of them failed.                                   *)
LEMMA SettlingNext ==
  ASSUME TypeOK, WireInv, PathInv, CauseInv, Settling, Next PROVE Settling'
<1> USE DEF Settling, Active, Ended, Resolved, Status
<1>1. ASSUME Acquire PROVE Settling'
  BY <1>1 DEF Acquire, Goto, CauseInv, wire, backend, effects, reader, totals, client
<1>2. ASSUME Connect PROVE Settling'
  BY <1>2 DEF Connect, Goto, Throw, CauseInv, wire, backend, effects, reader, totals, client
<1>3. ASSUME Loop PROVE Settling'
  BY <1>3 DEF Loop, Goto, Throw, wire, backend, effects, reader, totals, client
<1>4. ASSUME ReadOperation PROVE Settling'
  <2>1. /\ opNumber' = opNumber + 1 /\ pc = "reading" /\ pc' = "protect"
        /\ UNCHANGED <<opt, completed, failed, late, outcome, copy, orphan>>
    BY <1>4 DEF ReadOperation, CountOperation, Goto, wire
  <2>2. /\ completed \cup failed = 1..opNumber /\ late \subseteq 1..opNumber
        /\ (opt.stopOnError => failed = {}) /\ outcome = "running"
    BY <2>1 DEF Settling, Active, Ended, CauseInv
  <2>3. /\ 1..opNumber \subseteq 1..opNumber' /\ opNumber' \notin 1..opNumber
        /\ opNumber' - 1 = opNumber
    BY <2>1 DEF TypeOK, BackendType
  <2>4. opNumber' \notin failed
    BY <2>2, <2>3
  <2>5. QED
    BY <2>1, <2>2, <2>3, <2>4
<1>5. ASSUME ReadEnd PROVE Settling'
  BY <1>5 DEF ReadEnd, Goto, Throw, CauseInv, wire, backend, effects, reader, totals, client
<1>6. ASSUME ReadFails PROVE Settling'
  BY <1>6 DEF ReadFails, Throw, wire, backend, effects, reader, totals, client
<1>7. ASSUME Protect \/ Savepoint \/ Exec \/ Copied \/ Release PROVE Settling'
  <2>1. OperationStep
    BY <1>7 DEF OperationStep
  <2>2. QED
    BY <2>1, SettlingOperation
<1>8. ASSUME Ask PROVE Settling'
  BY <1>8 DEF Ask, Send, wire, backend, effects, reader, totals, client
<1>9. ASSUME AskCopy PROVE Settling'
  BY <1>9 DEF AskCopy, OpenCopy, wire, backend, effects, reader, totals, client
<1>10. ASSUME Discard PROVE Settling'
  BY <1>10 DEF Discard, PayloadLeft, Line, Marker, End, Throw, Goto, wire, backend, effects,
      reader, totals, client
<1>11. ASSUME Recover PROVE Settling'
  BY <1>11 DEF Recover, Throw, Goto, wire, backend, effects, reader, totals, client
<1>12. ASSUME RollbackTo PROVE Settling'
  BY <1>12 DEF RollbackTo, Recovering, Settled, Goto, Throw, wire, backend, effects, reader,
      totals, client
<1>13. ASSUME ReleaseAfter PROVE Settling'
  BY <1>13 DEF ReleaseAfter, Recovering, Settled, Goto, Throw, wire, backend, effects, reader,
      totals, client
<1>14. ASSUME Undo PROVE Settling'
  BY <1>14 DEF Undo, Recovering, Settled, Goto, Throw, wire, backend, effects, reader, totals,
      client
<1>15. ASSUME Cleanup PROVE Settling'
  BY <1>15 DEF Cleanup, MustRollBack, Goto, Finish, TypeOK, ClientType, CauseInv, wire,
      backend, effects, reader, totals, client
<1>16. ASSUME Rollback PROVE Settling'
  BY <1>16 DEF Rollback, Finish, CauseInv, wire, backend, effects, reader, totals, client
<1>17. ASSUME Close PROVE Settling'
  BY <1>17 DEF Close, Reading, Goto, wire, backend, effects, reader, totals, client
<1>18. ASSUME Serve, UNCHANGED <<client, reader, totals>> PROVE Settling'
  BY <1>18, Served DEF client, reader, totals, backend, effects
<1>19. ASSUME ServeOrphan, UNCHANGED <<client, reader, totals>> PROVE Settling'
  BY <1>19, OrphanServed DEF client, reader, totals, backend, effects
<1>20. ASSUME Unreachable, UNCHANGED <<client, reader, totals>> PROVE Settling'
  BY <1>20 DEF Unreachable, AfterError, client, reader, totals, backend, effects
<1>21. ASSUME GenStart \/ GenRead \/ GenResume \/ GenClose \/ MonitorThrows, UNCHANGED
             client
      PROVE Settling'
  BY <1>21, Elsewhere DEF GenStart, GenRead, GenResume, GenClose, MonitorThrows, Line, Marker,
      End, GeneratorThrows, Progress, PayloadDestroyed, client, wire, backend, effects,
      totals, reader
<1>22. ASSUME ServerRejectsCopy, UNCHANGED client PROVE Settling'
  BY <1>22 DEF ServerRejectsCopy, CopyFailed, client, wire, backend, effects, totals, reader
<1>23. ASSUME ServerCompletesCopy, UNCHANGED client PROVE Settling'
  BY <1>23 DEF ServerCompletesCopy, Applied, client, wire, backend, effects, totals, reader
<1>24. ASSUME CopyUnreachable, UNCHANGED client PROVE Settling'
  BY <1>24 DEF CopyUnreachable, CopyFailed, Abandoned, PayloadDestroyed, AfterError, client,
      wire, backend, effects, totals, reader
<1>25. ASSUME LoseConnection PROVE Settling'
  BY <1>25 DEF LoseConnection, wire, backend, effects, reader, totals, client
<1>26. ASSUME Abort PROVE Settling'
  BY <1>26 DEF Abort, AbandonCopy, PayloadDestroyed, Unsignalled, WireInv, Asking, wire,
      backend, effects, reader, totals, client
<1>27. ASSUME Terminated PROVE Settling'
  BY <1>27 DEF Terminated, vars, client, wire, backend, effects, totals, reader
<1>28. QED
  BY <1>1, <1>2, <1>3, <1>4, <1>5, <1>6, <1>7, <1>8, <1>9, <1>10, <1>11, <1>12, <1>13, <1>14,
     <1>15, <1>16, <1>17, <1>18, <1>19, <1>20, <1>21, <1>22, <1>23, <1>24, <1>25, <1>26, <1>27 DEF
      Next, Client, Backend, CopyBlock, Generator, Copying

-----------------------------------------------------------------------------
(* The operation in flight is the last one read and is not settled yet.    *)
LEMMA AtOperation ==
  ASSUME TypeOK, PathInv, Settling, Active
  PROVE  /\ opNumber \in 1..opNumber /\ opNumber # 0 /\ script[opNumber] = op
         /\ op \in DumpStatements \cup {"copy"}
         /\ opNumber \notin completed \cup failed /\ opNumber \notin Restored
<1>1. opNumber # 0 /\ script[opNumber] = op /\ completed \cup failed = 1..(opNumber - 1)
  BY DEF PathInv, Settling
<1>2. opNumber \in 1..opNumber /\ opNumber \notin completed \cup failed
  BY <1>1, Interval DEF TypeOK, BackendType
<1>3. QED
  BY <1>1, <1>2, KindsAssumption DEF Restored, DataIn, TypeOK, ClientType

(* Only an operation that completes without failing adds to the rows       *)
(* restored, and only if it is not transaction control.                    *)
LEMMA RestoredMoves ==
  ASSUME TypeOK, PathInv, Settling, Active, UNCHANGED <<script, opNumber>>
  PROVE  /\ Unsettled => Restored' = Restored
         /\ completed' = completed \cup {opNumber} /\ failed' = failed =>
              Restored' = IF op \in Control THEN Restored ELSE Restored \cup {opNumber}
         /\ completed' \in {completed, completed \cup {opNumber}}
              /\ failed' = failed \cup {opNumber} => Restored' = Restored
  BY AtOperation DEF Restored, DataIn, Unsettled

(* Reading the next operation leaves the rows restored as they are ...     *)
LEMMA RestoredRead ==
  ASSUME TypeOK, ReadOperation PROVE Restored' = Restored
<1>1. /\ opNumber' = opNumber + 1 /\ script' = Append(script, op') /\ op' \in Kinds
      /\ UNCHANGED <<completed, failed>>
  BY DEF ReadOperation, CountOperation
<1>2. opNumber \in Nat /\ script \in [1..opNumber -> Kinds] /\ completed \subseteq 1..opNumber
  BY DEF TypeOK, BackendType, ClientType
<1>3. \A n \in 1..opNumber : script'[n] = script[n]
  BY <1>1, <1>2, Appended
<1>4. QED
  BY <1>1, <1>2, <1>3 DEF Restored, DataIn

(* ... and so does a step that settles none.                               *)
LEMMA RestoredKept ==
  ASSUME UNCHANGED <<script, completed, failed>> PROVE Restored' = Restored
  BY DEF Restored, DataIn

(* rowsRestored follows the operations that completed and did not fail,    *)
(* and copyBytesWritten misses no COPY block that completed.               *)
LEMMA CountingNext ==
  ASSUME TypeOK, WireInv, PathInv, CauseInv, Settling, Counting, Next PROVE Counting'
<1> USE DEF Counting
<1>1. ASSUME Acquire PROVE Counting'
  BY <1>1, RestoredKept DEF Acquire, Goto, WireInv, Asking, wire, backend, effects, reader,
      totals, client
<1>2. ASSUME Connect PROVE Counting'
  BY <1>2, RestoredKept DEF Connect, Goto, Throw, WireInv, Asking, wire, backend, effects,
      reader, totals, client
<1>3. ASSUME Loop PROVE Counting'
  BY <1>3, RestoredKept DEF Loop, Goto, Throw, WireInv, Asking, wire, backend, effects,
      reader, totals, client
<1>4. ASSUME ReadOperation PROVE Counting'
  <2>1. /\ opNumber' = opNumber + 1 /\ script' = Append(script, op') /\ op' \in Kinds
        /\ pc = "reading" /\ pc' = "protect" /\ UNCHANGED <<completed, totals, aborted, copy>>
    BY <1>4 DEF ReadOperation, CountOperation, Goto
  <2>2. opNumber \in Nat /\ script \in [1..opNumber -> Kinds]
          /\ completed \subseteq 1..opNumber
    BY DEF TypeOK, BackendType, ClientType
  <2>3. \A n \in completed : script'[n] = script[n]
    BY <2>1, <2>2, Appended
  <2>4. copy # "ending"
    BY <2>1 DEF WireInv
  <2>5. QED
    BY <1>4, <2>1, <2>3, <2>4, RestoredRead DEF totals
<1>5. ASSUME ReadEnd PROVE Counting'
  BY <1>5, RestoredKept DEF ReadEnd, Goto, Throw, Status, WireInv, Asking, wire, backend,
      effects, reader, totals, client
<1>6. ASSUME ReadFails PROVE Counting'
  BY <1>6, RestoredKept DEF ReadFails, Throw, WireInv, Asking, wire, backend, effects, reader,
      totals, client
<1>7. ASSUME Protect PROVE Counting'
  <2>1. Active /\ OperationStep /\ UNCHANGED <<opNumber, op, script, aborted, copy>>
    BY <1>7, Operated DEF OperationStep
  <2>2. opNumber \notin Restored /\ script[opNumber] = op
          /\ opNumber \notin completed \cup failed
    BY <2>1, AtOperation
  <2>3. \/ Unsettled /\ Restored' = Restored
        \/ /\ completed' = completed \cup {opNumber} /\ failed' = failed
           /\ Restored' = IF op \in Control THEN Restored ELSE Restored \cup {opNumber}
        \/ /\ completed' \in {completed, completed \cup {opNumber}}
           /\ failed' = failed \cup {opNumber} /\ Restored' = Restored
    BY <2>1, Operated, RestoredMoves DEF Unsettled
  <2>4. /\ pc = "protect" /\ reply = "none" /\ copy # "ending"
        /\ pc' \in {"savepoint", "exec", "copy", "cleanup", "discard", "recover"}
        /\ rowsOf' \in {rowsOf, rowsOf \ {opNumber}}
             /\ UNCHANGED <<completed, counted, reply>>
    BY <1>7 DEF Protect, WireInv, Asking, Guarded, StartOperation, OperationFails,
        RowsWithoutCurrent, Throw, Goto, wire
  <2>5. ~aborted => rowsOf' = Restored /\ rowsOf' \ {opNumber} = Restored
    BY <2>2, <2>4
  <2>6. Restored' = Restored
    BY <2>2, <2>3, <2>4
  <2>7. QED
    BY <2>1, <2>2, <2>4, <2>5, <2>6
<1>8. ASSUME Ask PROVE Counting'
  BY <1>8, RestoredKept DEF Ask, Send, WireInv, Asking, wire, backend, effects, reader,
      totals, client
<1>9. ASSUME AskCopy PROVE Counting'
  BY <1>9, RestoredKept DEF AskCopy, OpenCopy, WireInv, Asking, wire, backend, effects,
      reader, totals, client
<1>10. ASSUME Savepoint PROVE Counting'
  <2>1. Active /\ OperationStep /\ UNCHANGED <<opNumber, op, script, aborted, copy>>
    BY <1>10, Operated DEF OperationStep
  <2>2. opNumber \notin Restored /\ script[opNumber] = op
          /\ opNumber \notin completed \cup failed
    BY <2>1, AtOperation
  <2>3. \/ Unsettled /\ Restored' = Restored
        \/ /\ completed' = completed \cup {opNumber} /\ failed' = failed
           /\ Restored' = IF op \in Control THEN Restored ELSE Restored \cup {opNumber}
        \/ /\ completed' \in {completed, completed \cup {opNumber}}
           /\ failed' = failed \cup {opNumber} /\ Restored' = Restored
    BY <2>1, Operated, RestoredMoves DEF Unsettled
  <2>4. QED
    BY <1>10, <2>1, <2>2, <2>3 DEF Savepoint, Settled, StartOperation, OperationFails,
        RowsWithoutCurrent, Throw, Goto, Unsettled, totals, WireInv, PathInv, TypeOK,
        BackendType, DumpStatements, Guarded, Control
<1>11. ASSUME Exec PROVE Counting'
  <2>1. Active /\ OperationStep /\ UNCHANGED <<opNumber, op, script, aborted, copy>>
    BY <1>11, Operated DEF OperationStep
  <2>2. opNumber \notin Restored /\ script[opNumber] = op
          /\ opNumber \notin completed \cup failed
    BY <2>1, AtOperation
  <2>3. \/ Unsettled /\ Restored' = Restored
        \/ /\ completed' = completed \cup {opNumber} /\ failed' = failed
           /\ Restored' = IF op \in Control THEN Restored ELSE Restored \cup {opNumber}
        \/ /\ completed' \in {completed, completed \cup {opNumber}}
           /\ failed' = failed \cup {opNumber} /\ Restored' = Restored
    BY <2>1, Operated, RestoredMoves DEF Unsettled
  <2>4. op # "copy" /\ op \in DumpStatements /\ (op = "sql" <=> op \notin Control)
    <3>1. op # "copy"
      BY <1>11 DEF Exec, Settled, PathInv
    <3>2. op \in DumpStatements \cup {"copy"}
      BY <2>1, AtOperation
    <3>3. QED
      BY <3>1, <3>2 DEF DumpStatements, Control
  <2>5. usedSavepoint => op = "sql"
    BY <2>4 DEF PathInv, Guarded
  <2>6. QED
    BY <1>11, <2>1, <2>2, <2>3, <2>4, <2>5 DEF Exec, Settled, AfterOperation,
        OperationCompletes, OperationFails, RowsWithoutCurrent, Throw, Goto, Unsettled,
        totals, WireInv, PathInv
<1>12. ASSUME Copied PROVE Counting'
  <2>1. Active /\ OperationStep /\ UNCHANGED <<opNumber, op, script, aborted, copy>>
    BY <1>12, Operated DEF OperationStep
  <2>2. opNumber \notin Restored /\ script[opNumber] = op
          /\ opNumber \notin completed \cup failed
    BY <2>1, AtOperation
  <2>3. \/ Unsettled /\ Restored' = Restored
        \/ /\ completed' = completed \cup {opNumber} /\ failed' = failed
           /\ Restored' = IF op \in Control THEN Restored ELSE Restored \cup {opNumber}
        \/ /\ completed' \in {completed, completed \cup {opNumber}}
           /\ failed' = failed \cup {opNumber} /\ Restored' = Restored
    BY <2>1, Operated, RestoredMoves DEF Unsettled
  <2>4. /\ pc = "copy" /\ op = "copy" /\ op \notin Control /\ counted' = counted
        /\ copy' # "ending" /\ reply' = "none"
        /\ pc' = "release" \/ completed' # completed => reply = "ok"
    BY <1>12, <2>1 DEF Copied, Settled, OperationFails, Throw, Goto, PathInv, WireInv, Control
  <2>5. ~aborted =>
          \/ pc' = "release" /\ rowsOf' = rowsOf \cup {opNumber} /\ Unsettled
          \/ /\ pc' = "loop" /\ rowsOf' = rowsOf \cup {opNumber}
             /\ completed' = completed \cup {opNumber} /\ failed' = failed
          \/ /\ pc' \in {"discard", "cleanup"} /\ rowsOf' = rowsOf \ {opNumber}
             /\ completed' \in {completed, completed \cup {opNumber}}
             /\ failed' = failed \cup {opNumber}
    BY <1>12, <2>4 DEF Copied, AfterOperation, OperationCompletes, OperationFails,
        RowsWithoutCurrent, Throw, Goto, Unsettled
  <2>6. ~aborted' =>
          /\ pc' = "release" => rowsOf' = Restored' \cup {opNumber'}
          /\ pc' # "release" => pc' # "copy" /\ rowsOf' = Restored'
    BY <2>1, <2>2, <2>3, <2>4, <2>5 DEF Unsettled
  <2>7. \A n \in completed' : n \in completed \/ (n = opNumber /\ reply = "ok")
    BY <2>1, <2>4, Operated
  <2>8. QED
    BY <2>1, <2>4, <2>6, <2>7
<1>13. ASSUME Release PROVE Counting'
  <2>1. Active /\ OperationStep /\ UNCHANGED <<opNumber, op, script, aborted, copy>>
    BY <1>13, Operated DEF OperationStep
  <2>2. opNumber \notin Restored /\ script[opNumber] = op
          /\ opNumber \notin completed \cup failed
    BY <2>1, AtOperation
  <2>3. \/ Unsettled /\ Restored' = Restored
        \/ /\ completed' = completed \cup {opNumber} /\ failed' = failed
           /\ Restored' = IF op \in Control THEN Restored ELSE Restored \cup {opNumber}
        \/ /\ completed' \in {completed, completed \cup {opNumber}}
           /\ failed' = failed \cup {opNumber} /\ Restored' = Restored
    BY <2>1, Operated, RestoredMoves DEF Unsettled
  <2>4. QED
    BY <1>13, <2>1, <2>2, <2>3 DEF Release, Settled, OperationCompletes, OperationFails,
        RowsWithoutCurrent, Throw, Goto, Unsettled, totals, WireInv, PathInv, TypeOK,
        BackendType, DumpStatements, Guarded, Control
<1>14. ASSUME Discard PROVE Counting'
  BY <1>14, RestoredKept DEF Discard, PayloadLeft, Line, Marker, End, Throw, Goto, WireInv,
      Asking, wire, backend, effects, reader, totals, client
<1>15. ASSUME Recover PROVE Counting'
  BY <1>15, RestoredKept DEF Recover, Throw, Goto, WireInv, Asking, wire, backend, effects,
      reader, totals, client
<1>16. ASSUME RollbackTo PROVE Counting'
  BY <1>16, RestoredKept DEF RollbackTo, Recovering, Settled, Goto, Throw, WireInv, Asking,
      wire, backend, effects, reader, totals, client
<1>17. ASSUME ReleaseAfter PROVE Counting'
  BY <1>17, RestoredKept DEF ReleaseAfter, Recovering, Settled, Goto, Throw, WireInv, Asking,
      wire, backend, effects, reader, totals, client
<1>18. ASSUME Undo PROVE Counting'
  BY <1>18, RestoredKept DEF Undo, Recovering, Settled, Goto, Throw, WireInv, Asking, wire,
      backend, effects, reader, totals, client
<1>19. ASSUME Cleanup PROVE Counting'
  BY <1>19, RestoredKept DEF Cleanup, MustRollBack, Goto, Finish, WireInv, Asking, wire,
      backend, effects, reader, totals, client
<1>20. ASSUME Rollback PROVE Counting'
  BY <1>20, RestoredKept DEF Rollback, Finish, WireInv, Asking, wire, backend, effects,
      reader, totals, client
<1>21. ASSUME Close PROVE Counting'
  BY <1>21, RestoredKept DEF Close, Reading, Goto, WireInv, Asking, wire, backend, effects,
      reader, totals, client
<1>22. ASSUME Serve, UNCHANGED <<client, reader, totals>> PROVE Counting'
  BY <1>22, RestoredKept, Served DEF client, totals, WireInv, Asking, PathInv, reader,
      backend, effects
<1>23. ASSUME ServeOrphan, UNCHANGED <<client, reader, totals>> PROVE Counting'
  BY <1>23, RestoredKept, OrphanServed DEF client, totals, reader, backend, effects
<1>24. ASSUME Unreachable, UNCHANGED <<client, reader, totals>> PROVE Counting'
  BY <1>24, RestoredKept DEF Unreachable, AfterError, client, WireInv, PathInv, reader,
      totals, backend, effects
<1>25. ASSUME GenStart \/ GenRead \/ GenClose, UNCHANGED client PROVE Counting'
  BY <1>25, RestoredKept, Elsewhere DEF GenStart, GenRead, GenClose, Line, Marker, End,
      GeneratorThrows, client, WireInv, PathInv, wire, backend, effects, totals, reader
<1>26. ASSUME GenResume, UNCHANGED client PROVE Counting'
  BY <1>26, RestoredKept DEF GenResume, Progress, client, WireInv, wire, backend, effects,
      totals, reader
<1>27. ASSUME MonitorThrows, UNCHANGED client PROVE Counting'
  BY <1>27, RestoredKept DEF MonitorThrows, Progress, PayloadDestroyed, client, WireInv, wire,
      backend, effects, totals, reader
<1>28. ASSUME ServerRejectsCopy, UNCHANGED client PROVE Counting'
  BY <1>28, RestoredKept DEF ServerRejectsCopy, CopyFailed, Abandoned, PayloadDestroyed,
      AfterError, TxAfterError, client, WireInv, PathInv, wire, backend, effects, totals,
      reader
<1>29. ASSUME ServerCompletesCopy, UNCHANGED client PROVE Counting'
  BY <1>29, RestoredKept DEF ServerCompletesCopy, Applied, AfterError, client, WireInv,
      PathInv, wire, backend, effects, totals, reader
<1>30. ASSUME CopyUnreachable, UNCHANGED client PROVE Counting'
  BY <1>30, RestoredKept DEF CopyUnreachable, CopyFailed, Abandoned, PayloadDestroyed,
      AfterError, client, WireInv, PathInv, wire, backend, effects, totals, reader
<1>31. ASSUME LoseConnection PROVE Counting'
  BY <1>31, RestoredKept DEF LoseConnection, client, WireInv, PathInv, wire, backend, effects,
      reader, totals
<1>32. ASSUME Abort PROVE Counting'
  BY <1>32, RestoredKept DEF Abort, AbandonCopy, PayloadDestroyed, Unsignalled, client,
      WireInv, PathInv, wire, backend, effects, reader, totals
<1>33. ASSUME Terminated PROVE Counting'
  BY <1>33, RestoredKept DEF Terminated, vars, client, WireInv, PathInv, wire, backend,
      effects, totals, reader
<1>34. QED
  BY <1>1, <1>2, <1>3, <1>4, <1>5, <1>6, <1>7, <1>8, <1>9, <1>10, <1>11, <1>12, <1>13, <1>14,
     <1>15, <1>16, <1>17, <1>18, <1>19, <1>20, <1>21, <1>22, <1>23, <1>24, <1>25, <1>26,
     <1>27, <1>28, <1>29, <1>30, <1>31, <1>32, <1>33 DEF Next, Client, Backend, CopyBlock,
      Generator, Copying

-----------------------------------------------------------------------------
(* Every effect is that of an operation that was read.                     *)
LEMMA EffectsType ==
  ASSUME TypeOK PROVE Effects \subseteq 1..opNumber
  BY DEF TypeOK, BackendType, Effects

(* The effect of the current operation exists from the answer of the       *)
(* server on and not before; an inner effect is only ever its own.         *)
LEMMA PlacedNext ==
  ASSUME TypeOK, WireInv, PathInv, SessionInv, Settling, EffectsInv, Next
  PROVE  Alone' => Placed'
<1> USE DEF EffectsInv, Placed, Effects, Alone
<1>1. ASSUME Acquire PROVE Alone' => Placed'
  BY <1>1 DEF Acquire, Goto, wire, backend, effects, reader, totals, client
<1>2. ASSUME Connect PROVE Alone' => Placed'
  BY <1>2 DEF Connect, Goto, Throw, wire, backend, effects, reader, totals, client
<1>3. ASSUME Loop PROVE Alone' => Placed'
  BY <1>3 DEF Loop, Goto, Throw, wire, backend, effects, reader, totals, client
<1>4. ASSUME ReadOperation PROVE Alone' => Placed'
  <2>1. /\ opNumber' = opNumber + 1 /\ pc = "reading" /\ pc' = "protect" /\ Alone' = Alone
        /\ UNCHANGED <<effects, savepoint>>
    BY <1>4 DEF ReadOperation, CountOperation, Goto, backend, Alone
  <2>2. opNumber' \notin 1..opNumber
    BY <2>1 DEF TypeOK, BackendType
  <2>3. opNumber' \notin Effects
    BY <2>2, EffectsType
  <2>4. Alone => inner = {}
    BY <2>1 DEF SessionInv, BeforeOperation, Ready, Blocks
  <2>5. QED
    BY <2>1, <2>3, <2>4 DEF effects
<1>5. ASSUME ReadEnd PROVE Alone' => Placed'
  BY <1>5 DEF ReadEnd, Goto, Throw, Status, wire, backend, effects, reader, totals, client
<1>6. ASSUME ReadFails PROVE Alone' => Placed'
  BY <1>6 DEF ReadFails, Throw, wire, backend, effects, reader, totals, client
<1>7. ASSUME Protect PROVE Alone' => Placed'
  BY <1>7 DEF Protect, Guarded, StartOperation, OperationFails, RowsWithoutCurrent, Throw,
      Goto, WireInv, Asking, wire, backend, effects, reader, totals, client
<1>8. ASSUME Ask PROVE Alone' => Placed'
  BY <1>8 DEF Ask, Send, Unsignalled, wire, backend, effects, reader, totals, client
<1>9. ASSUME AskCopy PROVE Alone' => Placed'
  BY <1>9 DEF AskCopy, OpenCopy, wire, backend, effects, reader, totals, client
<1>10. ASSUME Savepoint PROVE Alone' => Placed'
  BY <1>10 DEF Savepoint, Settled, StartOperation, OperationFails, RowsWithoutCurrent, Throw,
      Goto, PathInv, WireInv, TypeOK, BackendType, wire, backend, effects, reader, totals,
      client
<1>11. ASSUME Exec PROVE Alone' => Placed'
  BY <1>11 DEF Exec, Settled, AfterOperation, OperationCompletes, OperationFails,
      RowsWithoutCurrent, Throw, Goto, PathInv, WireInv, Guarded, TypeOK, BackendType, wire,
      backend, effects, reader, totals, client
<1>12. ASSUME Copied PROVE Alone' => Placed'
  BY <1>12 DEF Copied, Settled, AfterOperation, OperationCompletes, OperationFails,
      RowsWithoutCurrent, Throw, Goto, PathInv, WireInv, Control, TypeOK, BackendType, wire,
      backend, effects, reader, totals, client
<1>13. ASSUME Release PROVE Alone' => Placed'
  BY <1>13 DEF Release, Settled, OperationCompletes, OperationFails, RowsWithoutCurrent,
      Throw, Goto, PathInv, WireInv, TypeOK, BackendType, wire, backend, effects, reader,
      totals, client
<1>14. ASSUME Discard PROVE Alone' => Placed'
  BY <1>14 DEF Discard, PayloadLeft, Line, Marker, End, Throw, Goto, wire, backend, effects,
      reader, totals, client
<1>15. ASSUME Recover PROVE Alone' => Placed'
  BY <1>15 DEF Recover, Throw, Goto, wire, backend, effects, reader, totals, client
<1>16. ASSUME RollbackTo PROVE Alone' => Placed'
  BY <1>16 DEF RollbackTo, Recovering, Settled, Goto, Throw, wire, backend, effects, reader,
      totals, client
<1>17. ASSUME ReleaseAfter PROVE Alone' => Placed'
  BY <1>17 DEF ReleaseAfter, Recovering, Settled, Goto, Throw, wire, backend, effects, reader,
      totals, client
<1>18. ASSUME Undo PROVE Alone' => Placed'
  BY <1>18 DEF Undo, Recovering, Settled, Goto, Throw, wire, backend, effects, reader, totals,
      client
<1>19. ASSUME Cleanup PROVE Alone' => Placed'
  BY <1>19 DEF Cleanup, MustRollBack, Goto, Finish, wire, backend, effects, reader, totals,
      client
<1>20. ASSUME Rollback PROVE Alone' => Placed'
  BY <1>20 DEF Rollback, Finish, wire, backend, effects, reader, totals, client
<1>21. ASSUME Close PROVE Alone' => Placed'
  BY <1>21 DEF Close, Reading, Goto, wire, backend, effects, reader, totals, client
<1>22. ASSUME Serve, UNCHANGED <<client, reader, totals>> PROVE Alone' => Placed'
  <2>1. sent # "none" /\ reply = "none" /\ UNCHANGED <<pc, op, opNumber, usedSavepoint>>
          /\ sent = Text(pc)
    BY <1>22, Served DEF client, WireInv
  <2>2. Alone' => Alone
    BY <1>22, Served
  <2>3. Effects' \subseteq Effects \cup {opNumber}
          /\ (opNumber \in Effects' => sent = "sql" \/ opNumber \in Effects)
    BY <1>22, Served DEF EndBlock, SetSavepoint, ReleaseSavepoint, RollbackToSavepoint,
        Applied, effects
  <2>4. reply' = "error" => Effects' \subseteq Effects
    BY <1>22, Served DEF EndBlock, SetSavepoint, ReleaseSavepoint, RollbackToSavepoint,
        Applied, effects
  <2>5. inner' \subseteq inner \cup {opNumber}
    BY <1>22, Served DEF EndBlock, SetSavepoint, ReleaseSavepoint, RollbackToSavepoint,
        Applied, effects
  <2>6. reply' = "ok" /\ sent = "sql" => opNumber \in Effects'
    BY <1>22, Served DEF EndBlock, SetSavepoint, ReleaseSavepoint, RollbackToSavepoint,
        Applied, effects, TypeOK, BackendType, BackendTx
  <2>7. sent = "RELEASE" => Effects' = Effects
    BY <1>22, Served DEF EndBlock, SetSavepoint, ReleaseSavepoint, RollbackToSavepoint,
        Applied, effects
  <2>8. pc = "release" => sent = "RELEASE"
    BY <2>1 DEF Text
  <2>9. pc = "savepoint" => sent = "SAVEPOINT"
    BY <2>1 DEF Text
  <2>10. pc = "exec" /\ op \notin Control => sent = "sql"
    BY <2>1 DEF Text, TypeOK, BackendType, DumpStatements, Control, PathInv
  <2>11. pc \notin {"protect", "copy"}
    BY <2>1 DEF WireInv, Asking
  <2>12. QED
    BY <2>1, <2>2, <2>3, <2>4, <2>5, <2>6, <2>7, <2>8, <2>9, <2>10, <2>11, <1>22, Served
<1>23. ASSUME ServeOrphan, UNCHANGED <<client, reader, totals>> PROVE Alone' => Placed'
  <2>1. Cut /\ UNCHANGED <<pc, op, opNumber, reply>> /\ (Alone' => Alone)
        /\ inner' \subseteq inner \cup {opNumber}
    BY <1>23, OrphanServed DEF client, EndBlock, SetSavepoint, ReleaseSavepoint,
        RollbackToSavepoint, Applied, effects
  <2>2. pc \in {"protect", "savepoint", "exec", "copy", "release"} => reply = "rejected"
          /\ pc # "protect"
    BY <2>1 DEF Cut, Ended, WireInv, Asking
  <2>3. QED
    BY <2>1, <2>2
<1>24. ASSUME Unreachable, UNCHANGED <<client, reader, totals>> PROVE Alone' => Placed'
  BY <1>24 DEF Unreachable, AfterError, client, reader, totals, backend, effects
<1>25. ASSUME GenStart \/ GenRead \/ GenResume \/ GenClose \/ MonitorThrows, UNCHANGED
             client
      PROVE Alone' => Placed'
  BY <1>25, ReaderSteps DEF client, wire, backend, effects, totals, reader
<1>26. ASSUME ServerRejectsCopy, UNCHANGED client PROVE Alone' => Placed'
  <2>1. UNCHANGED <<pc, op, opNumber, effects>> /\ (Alone' => Alone)
    BY <1>26 DEF ServerRejectsCopy, client
  <2>2. reply' = "ok" => reply = "ok"
    BY <1>26 DEF ServerRejectsCopy, CopyFailed
  <2>3. pc \in {"protect", "savepoint", "exec", "release"} => reply = "rejected"
          /\ pc # "protect" /\ reply' = "rejected"
    BY <1>26 DEF ServerRejectsCopy, CopyFailed, Abandoned, WireInv, Asking, Cut, Ended,
        TypeOK, BackendType
  <2>4. pc = "copy" => reply \in {"none", "rejected"}
    BY <1>26 DEF ServerRejectsCopy, WireInv, Cut, Ended, TypeOK, BackendType
  <2>5. pc = "copy" /\ reply' \in {"none", "error"} => reply = "none"
    BY <1>26, <2>4 DEF ServerRejectsCopy, CopyFailed, Abandoned, WireInv, Cut, Ended, TypeOK,
        BackendType
  <2>6. QED
    BY <2>1, <2>2, <2>3, <2>4, <2>5 DEF effects
<1>27. ASSUME ServerCompletesCopy, UNCHANGED client PROVE Alone' => Placed'
  <2>1. UNCHANGED <<pc, op, opNumber>> /\ (Alone' => Alone)
          /\ inner' \subseteq inner \cup {opNumber}
        /\ opNumber \in Effects' /\ Effects \subseteq Effects'
    BY <1>27 DEF ServerCompletesCopy, client, Applied, TypeOK, BackendType, BackendTx
  <2>2. \/ pc = "copy" /\ reply' = "ok"
        \/ reply = "rejected" /\ reply' = "rejected"
        \/ Ended
    BY <1>27 DEF ServerCompletesCopy, WireInv, Cut
  <2>3. QED
    BY <2>1, <2>2 DEF WireInv, Asking, Ended
<1>28. ASSUME CopyUnreachable, UNCHANGED client PROVE Alone' => Placed'
  BY <1>28 DEF CopyUnreachable, CopyFailed, Abandoned, PayloadDestroyed, AfterError, client,
      wire, backend, effects, totals, reader
<1>29. ASSUME LoseConnection PROVE Alone' => Placed'
  BY <1>29 DEF LoseConnection, wire, backend, effects, reader, totals, client
<1>30. ASSUME Abort PROVE Alone' => Placed'
  BY <1>30 DEF Abort, AbandonCopy, PayloadDestroyed, Unsignalled, WireInv, wire, backend,
      effects, reader, totals, client
<1>31. ASSUME Terminated PROVE Alone' => Placed'
  BY <1>31 DEF Terminated, vars, client, wire, backend, effects, totals, reader
<1>32. QED
  BY <1>1, <1>2, <1>3, <1>4, <1>5, <1>6, <1>7, <1>8, <1>9, <1>10, <1>11, <1>12, <1>13, <1>14,
     <1>15, <1>16, <1>17, <1>18, <1>19, <1>20, <1>21, <1>22, <1>23, <1>24, <1>25, <1>26,
     <1>27, <1>28, <1>29, <1>30, <1>31 DEF Next, Client, Backend, CopyBlock, Generator,
      Copying

-----------------------------------------------------------------------------
(* When a step reports its operation as failed, the backend has no effect  *)
(* of it, or a callback failed it afterwards.                              *)
LEMMA FailsWithout ==
  ASSUME TypeOK, WireInv, PathInv, SessionInv, EffectsInv, OperationStep, Alone
  PROVE  failed' = failed \/ opNumber \in late' \/ opNumber \notin Effects
<1> USE DEF EffectsInv, Placed
<1>1. CASE Protect
  BY <1>1 DEF Protect, Guarded, StartOperation, OperationFails, RowsWithoutCurrent, Throw,
      Goto, WireInv, Asking
<1>2. CASE Savepoint
  BY <1>2 DEF Savepoint, Settled, StartOperation, OperationFails, RowsWithoutCurrent, Throw,
      Goto, WireInv, TypeOK, BackendType
<1>3. CASE Exec
  BY <1>3 DEF Exec, Settled, AfterOperation, OperationCompletes, OperationFails,
      RowsWithoutCurrent, Throw, Goto, WireInv, TypeOK, BackendType
<1>4. CASE Copied
  BY <1>4 DEF Copied, Settled, AfterOperation, OperationCompletes, OperationFails,
      RowsWithoutCurrent, Throw, Goto, WireInv, TypeOK, BackendType
<1>5. CASE Release
  BY <1>5 DEF Release, Settled, OperationCompletes, OperationFails, RowsWithoutCurrent, Throw,
      Goto, SessionInv, DuringOperation, WireInv, TypeOK, BackendType
<1>6. QED
  BY <1>1, <1>2, <1>3, <1>4, <1>5 DEF OperationStep

(* No effect of a failed operation survives, but for those a callback      *)
(* failed afterwards.                                                      *)
LEMMA FailedGoneNext ==
  ASSUME TypeOK, WireInv, PathInv, SessionInv, Settling, EffectsInv, Next
  PROVE  Alone' => FailedGone'
<1> USE DEF EffectsInv, FailedGone, Effects, Alone
<1>1. ASSUME Acquire PROVE Alone' => FailedGone'
  BY <1>1 DEF Acquire, Goto, wire, backend, effects, reader, totals, client
<1>2. ASSUME Connect PROVE Alone' => FailedGone'
  BY <1>2 DEF Connect, Goto, Throw, wire, backend, effects, reader, totals, client
<1>3. ASSUME Loop PROVE Alone' => FailedGone'
  BY <1>3 DEF Loop, Goto, Throw, wire, backend, effects, reader, totals, client
<1>4. ASSUME ReadOperation PROVE Alone' => FailedGone'
  BY <1>4 DEF ReadOperation, CountOperation, NewPayload, Goto, wire, backend, effects, reader,
      totals, client
<1>5. ASSUME ReadEnd PROVE Alone' => FailedGone'
  BY <1>5 DEF ReadEnd, Goto, Throw, Status, wire, backend, effects, reader, totals, client
<1>6. ASSUME ReadFails PROVE Alone' => FailedGone'
  BY <1>6 DEF ReadFails, Throw, wire, backend, effects, reader, totals, client
<1>7. ASSUME Protect \/ Savepoint \/ Exec \/ Copied \/ Release PROVE Alone' => FailedGone'
  <2>1. OperationStep
    BY <1>7 DEF OperationStep
  <2>2. UNCHANGED <<opNumber, effects, up, entry>> /\ late \subseteq late'
        /\ failed' \in {failed, failed \cup {opNumber}}
    BY <2>1, Operated DEF backend, Unsettled
  <2>3. Alone => failed' = failed \/ opNumber \in late' \/ opNumber \notin Effects
    BY <2>1, FailsWithout
  <2>4. QED
    BY <2>2, <2>3 DEF effects
<1>8. ASSUME Ask PROVE Alone' => FailedGone'
  BY <1>8 DEF Ask, Send, wire, backend, effects, reader, totals, client
<1>9. ASSUME AskCopy PROVE Alone' => FailedGone'
  BY <1>9 DEF AskCopy, OpenCopy, wire, backend, effects, reader, totals, client
<1>10. ASSUME Discard PROVE Alone' => FailedGone'
  BY <1>10 DEF Discard, PayloadLeft, Line, Marker, End, Throw, Goto, wire, backend, effects,
      reader, totals, client
<1>11. ASSUME Recover PROVE Alone' => FailedGone'
  BY <1>11 DEF Recover, Throw, Goto, wire, backend, effects, reader, totals, client
<1>12. ASSUME RollbackTo PROVE Alone' => FailedGone'
  BY <1>12 DEF RollbackTo, Recovering, Settled, Goto, Throw, wire, backend, effects, reader,
      totals, client
<1>13. ASSUME ReleaseAfter PROVE Alone' => FailedGone'
  BY <1>13 DEF ReleaseAfter, Recovering, Settled, Goto, Throw, wire, backend, effects, reader,
      totals, client
<1>14. ASSUME Undo PROVE Alone' => FailedGone'
  BY <1>14 DEF Undo, Recovering, Settled, Goto, Throw, wire, backend, effects, reader, totals,
      client
<1>15. ASSUME Cleanup PROVE Alone' => FailedGone'
  BY <1>15 DEF Cleanup, MustRollBack, Goto, Finish, wire, backend, effects, reader, totals,
      client
<1>16. ASSUME Rollback PROVE Alone' => FailedGone'
  BY <1>16 DEF Rollback, Finish, wire, backend, effects, reader, totals, client
<1>17. ASSUME Close PROVE Alone' => FailedGone'
  BY <1>17 DEF Close, Reading, Goto, wire, backend, effects, reader, totals, client
<1>18. ASSUME Serve, UNCHANGED <<client, reader, totals>> PROVE Alone' => FailedGone'
  <2>1. sent # "none" /\ sent = Text(pc) /\ UNCHANGED <<failed, late>> /\ (Alone' => Alone)
    BY <1>18, Served DEF client, WireInv
  <2>2. opNumber \in failed => sent # "sql"
    BY <2>1 DEF Text, WireInv, Asking, Settling, Active
  <2>3. Effects' \subseteq Effects \cup {opNumber}
          /\ (sent # "sql" => Effects' \subseteq Effects)
    BY <1>18, Served DEF EndBlock, SetSavepoint, ReleaseSavepoint, RollbackToSavepoint,
        Applied, effects
  <2>4. QED
    BY <2>1, <2>2, <2>3
<1>19. ASSUME ServeOrphan, UNCHANGED <<client, reader, totals>> PROVE Alone' => FailedGone'
  <2>1. UNCHANGED <<failed, late>> /\ (Alone' => Alone) /\ opNumber \notin failed
    BY <1>19, OrphanServed DEF client, Settling
  <2>2. Effects' \subseteq Effects \cup {opNumber}
    BY <1>19, OrphanServed DEF EndBlock, SetSavepoint, ReleaseSavepoint, RollbackToSavepoint,
        Applied, effects
  <2>3. QED
    BY <2>1, <2>2
<1>20. ASSUME Unreachable, UNCHANGED <<client, reader, totals>> PROVE Alone' => FailedGone'
  BY <1>20 DEF Unreachable, AfterError, client, reader, totals, backend, effects
<1>21. ASSUME GenStart \/ GenRead \/ GenResume \/ GenClose \/ MonitorThrows, UNCHANGED
             client
      PROVE Alone' => FailedGone'
  BY <1>21, ReaderSteps DEF client, wire, backend, effects, totals, reader
<1>22. ASSUME ServerRejectsCopy, UNCHANGED client PROVE Alone' => FailedGone'
  BY <1>22 DEF ServerRejectsCopy, CopyFailed, Abandoned, PayloadDestroyed, AfterError,
      TxAfterError, client, wire, backend, effects, totals, reader
<1>23. ASSUME ServerCompletesCopy, UNCHANGED client PROVE Alone' => FailedGone'
  <2>1. UNCHANGED <<failed, late>> /\ (Alone' => Alone) /\ opNumber \notin failed
        /\ Effects' \subseteq Effects \cup {opNumber}
    BY <1>23 DEF ServerCompletesCopy, Applied, client, Settling
  <2>2. QED
    BY <2>1
<1>24. ASSUME CopyUnreachable, UNCHANGED client PROVE Alone' => FailedGone'
  BY <1>24 DEF CopyUnreachable, CopyFailed, Abandoned, PayloadDestroyed, AfterError, client,
      wire, backend, effects, totals, reader
<1>25. ASSUME LoseConnection PROVE Alone' => FailedGone'
  BY <1>25 DEF LoseConnection, wire, backend, effects, reader, totals, client
<1>26. ASSUME Abort PROVE Alone' => FailedGone'
  BY <1>26 DEF Abort, AbandonCopy, PayloadDestroyed, Unsignalled, wire, backend, effects,
      reader, totals, client
<1>27. ASSUME Terminated PROVE Alone' => FailedGone'
  BY <1>27 DEF Terminated, vars, client, wire, backend, effects, totals, reader
<1>28. QED
  BY <1>1, <1>2, <1>3, <1>4, <1>5, <1>6, <1>7, <1>8, <1>9, <1>10, <1>11, <1>12, <1>13, <1>14,
     <1>15, <1>16, <1>17, <1>18, <1>19, <1>20, <1>21, <1>22, <1>23, <1>24, <1>25, <1>26, <1>27 DEF
      Next, Client, Backend, CopyBlock, Generator, Copying

-----------------------------------------------------------------------------
(* When a step reports its operation as completed, its effect is permanent *)
(* or in the open transaction, out of reach of the savepoint.              *)
LEMMA CompletesKept ==
  ASSUME TypeOK, WireInv, PathInv, SessionInv, EffectsInv, OperationStep, Alone
  PROVE  completed' = completed \/ op \in Control \/ opNumber \in kept \cup pending
<1> USE DEF EffectsInv, Placed, SessionInv, Blocks, DuringOperation, Effects
<1>1. CASE Protect
  BY <1>1 DEF Protect, Guarded, StartOperation, OperationFails, RowsWithoutCurrent, Throw,
      Goto
<1>2. CASE Savepoint
  BY <1>2 DEF Savepoint, Settled, StartOperation, OperationFails, RowsWithoutCurrent, Throw,
      Goto
<1>3. CASE Exec
  BY <1>3 DEF Exec, Settled, AfterOperation, OperationCompletes, OperationFails,
      RowsWithoutCurrent, Throw, Goto, Ready, PathInv, WireInv
<1>4. CASE Copied
  BY <1>4 DEF Copied, Settled, AfterOperation, OperationCompletes, OperationFails,
      RowsWithoutCurrent, Throw, Goto, Ready, PathInv, WireInv
<1>5. CASE Release
  BY <1>5 DEF Release, Settled, OperationCompletes, OperationFails, RowsWithoutCurrent, Throw,
      Goto, Bare
<1>6. QED
  BY <1>1, <1>2, <1>3, <1>4, <1>5 DEF OperationStep

(* A step that settles no operation reports no more and no fewer ...       *)
LEMMA ReportedStays ==
  ASSUME UNCHANGED <<script, completed, failed>>
  PROVE  Reported' = Reported /\ ControlFailed' = ControlFailed
  BY DEF Reported, DataIn, ControlFailed

(* ... and neither does reading the next one.                              *)
LEMMA ReportedRead ==
  ASSUME TypeOK, ReadOperation
  PROVE  Reported' = Reported /\ (ControlFailed => ControlFailed')
<1>1. /\ opNumber' = opNumber + 1 /\ script' = Append(script, op') /\ op' \in Kinds
      /\ UNCHANGED <<completed, failed>>
  BY DEF ReadOperation, CountOperation
<1>2. /\ opNumber \in Nat /\ script \in [1..opNumber -> Kinds]
      /\ completed \subseteq 1..opNumber /\ failed \subseteq 1..opNumber
  BY DEF TypeOK, BackendType, ClientType
<1>3. \A n \in 1..opNumber : script'[n] = script[n]
  BY <1>1, <1>2, Appended
<1>4. QED
  BY <1>1, <1>2, <1>3 DEF Reported, DataIn, ControlFailed

(* A statement cut off by the signal ends the restore, and a transaction   *)
(* statement that errs is recorded as failed.                              *)
LEMMA OperationErrs ==
  ASSUME TypeOK, WireInv, PathInv, OperationStep, Active, opNumber # 0, script[opNumber] = op
  PROVE  /\ reply = "rejected" => Ended'
         /\ pc = "exec" /\ reply = "error" /\ op \in Control => Ended' \/ ControlFailed'
<1>1. reply = "rejected" => aborted /\ pc \in {"savepoint", "exec", "copy", "release"}
  BY DEF WireInv, OperationStep, Protect, Asking, Active
<1>2. reply = "rejected" => pc' = "cleanup"
  BY <1>1 DEF OperationStep, Protect, Savepoint, Exec, Copied, Release, Settled,
      OperationFails, RowsWithoutCurrent, Throw, Goto
<1>3. pc = "exec" /\ reply = "error" => pc' = "cleanup" \/ opNumber \in failed'
  BY DEF OperationStep, Protect, Savepoint, Exec, Copied, Release, Settled, OperationFails,
      RowsWithoutCurrent, Throw, Goto
<1>4. UNCHANGED <<script, op>>
  BY Operated
<1>5. QED
  BY <1>2, <1>3, <1>4 DEF Ended, ControlFailed

(* What was reported as completed stays permanent or in the open           *)
(* transaction, unless a transaction statement failed.                     *)
LEMMA ReportedNext ==
  ASSUME TypeOK, WireInv, PathInv, SessionInv, Settling, EffectsInv, Next
  PROVE  Alone' => ReportedKept'
<1> USE DEF EffectsInv, ReportedKept, Alone
<1>1. ASSUME Acquire PROVE Alone' => ReportedKept'
  BY <1>1, ReportedStays DEF Acquire, Goto, Ended, Resolved, WireInv, Asking, Unsignalled,
      wire, backend, effects, reader, totals, client
<1>2. ASSUME Connect PROVE Alone' => ReportedKept'
  BY <1>2, ReportedStays DEF Connect, Goto, Throw, Ended, Resolved, WireInv, Asking,
      Unsignalled, wire, backend, effects, reader, totals, client
<1>3. ASSUME Loop PROVE Alone' => ReportedKept'
  BY <1>3, ReportedStays DEF Loop, Goto, Throw, Ended, Resolved, WireInv, Asking, Unsignalled,
      wire, backend, effects, reader, totals, client
<1>4. ASSUME ReadOperation PROVE Alone' => ReportedKept'
  BY <1>4, ReportedRead DEF ReadOperation, CountOperation, NewPayload, Goto, Ended, Resolved,
      wire, backend, effects, reader, totals, client
<1>5. ASSUME ReadEnd PROVE Alone' => ReportedKept'
  BY <1>5, ReportedStays DEF ReadEnd, Goto, Throw, Status, Ended, Resolved, WireInv, Asking,
      Unsignalled, wire, backend, effects, reader, totals, client
<1>6. ASSUME ReadFails PROVE Alone' => ReportedKept'
  BY <1>6, ReportedStays DEF ReadFails, Throw, Ended, Resolved, WireInv, Asking, Unsignalled,
      wire, backend, effects, reader, totals, client
<1>7. ASSUME Protect \/ Savepoint \/ Exec \/ Copied \/ Release PROVE Alone' => ReportedKept'
  <2>1. OperationStep
    BY <1>7 DEF OperationStep
  <2>2. /\ Active /\ UNCHANGED <<opNumber, op, script, outcome, effects, up, entry>>
        /\ completed' \in {completed, completed \cup {opNumber}} /\ failed \subseteq failed'
        /\ (~Ended' => ~Ended) /\ ~Resolved'
        /\ ~(pc' = "exec" /\ reply' = "error")
    <3>1. ~(pc' = "exec" /\ reply' = "error")
      BY <2>1 DEF OperationStep, Protect, Savepoint, Exec, Copied, Release, Settled, wire,
          WireInv, Asking, StartOperation, AfterOperation, OperationCompletes, OperationFails,
          RowsWithoutCurrent, Throw, Goto
    <3>2. QED
      BY <2>1, <3>1, Operated DEF backend, Unsettled, Active, Ended, Resolved, WireInv
  <2>3. opNumber # 0 /\ script[opNumber] = op
    BY <2>2 DEF PathInv
  <2>4. Alone /\ ~Ended' => reply # "rejected"
    BY <2>1, <2>2, <2>3, OperationErrs
  <2>5. ControlFailed => ControlFailed'
    BY <2>2 DEF ControlFailed
  <2>6. Alone
          /\ Reported \subseteq kept \cup pending => Reported' \subseteq kept' \cup pending'
    BY <2>1, <2>2, <2>3, CompletesKept DEF Reported, DataIn, effects
  <2>7. QED
    BY <2>1, <2>2, <2>3, <2>4, <2>5, <2>6, OperationErrs
<1>8. ASSUME Ask PROVE Alone' => ReportedKept'
  BY <1>8, ReportedStays DEF Ask, Send, Ended, Resolved, WireInv, Asking, Unsignalled, wire,
      backend, effects, reader, totals, client
<1>9. ASSUME AskCopy PROVE Alone' => ReportedKept'
  BY <1>9, ReportedStays DEF AskCopy, OpenCopy, Ended, Resolved, WireInv, Asking, Unsignalled,
      wire, backend, effects, reader, totals, client
<1>10. ASSUME Discard PROVE Alone' => ReportedKept'
  BY <1>10, ReportedStays DEF Discard, PayloadLeft, Line, Marker, End, Throw, Goto, Ended,
      Resolved, WireInv, Asking, Unsignalled, wire, backend, effects, reader, totals, client
<1>11. ASSUME Recover PROVE Alone' => ReportedKept'
  BY <1>11, ReportedStays DEF Recover, Throw, Goto, Ended, Resolved, WireInv, Asking,
      Unsignalled, wire, backend, effects, reader, totals, client
<1>12. ASSUME RollbackTo PROVE Alone' => ReportedKept'
  BY <1>12, ReportedStays DEF RollbackTo, Recovering, Settled, Goto, Throw, Ended, Resolved,
      WireInv, Asking, Unsignalled, wire, backend, effects, reader, totals, client
<1>13. ASSUME ReleaseAfter PROVE Alone' => ReportedKept'
  BY <1>13, ReportedStays DEF ReleaseAfter, Recovering, Settled, Goto, Throw, Ended, Resolved,
      WireInv, Asking, Unsignalled, wire, backend, effects, reader, totals, client
<1>14. ASSUME Undo PROVE Alone' => ReportedKept'
  BY <1>14, ReportedStays DEF Undo, Recovering, Settled, Goto, Throw, Ended, Resolved,
      WireInv, Asking, Unsignalled, wire, backend, effects, reader, totals, client
<1>15. ASSUME Cleanup PROVE Alone' => ReportedKept'
  BY <1>15, ReportedStays DEF Cleanup, MustRollBack, Goto, Finish, Ended, Resolved, WireInv,
      Asking, Unsignalled, wire, backend, effects, reader, totals, client
<1>16. ASSUME Rollback PROVE Alone' => ReportedKept'
  BY <1>16, ReportedStays DEF Rollback, Finish, Ended, Resolved, WireInv, Asking, Unsignalled,
      wire, backend, effects, reader, totals, client
<1>17. ASSUME Close PROVE Alone' => ReportedKept'
  BY <1>17, ReportedStays DEF Close, Reading, Goto, Ended, Resolved, WireInv, Asking,
      Unsignalled, wire, backend, effects, reader, totals, client
<1>18. ASSUME Serve, UNCHANGED <<client, reader, totals>> PROVE Alone' => ReportedKept'
  <2>1. /\ sent # "none" /\ reply = "none" /\ sent = Text(pc) /\ pc \in Asking
        /\ UNCHANGED <<pc, outcome, opt, op, opNumber, usedSavepoint>> /\ (Alone' => Alone)
        /\ UNCHANGED <<script, completed, failed>> /\ reply' # "rejected"
    BY <1>18, Served DEF client, WireInv
  <2>2. Reported' = Reported /\ ControlFailed' = ControlFailed /\ Ended' = Ended
        /\ ~Resolved /\ ~Resolved'
    BY <2>1, ReportedStays DEF Ended, WireInv, Resolved, Asking
  <2>3. sent \notin Ending => kept \cup pending \subseteq kept' \cup pending'
    BY <1>18, Served DEF Ending, EndBlock, SetSavepoint, ReleaseSavepoint,
        RollbackToSavepoint, Applied, effects
  <2>a. Alone /\ ~Ended => ControlFailed \/ Reported \subseteq kept \cup pending
    BY <2>1
  <2>4. CASE pc = "exec" /\ sent \in {"COMMIT", "END"}
    <3>1. op \in Control /\ ~usedSavepoint
      BY <2>1, <2>4 DEF Text, Control, PathInv, Guarded
    <3>2. Alone => tx # "failed" /\ (tx = "idle" => pending = {})
      BY <2>1, <2>4, <3>1 DEF SessionInv, DuringOperation, Ready, Blocks
    <3>3. Alone /\ reply' = "ok" => kept \cup pending \subseteq kept' \cup pending'
      BY <1>18, <2>4, <3>2, Served DEF TypeOK, BackendType, BackendTx, EndBlock, SetSavepoint,
          ReleaseSavepoint, RollbackToSavepoint, Applied, effects
    <3>4. reply' \in {"ok", "error"}
      BY <1>18, Served
    <3>5. QED
      BY <2>1, <2>2, <2>a, <2>4, <3>1, <3>3, <3>4
  <2>5. CASE pc = "undo"
    <3>1. Alone => ControlFailed \/ pending = {}
      <4>1. CASE op \in Control
        <5>1. opNumber \in failed /\ script[opNumber] = op
          BY <2>5 DEF PathInv, TypeOK, BackendType, ClientType
        <5>2. QED
          BY <4>1, <5>1 DEF ControlFailed
      <4>2. CASE op \notin Control
        <5>1. Alone => Outside
          BY <2>1, <2>5, <4>2 DEF PathInv, Guarded, SessionInv, DuringOperation
        <5>2. QED
          BY <2>1, <2>5, <5>1 DEF SessionInv, Blocks, Cut, Ended
      <4>3. QED
        BY <4>1, <4>2
    <3>2. kept \subseteq kept'
      BY <1>18, Served DEF EndBlock, SetSavepoint, ReleaseSavepoint, RollbackToSavepoint,
          Applied, effects
    <3>3. QED
      BY <2>1, <2>2, <2>5, <3>1, <3>2 DEF Ended
  <2>6. CASE sent \notin Ending
    BY <2>1, <2>2, <2>3, <2>a, <2>6
  <2>7. CASE pc = "rollback"
    BY <2>1, <2>2, <2>7 DEF Ended, Resolved
  <2>8. sent \in Ending => pc \in {"exec", "undo", "rollback"}
    BY <2>1 DEF Text, Asking, Ending
  <2>9. pc = "exec" /\ sent \in Ending => sent \in {"COMMIT", "END"}
    BY <2>1 DEF Text, Ending, TypeOK, BackendType, DumpStatements
  <2>10. QED
    BY <2>4, <2>5, <2>6, <2>7, <2>8, <2>9
<1>19. ASSUME ServeOrphan, UNCHANGED <<client, reader, totals>> PROVE Alone' => ReportedKept'
  <2>1. UNCHANGED <<pc, reply, outcome>> /\ ~((~Ended /\ reply # "rejected") \/ Resolved)
    BY <1>19, OrphanServed DEF client, Cut, WireInv, Resolved
  <2>2. QED
    BY <2>1 DEF Ended, Resolved
<1>20. ASSUME Unreachable, UNCHANGED <<client, reader, totals>> PROVE Alone' => ReportedKept'
  BY <1>20, ReportedStays DEF Unreachable, AfterError, Ended, Resolved, client, WireInv,
      reader, totals, backend, effects
<1>21. ASSUME GenStart \/ GenRead \/ GenResume \/ GenClose \/ MonitorThrows, UNCHANGED
             client
      PROVE Alone' => ReportedKept'
  BY <1>21, ReaderSteps, ReportedStays DEF client, wire, backend, effects, Ended, Resolved,
      totals, reader
<1>22. ASSUME ServerRejectsCopy, UNCHANGED client PROVE Alone' => ReportedKept'
  <2>1. /\ UNCHANGED <<pc, op, opNumber, outcome, kept, pending>> /\ (Alone' => Alone)
             /\ copy # "none"
        /\ UNCHANGED <<script, completed, failed>>
    BY <1>22 DEF ServerRejectsCopy, client, effects
  <2>2. ~Resolved /\ ~Resolved'
    BY <2>1 DEF WireInv, Resolved
  <2>3. reply = "rejected" => reply' = "rejected" \/ Ended
    BY <1>22 DEF ServerRejectsCopy, CopyFailed, Abandoned, WireInv, TypeOK, BackendType
  <2>4. pc # "exec"
    BY <2>1 DEF PathInv
  <2>5. QED
    BY <2>1, <2>2, <2>3, <2>4, ReportedStays DEF Ended
<1>23. ASSUME ServerCompletesCopy, UNCHANGED client PROVE Alone' => ReportedKept'
  <2>1. /\ UNCHANGED <<pc, op, opNumber, outcome>> /\ (Alone' => Alone) /\ copy # "none"
        /\ UNCHANGED <<script, completed, failed>>
             /\ kept \cup pending \subseteq kept' \cup pending'
    BY <1>23 DEF ServerCompletesCopy, client, Applied
  <2>2. ~Resolved /\ ~Resolved'
    BY <2>1 DEF WireInv, Resolved
  <2>3. reply = "rejected" => reply' = "rejected"
    BY <1>23 DEF ServerCompletesCopy, WireInv
  <2>4. pc # "exec"
    BY <2>1 DEF PathInv
  <2>5. QED
    BY <2>1, <2>2, <2>3, <2>4, ReportedStays DEF Ended
<1>24. ASSUME CopyUnreachable, UNCHANGED client PROVE Alone' => ReportedKept'
  BY <1>24, ReportedStays DEF CopyUnreachable, CopyFailed, Abandoned, PayloadDestroyed,
      AfterError, Ended, Resolved, client, WireInv, wire, backend, effects, totals, reader
<1>25. ASSUME LoseConnection PROVE Alone' => ReportedKept'
  BY <1>25, ReportedStays DEF LoseConnection, Ended, Resolved, client, WireInv, wire, backend,
      effects, reader, totals
<1>26. ASSUME Abort PROVE Alone' => ReportedKept'
  BY <1>26, ReportedStays DEF Abort, AbandonCopy, PayloadDestroyed, Unsignalled, Ended,
      Resolved, client, WireInv, wire, backend, effects, reader, totals
<1>27. ASSUME Terminated PROVE Alone' => ReportedKept'
  BY <1>27, ReportedStays DEF Terminated, vars, Ended, Resolved, client, WireInv, wire,
      backend, effects, totals, reader
<1>28. QED
  BY <1>1, <1>2, <1>3, <1>4, <1>5, <1>6, <1>7, <1>8, <1>9, <1>10, <1>11, <1>12, <1>13, <1>14,
     <1>15, <1>16, <1>17, <1>18, <1>19, <1>20, <1>21, <1>22, <1>23, <1>24, <1>25, <1>26, <1>27 DEF
      Next, Client, Backend, CopyBlock, Generator, Copying

-----------------------------------------------------------------------------
(* Inv holds before the restore starts ...                                 *)
LEMMA InvInit == Init => Inv
<1> SUFFICES ASSUME Init PROVE Inv
  OBVIOUS
<1>1. /\ pc = "acquire" /\ op = "none" /\ opNumber = 0 /\ script = <<>> /\ completed = {}
      /\ failed = {} /\ late = {} /\ counted = {} /\ rowsOf = {} /\ cause = "none"
      /\ outcome = "running" /\ ~aborted /\ sent = "none" /\ reply = "none"
      /\ orphan = "none" /\ copy = "none" /\ ~savepoint /\ inner = {} /\ pending = {}
      /\ kept = {} /\ gen = "none" /\ ~activeCopy /\ ~copyPayloadPending /\ ~usedSavepoint
  BY DEF Init
<1>2. tx \in BackendTx /\ entry = tx /\ (tx = "idle" => tracked \in {"idle", "unknown"})
      /\ tracked \in TrackedTx
  BY EntriesAssumption DEF Init, BackendTx, TrackedFor, TrackedTx
<1>3. TypeOK
  <2>1. BackendType
    <3>1. /\ opNumber \in Nat /\ op = "none" /\ aborted = FALSE /\ up = TRUE
               /\ savepoint = FALSE
          /\ entry \in BackendTx /\ sent = "none" /\ orphan = "none" /\ reply = "none"
          /\ copy = "none" /\ inner = {} /\ pending = {} /\ kept = {}
      BY <1>2 DEF Init
    <3>2. QED
      BY <1>2, <3>1 DEF BackendType
  <2>2. CopyType
    <3>1. /\ gen = "none" /\ activeCopy = FALSE /\ copyPayloadPending = FALSE /\ ended = FALSE
          /\ lines = 0 /\ counted = {} /\ rowsOf = {}
      BY DEF Init
    <3>2. lines \in 0..MaxLines
      BY <3>1, MaxLinesAssumption
    <3>3. QED
      BY <3>1, <3>2 DEF CopyType, Generators
  <2>3. ClientType
    <3>1. /\ opt \in [stopOnError : BOOLEAN, rollbackOnError : BOOLEAN]
          /\ usedSavepoint = FALSE
      <4>1. opt \in [stopOnError : BOOLEAN, rollbackOnError : {TRUE}] /\ usedSavepoint = FALSE
        BY DEF Init
      <4>2. QED
        BY <4>1
    <3>2. opNumber <= MaxOps /\ script \in [1..opNumber -> Kinds]
      <4>1. script \in [1..0 -> Kinds]
        BY <1>1
      <4>2. QED
        BY <1>1, <4>1, MaxOpsAssumption
    <3>3. pc \in Points /\ cause \in Causes /\ outcome \in Outcomes
      BY <1>1 DEF Points, Causes, Outcomes
    <3>4. QED
      BY <1>1, <3>1, <3>2, <3>3 DEF ClientType
  <2>4. QED
    BY <2>1, <2>2, <2>3 DEF TypeOK
<1>4. WireInv
  BY <1>1 DEF WireInv
<1>5. PathInv
  BY <1>1 DEF PathInv, Active
<1>6. PayloadInv
  BY <1>1 DEF PayloadInv
<1>7. SessionInv
  BY <1>1, <1>2 DEF SessionInv, Alone, Blocks, BeforeOperation, DuringOperation, Recovery,
      Ready, Known, Outside
<1>8. CauseInv
  BY <1>1 DEF CauseInv
<1>9. ReportInv
  BY <1>1 DEF ReportInv, Settling, Counting, Active, Ended, Resolved, Restored, DataIn
<1>10. EffectsInv
  BY <1>1 DEF EffectsInv, Placed, FailedGone, ReportedKept, Reported, DataIn, Effects
<1>11. QED
  BY <1>3, <1>4, <1>5, <1>6, <1>7, <1>8, <1>9, <1>10 DEF Inv

(* ... and is kept by every step.                                          *)
LEMMA InvNext == Inv /\ [Next]_vars => Inv'
<1> SUFFICES ASSUME Inv, [Next]_vars PROVE Inv'
  OBVIOUS
<1>1. CASE Next
  <2>1. TypeOK' /\ WireInv' /\ PathInv' /\ PayloadInv'
    BY <1>1, TypeNext, WireNext, PathNext, PayloadNext DEF Inv
  <2>2. SessionInv'
    BY <1>1, BlocksNext, BeforeNext, DuringNext, RecoveryNext DEF Inv, SessionInv
  <2>3. CauseInv' /\ Settling' /\ Counting'
    BY <1>1, CauseNext, SettlingNext, CountingNext DEF Inv, ReportInv
  <2>4. EffectsInv'
    BY <1>1, PlacedNext, FailedGoneNext, ReportedNext DEF Inv, ReportInv, EffectsInv
  <2>5. QED
    BY <2>1, <2>2, <2>3, <2>4 DEF Inv, ReportInv
<1>2. CASE UNCHANGED vars
  <2> USE <1>2 DEF vars, client, wire, backend, effects, reader, totals
  <2>1. TypeOK'
    BY DEF Inv, TypeOK, BackendType, CopyType, ClientType
  <2>2. WireInv' /\ PathInv' /\ PayloadInv'
    <3>1. WireInv'
      BY DEF Inv, WireInv, Cut, Ended, Text
    <3>2. PathInv'
      BY DEF Inv, PathInv, Active, Guarded
    <3>3. PayloadInv'
      BY DEF Inv, PayloadInv
    <3>4. QED
      BY <3>1, <3>2, <3>3
  <2>3. Untracked' = Untracked
    BY DEF Untracked, Uses
  <2>4. SessionInv'
    BY <2>3 DEF Inv, SessionInv, Alone, Blocks, BeforeOperation, DuringOperation, Recovery,
        Ready, Known, Outside, Covered, Bare, Cut, Ended, Guarded, Resolved
  <2>5. CauseInv'
    BY <2>3 DEF Inv, CauseInv, Alone
  <2>6. Settling'
    BY DEF Inv, ReportInv, Settling, Active, Ended, Resolved, Status
  <2>7. Counting'
    BY RestoredKept DEF Inv, ReportInv, Counting
  <2>8. EffectsInv'
    BY ReportedStays DEF Inv, EffectsInv, Alone, Placed, FailedGone, ReportedKept, Effects,
        Ended, Resolved
  <2>9. QED
    BY <2>1, <2>2, <2>4, <2>5, <2>6, <2>7, <2>8 DEF Inv, ReportInv
<1>3. QED
  BY <1>1, <1>2

(* Inv is an invariant of the restore.                                     *)
THEOREM Invariance == Spec => []Inv
  BY InvInit, InvNext, PTL DEF Spec

-----------------------------------------------------------------------------
(* Every variable keeps its type: in particular all counters of the result *)
(* name operations that were read.                                         *)
THEOREM TypeCorrect == Spec => []TypeOK
<1>1. Inv => TypeOK
  BY DEF Inv
<1>2. QED
  BY <1>1, Invariance, PTL

(* On failure or cancellation restoreSqlDump leaves no transaction open on *)
(* a caller's connection, wherever it failed and whenever the signal fired *)
(* (but for a BEGIN on the wire).                                          *)
THEOREM TransactionEnded == Spec => []NoTransactionLeft
<1>1. Inv => NoTransactionLeft
  BY DEF Inv, SessionInv, Alone, Blocks, Recovery, Outside, Cut, NoTransactionLeft, Quiet
<1>2. QED
  BY <1>1, Invariance, PTL

(* Each turn of the loop finds a block the next operation can run in: the  *)
(* recovery of the failed operation before it was complete.                *)
THEOREM Usable == Spec => []SessionUsable
<1>1. Inv => SessionUsable
  BY DEF Inv, SessionInv, Alone, BeforeOperation, Ready, Known, Untracked, SessionUsable,
      TrackedFor
<1>2. QED
  BY <1>1, Invariance, PTL

(* The result is what the backend did: failed operations left nothing      *)
(* behind, and a restore that resolves has lost none of those it reports   *)
(* as completed.                                                           *)
THEOREM Reports == Spec => []EffectsAsReported
<1> SUFFICES ASSUME Inv, Quiet, entry = "idle"
             PROVE  /\ (failed \ late) \cap (inner \cup pending \cup kept) = {}
                    /\ Resolved /\ (\A n \in failed : script[n] \notin Control)
                         => DataIn(completed) \subseteq kept \cup pending
  BY Invariance, PTL DEF EffectsAsReported
<1>1. FailedGone /\ ReportedKept /\ pc = "done"
  BY DEF Inv, EffectsInv, Alone, Quiet
<1>2. QED
  BY <1>1 DEF FailedGone, Effects, ReportedKept, ControlFailed, Reported

(* With stopOnError off, an execution error alone never ends a restore on  *)
(* a connection that lives.                                                *)
THEOREM Continues == Spec => []ContinuesPastErrors
<1>1. Inv => ContinuesPastErrors
  BY DEF Inv, TypeOK, ClientType, Causes, CauseInv, Alone, Untracked, ContinuesPastErrors
<1>2. QED
  BY <1>1, Invariance, PTL

(* rowsRestored counts exactly the operations that completed and did not   *)
(* fail, and copyBytesWritten every COPY that completed.                   *)
THEOREM TotalsMatch == Spec => []TotalsMatchReport
<1>1. Inv => TotalsMatchReport
  BY DEF Inv, ReportInv, Counting, Restored, TotalsMatchReport
<1>2. QED
  BY <1>1, Invariance, PTL

-----------------------------------------------------------------------------
(* The restore starts as its contract does.                                *)
LEMMA ContractInit == Init => Contract!Init
  BY DEF Init, Contract!Init

(* A step that reads no operation and settles none.                        *)
Same == UNCHANGED <<opNumber, completed, failed, outcome>>
  /\ opt'.stopOnError = opt.stopOnError

(* A step that settles nothing and does not end the restore is a stutter   *)
(* of the contract.                                                        *)
LEMMA Idle ==
  ASSUME Inv, Same, pc' = pc \/ (pc # "done" /\ pc' # "done")
  PROVE  UNCHANGED Contract!vars
  BY DEF Same, Contract!vars

(* Every step of the restore is a step of the contract or a stutter:       *)
(* ReadOperation takes, a step of an operation completes or fails it, and  *)
(* Close resolves or rejects.                                              *)
LEMMA ContractNext == Inv /\ [Next]_vars => [Contract!Next]_(Contract!vars)
<1> SUFFICES ASSUME Inv, [Next]_vars PROVE [Contract!Next]_(Contract!vars)
  OBVIOUS
<1> USE DEF Inv, ReportInv
<1>1. CASE ReadOperation
  <2>1. /\ pc = "reading" /\ pc' = "protect" /\ opNumber' = opNumber + 1
        /\ UNCHANGED <<opt, completed, failed, outcome>>
    BY <1>1 DEF ReadOperation, CountOperation, Goto
  <2>2. completed \cup failed = 1..opNumber /\ (opt.stopOnError => failed = {})
    BY <2>1 DEF Settling, Active, Ended
  <2>3. Contract!Take
    BY <2>1, <2>2 DEF Contract!Take, Contract!MayGoOn, Contract!Settled
  <2>4. QED
    BY <2>3 DEF Contract!Next
<1>2. CASE OperationStep
  <2>1. /\ Active /\ UNCHANGED <<opNumber, opt, outcome>> /\ pc # "done" /\ pc' # "done"
        /\ opNumber \notin completed \cup failed /\ opNumber \in 1..opNumber
        /\ completed \cup failed = 1..(opNumber - 1)
    BY <1>2, Operated, AtOperation DEF Active, Settling
  <2>2. (completed \ failed) \cup failed # 1..opNumber
    BY <2>1
  <2>3. CASE Unsettled
    BY <2>1, <2>3 DEF Unsettled, Contract!vars
  <2>4. CASE completed' = completed \cup {opNumber} /\ failed' = failed
    <3>1. completed' \ failed' = (completed \ failed) \cup {opNumber}
      BY <2>1, <2>4
    <3>2. Contract!Complete
      BY <2>1, <2>2, <2>4, <3>1 DEF Contract!Complete, Contract!Settled
    <3>3. QED
      BY <3>2 DEF Contract!Next
  <2>5. CASE completed' \in {completed, completed \cup {opNumber}}
               /\ failed' = failed \cup {opNumber}
    <3>1. completed' \ failed' = completed \ failed
      BY <2>1, <2>5
    <3>2. Contract!Fail
      BY <2>1, <2>2, <2>5, <3>1 DEF Contract!Fail, Contract!Settled
    <3>3. QED
      BY <3>2 DEF Contract!Next
  <2>6. QED
    BY <1>2, <2>3, <2>4, <2>5, Operated DEF Unsettled
<1>3. CASE Close
  <2>1. /\ pc = "closing" /\ pc' = "done" /\ outcome # "running"
        /\ UNCHANGED <<opNumber, opt, completed, failed, outcome>>
    BY <1>3 DEF Close, Goto, CauseInv
  <2>2. CASE Resolved
    <3>1. /\ completed \cup failed = 1..opNumber /\ (opt.stopOnError => failed = {})
          /\ outcome = IF failed = {} THEN "success" ELSE "completed-with-errors"
      BY <2>1, <2>2 DEF Settling, Active, Ended, Status
    <3>2. Contract!Resolve
      BY <2>1, <3>1 DEF Contract!Resolve, Contract!MayGoOn, Contract!Settled
    <3>3. QED
      BY <3>2 DEF Contract!Next
  <2>3. CASE ~Resolved
    <3>1. outcome \in {"cancelled", "failed"}
      BY <2>1, <2>3 DEF TypeOK, ClientType, Outcomes, Resolved
    <3>2. Contract!Reject
      BY <2>1, <3>1 DEF Contract!Reject
    <3>3. QED
      BY <3>2 DEF Contract!Next
  <2>4. QED
    BY <2>2, <2>3
<1>4. CASE Acquire \/ Connect \/ ReadEnd \/ Cleanup \/ Rollback
  <2>1. /\ UNCHANGED <<opNumber, completed, failed>> /\ opt'.stopOnError = opt.stopOnError
        /\ pc # "done" /\ pc' # "done"
    BY <1>4 DEF Acquire, Connect, ReadEnd, Cleanup, Rollback, Goto, Throw, Finish, TypeOK,
        ClientType
  <2>2. QED
    BY <2>1 DEF Contract!vars
<1>5. CASE \/ Loop \/ ReadFails \/ Ask \/ AskCopy \/ Discard \/ Recover \/ RollbackTo
           \/ ReleaseAfter \/ Undo
  <2>1. Same /\ (pc' = pc \/ (pc # "done" /\ pc' # "done"))
    BY <1>5 DEF Same, Loop, ReadFails, Ask, AskCopy, Discard, Recover, RollbackTo,
        ReleaseAfter, Undo, Recovering, Settled, Goto, Throw, client
  <2>2. QED
    BY <2>1, Idle
<1>6. CASE Backend \/ CopyBlock \/ LoseConnection \/ Abort \/ Terminated
  BY <1>6, Elsewhere, Idle DEF Same, client
<1>7. CASE UNCHANGED vars
  BY <1>7, Idle DEF Same, vars, client
<1>8. QED
  BY <1>1, <1>2, <1>3, <1>4, <1>5, <1>6, <1>7 DEF Next, Client, OperationStep

(* The restore implements RestoreContract without its fairness: every      *)
(* operation is settled once, in order, before the next is taken, and the  *)
(* promise settles with the status its failures call for.                  *)
THEOREM Implements == Spec => Contract!Init /\ [][Contract!Next]_(Contract!vars)
  BY ContractInit, ContractNext, Invariance, PTL DEF Spec
=============================================================================
