------------------------- MODULE DumpSessionProofs -------------------------
(***************************************************************************)
(* Proofs about DumpSession, for every bound on the work: its inductive    *)
(* invariant Inv is preserved by each action (one lemma per action, one    *)
(* step per conjunct), and the safety properties follow from it.           *)
(***************************************************************************)
EXTENDS DumpSession, TLAPS

LEMMA InitInv == Init => Inv
<1> SUFFICES ASSUME Init PROVE Inv
  OBVIOUS
<1>1. TypeOK
  <2>1. ClientType
    <3>1. 0 \in 0..MaxWork /\ 0 \in 0..1
      BY MaxWorkAssumption
    <3>2. QED
      BY <3>1 DEF Init, ClientType, Points, Failures
  <2>2. WireType
    BY DEF Init, WireType, Replies
  <2>3. tracked \in TrackedTx
    BY DEF Init, BackendTx, TrackedTx, TrackedFor
  <2>4. BackendType
    BY <2>3 DEF Init, BackendType
  <2>5. QED
    BY <2>1, <2>2, <2>4 DEF TypeOK
<1>2. WireInv /\ RunningInv /\ ClosedInv /\ OutcomeInv
  BY DEF Init, WireInv, RunningInv, Running, ClosedInv, Held, OutcomeInv, Unsignalled
<1>3. OwnerInv
  BY DEF Init, OwnerInv, TrackedFor, BackendTx
<1>4. QED
  BY <1>1, <1>2, <1>3 DEF Inv

-----------------------------------------------------------------------------
LEMMA AcquireStep == ASSUME Inv, Acquire PROVE Inv'
<1> USE DEF client, wire, backend, Acquire
<1>1. ClientType'
  BY DEF Inv, TypeOK, ClientType, Points, Asking, Failures
<1>2. WireType'
  BY DEF Inv, TypeOK, ClientType, WireType, Statements, Replies, Asking
<1>3. BackendType'
  BY DEF Inv, TypeOK, BackendType
<1>4. WireInv'
  BY DEF Inv, TypeOK, ClientType, WireType, BackendType, WireInv, Asking, Unsignalled, Text
<1>5. OwnerInv'
  BY DEF Inv, TypeOK, WireInv, OwnerInv, Owned, RunningInv, Running
<1>6. RunningInv'
  BY DEF Inv, WireInv, OwnerInv, Owned, RunningInv, Running, Unsignalled
<1>7. ClosedInv'
  BY DEF Inv, WireInv, OwnerInv, RunningInv, Running, ClosedInv, Held, Unsignalled
<1>8. OutcomeInv'
  BY DEF Inv, WireInv, RunningInv, OwnerInv, OutcomeInv, Running, Asking
<1>9. QED
  BY <1>1, <1>2, <1>3, <1>4, <1>5, <1>6, <1>7, <1>8 DEF Inv, TypeOK

LEMMA ConnectStep == ASSUME Inv, Connect PROVE Inv'
<1> USE DEF client, wire, backend, Connect, Classified
<1>1. ClientType'
  BY DEF Inv, TypeOK, ClientType, Points, Asking, Failures
<1>2. WireType'
  BY DEF Inv, TypeOK, ClientType, WireType, Statements, Replies, Asking
<1>3. BackendType'
  BY DEF Inv, TypeOK, BackendType
<1>4. WireInv'
  BY DEF Inv, TypeOK, ClientType, WireType, BackendType, WireInv, Asking, Unsignalled, Text
<1>5. OwnerInv'
  BY DEF Inv, TypeOK, WireInv, OwnerInv, Owned, RunningInv, Running
<1>6. RunningInv'
  BY DEF Inv, WireInv, OwnerInv, Owned, RunningInv, Running, Unsignalled
<1>7. ClosedInv'
  BY DEF Inv, WireInv, OwnerInv, RunningInv, Running, ClosedInv, Held, Unsignalled
<1>8. OutcomeInv'
  BY DEF Inv, WireInv, RunningInv, OwnerInv, OutcomeInv, Running, Asking
<1>9. QED
  BY <1>1, <1>2, <1>3, <1>4, <1>5, <1>6, <1>7, <1>8 DEF Inv, TypeOK

LEMMA AskStep == ASSUME Inv, Ask PROVE Inv'
<1> USE DEF client, wire, backend, Ask, Send, Text
<1>1. ClientType'
  BY DEF Inv, TypeOK, ClientType, Points, Asking, Failures
<1>2. WireType'
  BY DEF Inv, TypeOK, ClientType, WireType, Statements, Replies, Asking
<1>3. BackendType'
  BY DEF Inv, TypeOK, BackendType
<1>4. WireInv'
  BY DEF Inv, TypeOK, ClientType, WireType, BackendType, WireInv, Asking, Unsignalled, Text
<1>5. OwnerInv'
  BY DEF Inv, TypeOK, WireInv, OwnerInv, Owned, RunningInv, Running
<1>6. RunningInv'
  BY DEF Inv, WireInv, OwnerInv, Owned, RunningInv, Running, Unsignalled
<1>7. ClosedInv'
  BY DEF Inv, WireInv, OwnerInv, RunningInv, Running, ClosedInv, Held, Unsignalled
<1>8. OutcomeInv'
  BY DEF Inv, WireInv, RunningInv, OwnerInv, OutcomeInv, Running, Asking
<1>9. QED
  BY <1>1, <1>2, <1>3, <1>4, <1>5, <1>6, <1>7, <1>8 DEF Inv, TypeOK

LEMMA AskWorkStep == ASSUME Inv, AskWork PROVE Inv'
<1> USE DEF client, wire, backend, AskWork, Send, Text
<1>1. ClientType'
  BY MaxWorkAssumption DEF Inv, TypeOK, ClientType, Points, Asking, Failures
<1>2. WireType'
  BY DEF Inv, TypeOK, ClientType, WireType, Statements, Replies, Asking
<1>3. BackendType'
  BY DEF Inv, TypeOK, BackendType
<1>4. WireInv'
  BY DEF Inv, TypeOK, ClientType, WireType, BackendType, WireInv, Asking, Unsignalled, Text
<1>5. OwnerInv'
  BY DEF Inv, TypeOK, WireInv, OwnerInv, Owned, RunningInv, Running
<1>6. RunningInv'
  BY DEF Inv, WireInv, OwnerInv, Owned, RunningInv, Running, Unsignalled
<1>7. ClosedInv'
  BY DEF Inv, WireInv, OwnerInv, RunningInv, Running, ClosedInv, Held, Unsignalled
<1>8. OutcomeInv'
  BY DEF Inv, WireInv, RunningInv, OwnerInv, OutcomeInv, Running, Asking
<1>9. QED
  BY <1>1, <1>2, <1>3, <1>4, <1>5, <1>6, <1>7, <1>8 DEF Inv, TypeOK

LEMMA DetectVersionStep == ASSUME Inv, DetectVersion PROVE Inv'
<1> USE DEF client, wire, backend, DetectVersion, Settled, Classified
<1>1. ClientType'
  BY DEF Inv, TypeOK, ClientType, Points, Asking, Failures
<1>2. WireType'
  BY DEF Inv, TypeOK, ClientType, WireType, Statements, Replies, Asking
<1>3. BackendType'
  BY DEF Inv, TypeOK, BackendType
<1>4. WireInv'
  BY DEF Inv, TypeOK, ClientType, WireType, BackendType, WireInv, Asking, Unsignalled, Text
<1>5. OwnerInv'
  BY DEF Inv, TypeOK, WireInv, OwnerInv, Owned, RunningInv, Running
<1>6. RunningInv'
  BY DEF Inv, WireInv, OwnerInv, Owned, RunningInv, Running, Unsignalled
<1>7. ClosedInv'
  BY DEF Inv, WireInv, OwnerInv, RunningInv, Running, ClosedInv, Held, Unsignalled
<1>8. OutcomeInv'
  BY DEF Inv, WireInv, RunningInv, OwnerInv, OutcomeInv, Running, Asking
<1>9. QED
  BY <1>1, <1>2, <1>3, <1>4, <1>5, <1>6, <1>7, <1>8 DEF Inv, TypeOK

LEMMA CheckStatusStep == ASSUME Inv, CheckStatus PROVE Inv'
<1> USE DEF client, wire, backend, CheckStatus, Throw, CatchPoint, Classified, Refused
<1>1. ClientType'
  BY DEF Inv, TypeOK, ClientType, Points, Asking, Failures
<1>2. WireType'
  BY DEF Inv, TypeOK, ClientType, WireType, Statements, Replies, Asking
<1>3. BackendType'
  BY DEF Inv, TypeOK, BackendType
<1>4. WireInv'
  BY DEF Inv, TypeOK, ClientType, WireType, BackendType, WireInv, Asking, Unsignalled, Text
<1>5. OwnerInv'
  BY DEF Inv, TypeOK, WireInv, OwnerInv, Owned, RunningInv, Running, Text, Asking
<1>6. RunningInv'
  BY DEF Inv, WireInv, OwnerInv, Owned, RunningInv, Running, Unsignalled, Text, Asking
<1>7. ClosedInv'
  BY DEF Inv, WireInv, OwnerInv, RunningInv, Running, ClosedInv, Held, Unsignalled, Text,
      Asking
<1>8. OutcomeInv'
  BY DEF Inv, WireInv, RunningInv, OwnerInv, OutcomeInv, Running, Asking
<1>9. QED
  BY <1>1, <1>2, <1>3, <1>4, <1>5, <1>6, <1>7, <1>8 DEF Inv, TypeOK

LEMMA StartTransactionStep == ASSUME Inv, StartTransaction PROVE Inv'
<1> USE DEF client, wire, backend, StartTransaction, Settled
<1>1. ClientType'
  BY DEF Inv, TypeOK, ClientType, Points, Asking, Failures
<1>2. WireType'
  BY DEF Inv, TypeOK, ClientType, WireType, Statements, Replies, Asking
<1>3. BackendType'
  BY DEF Inv, TypeOK, BackendType
<1>4. WireInv'
  BY DEF Inv, TypeOK, ClientType, WireType, BackendType, WireInv, Asking, Unsignalled, Text
<1>5. OwnerInv'
  BY DEF Inv, TypeOK, WireInv, OwnerInv, Owned, RunningInv, Running
<1>6. RunningInv'
  BY DEF Inv, WireInv, OwnerInv, Owned, RunningInv, Running, Unsignalled
<1>7. ClosedInv'
  BY DEF Inv, WireInv, OwnerInv, RunningInv, Running, ClosedInv, Held, Unsignalled
<1>8. OutcomeInv'
  BY DEF Inv, WireInv, RunningInv, OwnerInv, OutcomeInv, Running, Asking
<1>9. QED
  BY <1>1, <1>2, <1>3, <1>4, <1>5, <1>6, <1>7, <1>8 DEF Inv, TypeOK

LEMMA UndoBeginStep == ASSUME Inv, UndoBegin PROVE Inv'
<1> USE DEF client, wire, backend, UndoBegin, Settled, Throw, CatchPoint, Classified
<1>1. ClientType'
  BY DEF Inv, TypeOK, ClientType, Points, Asking, Failures
<1>2. WireType'
  BY DEF Inv, TypeOK, ClientType, WireType, Statements, Replies, Asking
<1>3. BackendType'
  BY DEF Inv, TypeOK, BackendType
<1>4. WireInv'
  BY DEF Inv, TypeOK, ClientType, WireType, BackendType, WireInv, Asking, Unsignalled, Text
<1>5. OwnerInv'
  BY DEF Inv, TypeOK, WireInv, OwnerInv, Owned, RunningInv, Running
<1>6. RunningInv'
  BY DEF Inv, WireInv, OwnerInv, Owned, RunningInv, Running, Unsignalled
<1>7. ClosedInv'
  BY DEF Inv, WireInv, OwnerInv, RunningInv, Running, ClosedInv, Held, Unsignalled
<1>8. OutcomeInv'
  BY DEF Inv, WireInv, RunningInv, OwnerInv, OutcomeInv, Running, Asking
<1>9. QED
  BY <1>1, <1>2, <1>3, <1>4, <1>5, <1>6, <1>7, <1>8 DEF Inv, TypeOK

LEMMA ReadPathStep == ASSUME Inv, ReadPath PROVE Inv'
<1> USE DEF client, wire, backend, ReadPath, Settled, Throw, CatchPoint, Classified
<1>1. ClientType'
  BY DEF Inv, TypeOK, ClientType, Points, Asking, Failures
<1>2. WireType'
  BY DEF Inv, TypeOK, ClientType, WireType, Statements, Replies, Asking
<1>3. BackendType'
  BY DEF Inv, TypeOK, BackendType
<1>4. WireInv'
  BY DEF Inv, TypeOK, ClientType, WireType, BackendType, WireInv, Asking, Unsignalled, Text
<1>5. OwnerInv'
  BY DEF Inv, TypeOK, WireInv, OwnerInv, Owned, RunningInv, Running
<1>6. RunningInv'
  BY DEF Inv, WireInv, OwnerInv, Owned, RunningInv, Running, Unsignalled
<1>7. ClosedInv'
  BY DEF Inv, WireInv, OwnerInv, RunningInv, Running, ClosedInv, Held, Unsignalled
<1>8. OutcomeInv'
  BY DEF Inv, WireInv, RunningInv, OwnerInv, OutcomeInv, Running, Asking
<1>9. QED
  BY <1>1, <1>2, <1>3, <1>4, <1>5, <1>6, <1>7, <1>8 DEF Inv, TypeOK

LEMMA HidePathStep == ASSUME Inv, HidePath PROVE Inv'
<1> USE DEF client, wire, backend, HidePath, Settled, Throw, CatchPoint, Classified
<1>1. ClientType'
  BY DEF Inv, TypeOK, ClientType, Points, Asking, Failures
<1>2. WireType'
  BY DEF Inv, TypeOK, ClientType, WireType, Statements, Replies, Asking
<1>3. BackendType'
  BY DEF Inv, TypeOK, BackendType
<1>4. WireInv'
  BY DEF Inv, TypeOK, ClientType, WireType, BackendType, WireInv, Asking, Unsignalled, Text
<1>5. OwnerInv'
  BY DEF Inv, TypeOK, WireInv, OwnerInv, Owned, RunningInv, Running
<1>6. RunningInv'
  BY DEF Inv, WireInv, OwnerInv, Owned, RunningInv, Running, Unsignalled
<1>7. ClosedInv'
  BY DEF Inv, WireInv, OwnerInv, RunningInv, Running, ClosedInv, Held, Unsignalled
<1>8. OutcomeInv'
  BY DEF Inv, WireInv, RunningInv, OwnerInv, OutcomeInv, Running, Asking
<1>9. QED
  BY <1>1, <1>2, <1>3, <1>4, <1>5, <1>6, <1>7, <1>8 DEF Inv, TypeOK

LEMMA WorkContinuesStep == ASSUME Inv, WorkContinues PROVE Inv'
<1> USE DEF client, wire, backend, WorkContinues, Settled
<1>1. ClientType'
  BY DEF Inv, TypeOK, ClientType, Points, Asking, Failures
<1>2. WireType'
  BY DEF Inv, TypeOK, ClientType, WireType, Statements, Replies, Asking
<1>3. BackendType'
  BY DEF Inv, TypeOK, BackendType
<1>4. WireInv'
  BY DEF Inv, TypeOK, ClientType, WireType, BackendType, WireInv, Asking, Unsignalled, Text
<1>5. OwnerInv'
  BY DEF Inv, TypeOK, WireInv, OwnerInv, Owned, RunningInv, Running
<1>6. RunningInv'
  BY DEF Inv, WireInv, OwnerInv, Owned, RunningInv, Running, Unsignalled
<1>7. ClosedInv'
  BY DEF Inv, WireInv, OwnerInv, RunningInv, Running, ClosedInv, Held, Unsignalled
<1>8. OutcomeInv'
  BY DEF Inv, WireInv, RunningInv, OwnerInv, OutcomeInv, Running, Asking
<1>9. QED
  BY <1>1, <1>2, <1>3, <1>4, <1>5, <1>6, <1>7, <1>8 DEF Inv, TypeOK

LEMMA WorkResolvesStep == ASSUME Inv, WorkResolves PROVE Inv'
<1> USE DEF client, wire, backend, WorkResolves
<1>1. ClientType'
  BY DEF Inv, TypeOK, ClientType, Points, Asking, Failures
<1>2. WireType'
  BY DEF Inv, TypeOK, ClientType, WireType, Statements, Replies, Asking
<1>3. BackendType'
  BY DEF Inv, TypeOK, BackendType
<1>4. WireInv'
  BY DEF Inv, TypeOK, ClientType, WireType, BackendType, WireInv, Asking, Unsignalled, Text
<1>5. OwnerInv'
  BY DEF Inv, TypeOK, WireInv, OwnerInv, Owned, RunningInv, Running
<1>6. RunningInv'
  BY DEF Inv, WireInv, OwnerInv, Owned, RunningInv, Running, Unsignalled
<1>7. ClosedInv'
  BY DEF Inv, WireInv, OwnerInv, RunningInv, Running, ClosedInv, Held, Unsignalled
<1>8. OutcomeInv'
  BY DEF Inv, WireInv, RunningInv, OwnerInv, OutcomeInv, Running, Asking
<1>9. QED
  BY <1>1, <1>2, <1>3, <1>4, <1>5, <1>6, <1>7, <1>8 DEF Inv, TypeOK

LEMMA WorkThrowsStep == ASSUME Inv, WorkThrows PROVE Inv'
<1> USE DEF client, wire, backend, WorkThrows, Throw, CatchPoint, Classified
<1>1. ClientType'
  BY DEF Inv, TypeOK, ClientType, Points, Asking, Failures
<1>2. WireType'
  BY DEF Inv, TypeOK, ClientType, WireType, Statements, Replies, Asking
<1>3. BackendType'
  BY DEF Inv, TypeOK, BackendType
<1>4. WireInv'
  BY DEF Inv, TypeOK, ClientType, WireType, BackendType, WireInv, Asking, Unsignalled, Text
<1>5. OwnerInv'
  BY DEF Inv, TypeOK, WireInv, OwnerInv, Owned, RunningInv, Running
<1>6. RunningInv'
  BY DEF Inv, WireInv, OwnerInv, Owned, RunningInv, Running, Unsignalled
<1>7. ClosedInv'
  BY DEF Inv, WireInv, OwnerInv, RunningInv, Running, ClosedInv, Held, Unsignalled
<1>8. OutcomeInv'
  BY DEF Inv, WireInv, RunningInv, OwnerInv, OutcomeInv, Running, Asking
<1>9. QED
  BY <1>1, <1>2, <1>3, <1>4, <1>5, <1>6, <1>7, <1>8 DEF Inv, TypeOK

LEMMA RecheckStep == ASSUME Inv, Recheck PROVE Inv'
<1> USE DEF client, wire, backend, Recheck, Throw, CatchPoint, Classified
<1>1. ClientType'
  BY DEF Inv, TypeOK, ClientType, Points, Asking, Failures
<1>2. WireType'
  BY DEF Inv, TypeOK, ClientType, WireType, Statements, Replies, Asking
<1>3. BackendType'
  BY DEF Inv, TypeOK, BackendType
<1>4. WireInv'
  BY DEF Inv, TypeOK, ClientType, WireType, BackendType, WireInv, Asking, Unsignalled, Text
<1>5. OwnerInv'
  BY DEF Inv, TypeOK, WireInv, OwnerInv, Owned, RunningInv, Running, Text, Asking
<1>6. RunningInv'
  BY DEF Inv, WireInv, OwnerInv, Owned, RunningInv, Running, Unsignalled, Text, Asking
<1>7. ClosedInv'
  BY DEF Inv, WireInv, OwnerInv, RunningInv, Running, ClosedInv, Held, Unsignalled, Text,
      Asking
<1>8. OutcomeInv'
  BY DEF Inv, WireInv, RunningInv, OwnerInv, OutcomeInv, Running, Asking
<1>9. QED
  BY <1>1, <1>2, <1>3, <1>4, <1>5, <1>6, <1>7, <1>8 DEF Inv, TypeOK

LEMMA ShowPathStep == ASSUME Inv, ShowPath PROVE Inv'
<1> USE DEF client, wire, backend, ShowPath, Settled, Throw, CatchPoint, Classified
<1>1. ClientType'
  BY DEF Inv, TypeOK, ClientType, Points, Asking, Failures
<1>2. WireType'
  BY DEF Inv, TypeOK, ClientType, WireType, Statements, Replies, Asking
<1>3. BackendType'
  BY DEF Inv, TypeOK, BackendType
<1>4. WireInv'
  BY DEF Inv, TypeOK, ClientType, WireType, BackendType, WireInv, Asking, Unsignalled, Text
<1>5. OwnerInv'
  BY DEF Inv, TypeOK, WireInv, OwnerInv, Owned, RunningInv, Running
<1>6. RunningInv'
  BY DEF Inv, WireInv, OwnerInv, Owned, RunningInv, Running, Unsignalled
<1>7. ClosedInv'
  BY DEF Inv, WireInv, OwnerInv, RunningInv, Running, ClosedInv, Held, Unsignalled
<1>8. OutcomeInv'
  BY DEF Inv, WireInv, RunningInv, OwnerInv, OutcomeInv, Running, Asking
<1>9. QED
  BY <1>1, <1>2, <1>3, <1>4, <1>5, <1>6, <1>7, <1>8 DEF Inv, TypeOK

LEMMA CommitStep == ASSUME Inv, Commit PROVE Inv'
<1> USE DEF client, wire, backend, Commit, Settled, Throw, CatchPoint, Classified
<1>1. ClientType'
  BY DEF Inv, TypeOK, ClientType, Points, Asking, Failures
<1>2. WireType'
  BY DEF Inv, TypeOK, ClientType, WireType, Statements, Replies, Asking
<1>3. BackendType'
  BY DEF Inv, TypeOK, BackendType
<1>4. WireInv'
  BY DEF Inv, TypeOK, ClientType, WireType, BackendType, WireInv, Asking, Unsignalled, Text
<1>5. OwnerInv'
  BY DEF Inv, TypeOK, WireInv, OwnerInv, Owned, RunningInv, Running
<1>6. RunningInv'
  BY DEF Inv, WireInv, OwnerInv, Owned, RunningInv, Running, Unsignalled
<1>7. ClosedInv'
  BY DEF Inv, WireInv, OwnerInv, RunningInv, Running, ClosedInv, Held, Unsignalled
<1>8. OutcomeInv'
  BY DEF Inv, WireInv, RunningInv, OwnerInv, OutcomeInv, Running, Asking
<1>9. QED
  BY <1>1, <1>2, <1>3, <1>4, <1>5, <1>6, <1>7, <1>8 DEF Inv, TypeOK

LEMMA CleanPathStep == ASSUME Inv, CleanPath PROVE Inv'
<1> USE DEF client, wire, backend, CleanPath, Settled, Classified
<1>1. ClientType'
  BY DEF Inv, TypeOK, ClientType, Points, Asking, Failures
<1>2. WireType'
  BY DEF Inv, TypeOK, ClientType, WireType, Statements, Replies, Asking
<1>3. BackendType'
  BY DEF Inv, TypeOK, BackendType
<1>4. WireInv'
  BY DEF Inv, TypeOK, ClientType, WireType, BackendType, WireInv, Asking, Unsignalled, Text
<1>5. OwnerInv'
  BY DEF Inv, TypeOK, WireInv, OwnerInv, Owned, RunningInv, Running
<1>6. RunningInv'
  BY DEF Inv, WireInv, OwnerInv, Owned, RunningInv, Running, Unsignalled
<1>7. ClosedInv'
  BY DEF Inv, WireInv, OwnerInv, RunningInv, Running, ClosedInv, Held, Unsignalled
<1>8. OutcomeInv'
  BY DEF Inv, WireInv, RunningInv, OwnerInv, OutcomeInv, Running, Asking
<1>9. QED
  BY <1>1, <1>2, <1>3, <1>4, <1>5, <1>6, <1>7, <1>8 DEF Inv, TypeOK

LEMMA RollbackStep == ASSUME Inv, Rollback PROVE Inv'
<1> USE DEF client, wire, backend, Rollback, Settled, Classified
<1>1. ClientType'
  BY DEF Inv, TypeOK, ClientType, Points, Asking, Failures
<1>2. WireType'
  BY DEF Inv, TypeOK, ClientType, WireType, Statements, Replies, Asking
<1>3. BackendType'
  BY DEF Inv, TypeOK, BackendType
<1>4. WireInv'
  BY DEF Inv, TypeOK, ClientType, WireType, BackendType, WireInv, Asking, Unsignalled, Text
<1>5. OwnerInv'
  BY DEF Inv, TypeOK, WireInv, OwnerInv, Owned, RunningInv, Running
<1>6. RunningInv'
  BY DEF Inv, WireInv, OwnerInv, Owned, RunningInv, Running, Unsignalled
<1>7. ClosedInv'
  BY DEF Inv, WireInv, OwnerInv, RunningInv, Running, ClosedInv, Held, Unsignalled
<1>8. OutcomeInv'
  BY DEF Inv, WireInv, RunningInv, OwnerInv, OutcomeInv, Running, Asking
<1>9. QED
  BY <1>1, <1>2, <1>3, <1>4, <1>5, <1>6, <1>7, <1>8 DEF Inv, TypeOK

LEMMA ReleaseStep == ASSUME Inv, Release PROVE Inv'
<1> USE DEF client, wire, backend, Release
<1>1. ClientType'
  BY DEF Inv, TypeOK, ClientType, Points, Asking, Failures, OutcomeInv
<1>2. WireType'
  BY DEF Inv, TypeOK, ClientType, WireType, Statements, Replies, Asking
<1>3. BackendType'
  BY DEF Inv, TypeOK, BackendType
<1>4. WireInv'
  BY DEF Inv, TypeOK, ClientType, WireType, BackendType, WireInv, Asking, Unsignalled, Text
<1>5. OwnerInv'
  BY DEF Inv, TypeOK, WireInv, OwnerInv, Owned, RunningInv, Running
<1>6. RunningInv'
  BY DEF Inv, WireInv, OwnerInv, Owned, RunningInv, Running, Unsignalled
<1>7. ClosedInv'
  BY DEF Inv, WireInv, OwnerInv, RunningInv, Running, ClosedInv, Held, Unsignalled
<1>8. OutcomeInv'
  BY DEF Inv, WireInv, RunningInv, OwnerInv, OutcomeInv, Running, Asking
<1>9. QED
  BY <1>1, <1>2, <1>3, <1>4, <1>5, <1>6, <1>7, <1>8 DEF Inv, TypeOK

LEMMA ServeStep == ASSUME Inv, Serve PROVE Inv'
<1> USE DEF client, wire, backend, Serve
<1>1. ClientType'
  BY DEF Inv, TypeOK, ClientType, Points, Asking, Failures
<1>2. WireType'
  BY DEF Inv, TypeOK, ClientType, WireType, Statements, Replies, Asking
<1>3. BackendType'
  BY DEF Inv, TypeOK, BackendType, BackendTx, TrackedTx, Executes, Fails, Ending, Hidden,
      PathAfterTx, AfterSuccess, AfterError, TxAfterError
<1>4. WireInv'
  BY DEF Inv, TypeOK, ClientType, WireType, BackendType, WireInv, Asking, Unsignalled, Text
<1>5. OwnerInv'
  BY DEF Inv, TypeOK, WireInv, OwnerInv, Owned, RunningInv, Running, Text, Asking, Executes,
      Fails, Ending, Hidden, PathAfterTx, AfterSuccess, AfterError, TxAfterError
<1>6. RunningInv'
  <2>1. /\ pc' = pc /\ opt' = opt /\ began' = began /\ saved' = saved
        /\ orphan = "none" /\ orphan' = "none" /\ sent = Text(pc) /\ pc \in Asking
        /\ RunningInv
    BY DEF Inv, WireInv
  <2>2. CASE Executes(sent) /\ reply' = "ok"
    <3>1. pc = "begin" => tx' = "open"
      BY <2>1, <2>2 DEF Executes, Text, Ending
    <3>2. began /\ pc \in Running => tx' # "idle"
      BY <2>1, <2>2 DEF Executes, Text, Asking, Ending, Running, RunningInv
    <3>3. began /\ pc = "showPath" => tx' = "open"
      BY <2>1, <2>2 DEF Executes, Text, Ending, Running, RunningInv, Inv, TypeOK, BackendType,
          BackendTx
    <3>4. pc = "commit" => committed' /\ tx' = "idle"
      BY <2>1, <2>2 DEF Executes, Text, Ending, RunningInv, Inv, WireInv
    <3>5. QED
      BY <2>1, <2>2, <3>1, <3>2, <3>3, <3>4 DEF RunningInv
  <2>3. CASE Fails(sent) /\ reply' = "error"
    <3>1. tx' = "idle" => tx = "idle" \/ pc = "commit"
      BY <2>1, <2>3 DEF Fails, TxAfterError, Text, Asking
    <3>2. QED
      BY <2>1, <2>3, <3>1 DEF RunningInv, Running
  <2>4. QED
    BY <2>2, <2>3
<1>7. ClosedInv'
  BY DEF Inv, WireInv, OwnerInv, RunningInv, Running, ClosedInv, Held, Unsignalled, Text,
      Asking, Executes, Fails, Ending, Hidden, PathAfterTx, AfterSuccess, AfterError,
      TxAfterError
<1>8. OutcomeInv'
  BY DEF Inv, WireInv, RunningInv, OwnerInv, OutcomeInv, Running, Asking
<1>9. QED
  BY <1>1, <1>2, <1>3, <1>4, <1>5, <1>6, <1>7, <1>8 DEF Inv, TypeOK

LEMMA ServeOrphanStep == ASSUME Inv, ServeOrphan PROVE Inv'
<1> USE DEF client, wire, backend, ServeOrphan, Executes, Fails, Ending, Hidden, PathAfterTx,
    TxAfterError
<1>1. ClientType'
  BY DEF Inv, TypeOK, ClientType, Points, Asking, Failures
<1>2. WireType'
  BY DEF Inv, TypeOK, ClientType, WireType, Statements, Replies, Asking
<1>3. BackendType'
  BY DEF Inv, TypeOK, BackendType, BackendTx
<1>4. WireInv'
  BY DEF Inv, TypeOK, ClientType, WireType, BackendType, WireInv, Asking, Unsignalled, Text
<1>5. OwnerInv'
  BY DEF Inv, TypeOK, WireInv, OwnerInv, Owned, RunningInv, Running
<1>6. RunningInv'
  BY DEF Inv, WireInv, OwnerInv, Owned, RunningInv, Running, Unsignalled
<1>7. ClosedInv'
  BY DEF Inv, WireInv, OwnerInv, RunningInv, Running, ClosedInv, Held, Unsignalled
<1>8. OutcomeInv'
  <2>1. committed => committed'
    BY DEF Executes, Fails
  <2>2. QED
    BY <2>1 DEF Inv, OutcomeInv
<1>9. QED
  BY <1>1, <1>2, <1>3, <1>4, <1>5, <1>6, <1>7, <1>8 DEF Inv, TypeOK

LEMMA UnreachableStep == ASSUME Inv, Unreachable PROVE Inv'
<1> USE DEF client, wire, backend, Unreachable, AfterError
<1>1. ClientType'
  BY DEF Inv, TypeOK, ClientType, Points, Asking, Failures
<1>2. WireType'
  BY DEF Inv, TypeOK, ClientType, WireType, Statements, Replies, Asking
<1>3. BackendType'
  BY DEF Inv, TypeOK, BackendType, TrackedTx
<1>4. WireInv'
  BY DEF Inv, TypeOK, ClientType, WireType, BackendType, WireInv, Asking, Unsignalled, Text
<1>5. OwnerInv'
  BY DEF Inv, TypeOK, WireInv, OwnerInv, Owned, RunningInv, Running
<1>6. RunningInv'
  BY DEF Inv, WireInv, OwnerInv, Owned, RunningInv, Running, Unsignalled
<1>7. ClosedInv'
  BY DEF Inv, WireInv, OwnerInv, RunningInv, Running, ClosedInv, Held, Unsignalled
<1>8. OutcomeInv'
  BY DEF Inv, WireInv, RunningInv, OwnerInv, OutcomeInv, Running, Asking
<1>9. QED
  BY <1>1, <1>2, <1>3, <1>4, <1>5, <1>6, <1>7, <1>8 DEF Inv, TypeOK

LEMMA LoseConnectionStep == ASSUME Inv, LoseConnection PROVE Inv'
<1> USE DEF client, wire, backend, LoseConnection
<1>1. ClientType'
  BY DEF Inv, TypeOK, ClientType, Points, Asking, Failures
<1>2. WireType'
  BY DEF Inv, TypeOK, ClientType, WireType, Statements, Replies, Asking
<1>3. BackendType'
  BY DEF Inv, TypeOK, BackendType
<1>4. WireInv'
  BY DEF Inv, TypeOK, ClientType, WireType, BackendType, WireInv, Asking, Unsignalled, Text
<1>5. OwnerInv'
  BY DEF Inv, TypeOK, WireInv, OwnerInv, Owned, RunningInv, Running
<1>6. RunningInv'
  BY DEF Inv, WireInv, OwnerInv, Owned, RunningInv, Running, Unsignalled
<1>7. ClosedInv'
  BY DEF Inv, WireInv, OwnerInv, RunningInv, Running, ClosedInv, Held, Unsignalled
<1>8. OutcomeInv'
  BY DEF Inv, WireInv, RunningInv, OwnerInv, OutcomeInv, Running, Asking
<1>9. QED
  BY <1>1, <1>2, <1>3, <1>4, <1>5, <1>6, <1>7, <1>8 DEF Inv, TypeOK

LEMMA AbortStep == ASSUME Inv, Abort PROVE Inv'
<1> USE DEF client, wire, backend, Abort
<1>1. ClientType'
  BY DEF Inv, TypeOK, ClientType, Points, Asking, Failures
<1>2. WireType'
  BY DEF Inv, TypeOK, ClientType, WireType, Statements, Replies, Asking
<1>3. BackendType'
  BY DEF Inv, TypeOK, BackendType
<1>4. WireInv'
  BY DEF Inv, TypeOK, ClientType, WireType, BackendType, WireInv, Asking, Unsignalled, Text
<1>5. OwnerInv'
  BY DEF Inv, TypeOK, WireInv, OwnerInv, Owned, RunningInv, Running, Text, Asking
<1>6. RunningInv'
  BY DEF Inv, WireInv, OwnerInv, Owned, RunningInv, Running, Unsignalled, Text, Asking
<1>7. ClosedInv'
  BY DEF Inv, WireInv, OwnerInv, RunningInv, Running, ClosedInv, Held, Unsignalled, Text,
      Asking
<1>8. OutcomeInv'
  BY DEF Inv, WireInv, RunningInv, OwnerInv, OutcomeInv, Running, Asking
<1>9. QED
  BY <1>1, <1>2, <1>3, <1>4, <1>5, <1>6, <1>7, <1>8 DEF Inv, TypeOK

LEMMA TerminatedStep == ASSUME Inv, Terminated PROVE Inv'
<1> USE DEF client, wire, backend, Terminated, vars
<1>1. ClientType'
  BY DEF Inv, TypeOK, ClientType, Points, Asking, Failures
<1>2. WireType'
  BY DEF Inv, TypeOK, ClientType, WireType, Statements, Replies, Asking
<1>3. BackendType'
  BY DEF Inv, TypeOK, BackendType
<1>4. WireInv'
  BY DEF Inv, TypeOK, ClientType, WireType, BackendType, WireInv, Asking, Unsignalled, Text
<1>5. OwnerInv'
  BY DEF Inv, TypeOK, WireInv, OwnerInv, Owned, RunningInv, Running
<1>6. RunningInv'
  BY DEF Inv, WireInv, OwnerInv, Owned, RunningInv, Running, Unsignalled
<1>7. ClosedInv'
  BY DEF Inv, WireInv, OwnerInv, RunningInv, Running, ClosedInv, Held, Unsignalled
<1>8. OutcomeInv'
  BY DEF Inv, WireInv, RunningInv, OwnerInv, OutcomeInv, Running, Asking
<1>9. QED
  BY <1>1, <1>2, <1>3, <1>4, <1>5, <1>6, <1>7, <1>8 DEF Inv, TypeOK

-----------------------------------------------------------------------------
LEMMA NextInv == Inv /\ [Next]_vars => Inv'
<1> SUFFICES ASSUME Inv, [Next]_vars PROVE Inv'
  OBVIOUS
<1>1. CASE UNCHANGED vars
  <2> USE <1>1 DEF vars, client, wire, backend, Inv
  <2>1. TypeOK'
    BY DEF TypeOK, ClientType, WireType, BackendType
  <2>2. WireInv' /\ OwnerInv' /\ OutcomeInv'
    BY DEF WireInv, OwnerInv, Owned, OutcomeInv
  <2>3. RunningInv' /\ ClosedInv'
    BY DEF RunningInv, ClosedInv, Held
  <2>4. QED
    BY <2>1, <2>2, <2>3
<1>2. CASE Client
  BY <1>2, AcquireStep, ConnectStep, AskStep, AskWorkStep, DetectVersionStep, CheckStatusStep,
     StartTransactionStep, UndoBeginStep, ReadPathStep, HidePathStep, WorkContinuesStep,
     WorkResolvesStep, WorkThrowsStep, RecheckStep, ShowPathStep, CommitStep, CleanPathStep,
     RollbackStep, ReleaseStep DEF Client
<1>3. CASE Backend
  BY <1>3, ServeStep, ServeOrphanStep, UnreachableStep DEF Backend
<1>4. QED
  BY <1>1, <1>2, <1>3, LoseConnectionStep, AbortStep, TerminatedStep DEF Next

LEMMA SpecInv == Spec => []Inv
BY InitInv, NextInv, PTL DEF Spec

-----------------------------------------------------------------------------
(* Every variable keeps its type; in particular release() is never called  *)
(* twice.                                                                  *)
THEOREM TypeCorrect == Spec => []TypeOK
<1>1. Inv => TypeOK
  BY DEF Inv
<1>2. QED
  BY SpecInv, <1>1, PTL

(* A connection that came in idle never goes back to its pool inside a     *)
(* transaction, whatever failed and wherever the abort landed.             *)
THEOREM PoolClientIdle == Spec => []NoTransactionLeft
<1>1. Inv => NoTransactionLeft
  BY DEF Inv, ClosedInv, Held, NoTransactionLeft, Quiet
<1>2. QED
  BY SpecInv, <1>1, PTL

(* A managed dump that resolves has committed its snapshot transaction.    *)
THEOREM SuccessCommits == Spec => []SuccessMeansCommitted
<1>1. Inv => SuccessMeansCommitted
  BY DEF Inv, OutcomeInv, SuccessMeansCommitted
<1>2. QED
  BY SpecInv, <1>1, PTL

(* The dump never ends a transaction that was open when it was called.     *)
THEOREM CallerKeepsTransaction == Spec => CallerTransactionKept
<1>1. Inv /\ Inv' /\ [Next]_vars => [entry # "idle" => tx' # "idle"]_vars
  <2> SUFFICES ASSUME Inv, Inv', [Next]_vars, entry # "idle", ~(UNCHANGED vars)
               PROVE tx' # "idle"
    OBVIOUS
  <2>1. entry' = entry
    BY DEF Next, Client, Backend, vars, client, wire, backend, Terminated, Acquire, Connect,
        Ask, AskWork, DetectVersion, CheckStatus, StartTransaction, UndoBegin, ReadPath,
        HidePath, WorkContinues, WorkResolves, WorkThrows, Recheck, ShowPath, Commit,
        CleanPath, Rollback, Release, Serve, ServeOrphan, Unreachable, LoseConnection, Abort,
        Settled, Executes, Fails
  <2>2. QED
    BY <2>1 DEF Inv, OwnerInv
<1>2. QED
  BY SpecInv, NextInv, <1>1, PTL DEF Spec, CallerTransactionKept

-----------------------------------------------------------------------------
(* The backend hides the search_path inside the dump's own transaction, or *)
(* where the client will read that it did.                                 *)
LEMMA PathServed ==
  ASSUME Inv, PathInv, Serve PROVE PathInv'
<1>1. /\ sent = Text(pc) /\ pc \in Asking /\ reply = "none" /\ orphan = "none" /\ up
      /\ sent # "none" /\ orphan' = "none" /\ up' /\ tx \in BackendTx
      /\ UNCHANGED <<pc, opt, saved, began, aborted, entry>>
      /\ reply' \in {"ok", "error"}
  BY DEF Inv, WireInv, Serve, Executes, Fails, client, TypeOK, BackendType
<1>2. opt.mode = "managed" => ManagedPath'
  <2> SUFFICES ASSUME opt.mode = "managed" PROVE ManagedPath'
    OBVIOUS
  <2>1. ManagedPath
    BY DEF PathInv
  <2>2. pc \in {"readPath", "hidePath", "work", "showPath"} => tx # "idle" /\ entry = "idle"
    BY DEF Inv, RunningInv, Running, OwnerInv, Owned
  <2>3. CASE Executes(sent)
    <3>1. CASE sent = "hide path"
      <4>1. pc = "hidePath"
        BY <1>1, <3>1 DEF Asking, Text
      <4>2. tx' = tx /\ path' = "tx-empty"
        BY <2>3, <3>1 DEF Executes, Ending, Hidden
      <4>3. QED
        BY <1>1, <2>2, <4>1, <4>2 DEF ManagedPath
    <3>2. CASE sent # "hide path"
      <4>1. CASE sent \in Ending
        <5>1. path' = PathAfterTx
          BY <2>3, <4>1 DEF Executes, Ending
        <5>2. QED
          BY <1>1, <2>1, <5>1 DEF ManagedPath, PathAfterTx
      <4>2. CASE sent \notin Ending
        <5>1. tx' \in {"open", tx} /\ path' \in {"caller", path}
          BY <2>3, <3>2, <4>2 DEF Executes
        <5>2. QED
          BY <1>1, <2>1, <5>1 DEF ManagedPath
      <4>3. QED
        BY <4>1, <4>2
    <3>3. QED
      BY <3>1, <3>2
  <2>4. CASE Fails(sent)
    BY <1>1, <2>1, <2>4 DEF Fails, TxAfterError, PathAfterTx, ManagedPath
  <2>5. QED
    BY <2>3, <2>4 DEF Serve
<1>3. ASSUME opt.mode # "managed", ~aborted, tx' # "failed" PROVE UnmanagedPath'
  <2>1. pc \notin {"begin", "undoBegin", "commit", "rollback"}
    BY <1>3 DEF Inv, OwnerInv, Owned
  <2>2. sent \notin Ending /\ sent # "BEGIN" /\ (sent = "hide path" <=> pc = "hidePath")
        /\ (sent = "show path" <=> pc \in {"showPath", "cleanPath"})
    BY <1>1, <2>1 DEF Ending, Text, Asking
  <2>3. CASE Executes(sent) /\ reply' = "ok"
    <3>1. tx # "failed" /\ path' = (CASE sent = "hide path" -> Hidden
                                      [] sent = "show path" -> "caller" [] OTHER -> path)
      BY <2>2, <2>3 DEF Executes
    <3>2. UnmanagedPath
      BY <1>1, <1>3, <3>1 DEF PathInv
    <3>3. QED
      BY <1>1, <2>2, <2>3, <3>1, <3>2 DEF UnmanagedPath
  <2>4. CASE Fails(sent) /\ reply' = "error"
    <3>1. tx # "failed" /\ path' = path /\ sent # "show path"
      BY <1>1, <1>3, <2>2, <2>4 DEF Fails, TxAfterError, Ending
    <3>2. UnmanagedPath
      BY <1>1, <1>3, <3>1 DEF PathInv
    <3>3. QED
      BY <1>1, <2>2, <2>4, <3>1, <3>2 DEF UnmanagedPath
  <2>5. QED
    BY <2>3, <2>4 DEF Serve
<1>4. QED
  BY <1>1, <1>2, <1>3 DEF PathInv

(* A set_config that its client was told is aborted still hides the path,  *)
(* in managed mode only until the transaction it ran in is ended.          *)
LEMMA PathOrphanServed ==
  ASSUME Inv, PathInv, ServeOrphan PROVE PathInv'
<1>1. /\ orphan # "none" /\ aborted /\ orphan' = "none" /\ tx \in BackendTx
      /\ UNCHANGED <<opt, aborted, reply, entry>>
      /\ Executes(orphan) \/ Fails(orphan)
  BY DEF ServeOrphan, PathInv, client, Executes, Fails, Inv, TypeOK, BackendType
<1>2. opt.mode = "managed" => ManagedPath'
  <2> SUFFICES ASSUME opt.mode = "managed" PROVE ManagedPath'
    OBVIOUS
  <2>1. ManagedPath
    BY DEF PathInv
  <2>2. CASE Executes(orphan)
    <3>1. CASE orphan = "hide path"
      BY <1>1, <2>1, <2>2, <3>1 DEF Executes, Ending, Hidden, ManagedPath
    <3>2. CASE orphan # "hide path"
      BY <1>1, <2>1, <2>2, <3>2 DEF Executes, Ending, PathAfterTx, ManagedPath
    <3>3. QED
      BY <3>1, <3>2
  <2>3. CASE Fails(orphan)
    BY <1>1, <2>1, <2>3 DEF Fails, TxAfterError, PathAfterTx, ManagedPath
  <2>4. QED
    BY <1>1, <2>2, <2>3
<1>3. QED
  BY <1>1, <1>2 DEF PathInv

(* An abort may leave the statement that hides the path on the wire.       *)
LEMMA PathAborted ==
  ASSUME Inv, PathInv, Abort PROVE PathInv'
<1>1. aborted' /\ UNCHANGED <<opt, tx, path, entry>>
  BY DEF Abort, client, backend
<1>2. ASSUME opt.mode = "managed" PROVE ManagedPath'
  <2>1. ManagedPath
    BY <1>2 DEF PathInv
  <2>2. CASE orphan' = orphan
    BY <1>1, <2>1, <2>2 DEF ManagedPath
  <2>3. CASE orphan' = "none"
    BY <1>1, <2>1, <2>3 DEF ManagedPath
  <2>4. CASE orphan' = sent /\ sent # "none"
    <3>1. sent = "hide path" => pc = "hidePath"
      BY <2>4 DEF Inv, WireInv, Text, Asking
    <3>2. pc = "hidePath" => tx # "idle" /\ entry = "idle"
      BY <1>2 DEF Inv, RunningInv, Running, OwnerInv, Owned
    <3>3. QED
      BY <1>1, <2>1, <2>4, <3>1, <3>2 DEF ManagedPath
  <2>5. QED
    BY <2>2, <2>3, <2>4 DEF Abort, wire
<1>3. QED
  BY <1>1, <1>2 DEF PathInv

(* The client does not forget a path it hid: every throw leads past the    *)
(* point that puts it back.                                                *)
LEMMA PathClient ==
  ASSUME Inv, PathInv, Client PROVE PathInv'
<1>1. UNCHANGED <<opt, aborted, backend, orphan>>
  BY DEF Client, client, wire, Acquire, Connect, Ask, AskWork, Send, Settled, DetectVersion,
      CheckStatus, StartTransaction, UndoBegin, ReadPath, HidePath, WorkContinues,
      WorkResolves, WorkThrows, Recheck, ShowPath, Commit, CleanPath, Rollback, Release
<1>2. reply' = "rejected" => reply = "rejected" \/ aborted
  BY DEF Client, client, wire, Acquire, Connect, Ask, AskWork, Send, Settled, DetectVersion,
      CheckStatus, StartTransaction, UndoBegin, ReadPath, HidePath, WorkContinues,
      WorkResolves, WorkThrows, Recheck, ShowPath, Commit, CleanPath, Rollback, Release
<1>3. ASSUME opt.mode # "managed", ~aborted, up, tx # "failed" PROVE UnmanagedPath'
  <2> USE <1>3
  <2>1. UnmanagedPath /\ path' = path /\ ~began
    BY <1>1 DEF PathInv, backend, Inv, OwnerInv, Owned
  <2>2. /\ sent # "none" => reply = "none"
        /\ reply # "none" => pc \in Asking
        /\ pc = "recheck" => reply = "none"
    BY DEF Inv, WireInv, Asking
  <2> USE DEF UnmanagedPath, client, wire, Throw, CatchPoint
  <2>3. CASE Acquire \/ Connect
    BY <2>1, <2>3 DEF Acquire, Connect
  <2>4. CASE Ask
    BY <2>1, <2>4 DEF Ask, Send, Asking
  <2>5. CASE AskWork
    BY <2>1, <2>5 DEF AskWork, Send
  <2>6. CASE DetectVersion \/ CheckStatus \/ StartTransaction \/ UndoBegin
    BY <2>1, <2>6 DEF DetectVersion, CheckStatus, StartTransaction, UndoBegin, Settled
  <2>7. CASE ReadPath \/ HidePath
    BY <2>1, <2>7 DEF ReadPath, HidePath, Settled
  <2>8. CASE WorkContinues \/ WorkResolves \/ WorkThrows
    BY <2>1, <2>8 DEF WorkContinues, WorkResolves, WorkThrows, Settled
  <2>9. CASE Recheck
    BY <2>1, <2>2, <2>9 DEF Recheck
  <2>10. CASE ShowPath \/ Commit \/ CleanPath \/ Rollback \/ Release
    BY <2>1, <2>10 DEF ShowPath, Commit, CleanPath, Rollback, Release, Settled
  <2>11. QED
    BY <2>3, <2>4, <2>5, <2>6, <2>7, <2>8, <2>9, <2>10 DEF Client
<1>4. QED
  BY <1>1, <1>2, <1>3 DEF PathInv, ManagedPath, backend

(* The two facts about the search_path hold in every behaviour.            *)
LEMMA SpecPath == Spec => [](Inv /\ PathInv)
<1>1. Init => PathInv
  BY DEF Init, PathInv, ManagedPath, UnmanagedPath
<1>2. Inv /\ PathInv /\ [Next]_vars => PathInv'
  <2> SUFFICES ASSUME Inv, PathInv, [Next]_vars PROVE PathInv'
    OBVIOUS
  <2>1. CASE Client
    BY <2>1, PathClient
  <2>2. CASE Backend
    <3>1. CASE Unreachable
      BY <3>1 DEF Unreachable, client, backend, PathInv, ManagedPath
    <3>2. QED
      BY <2>2, <3>1, PathServed, PathOrphanServed DEF Backend
  <2>3. CASE LoseConnection
    BY <2>3 DEF LoseConnection, client, PathInv, ManagedPath
  <2>4. CASE Abort
    BY <2>4, PathAborted
  <2>5. CASE UNCHANGED vars
    BY <2>5 DEF vars, client, wire, backend, PathInv, ManagedPath, UnmanagedPath
  <2>6. QED
    BY <2>1, <2>2, <2>3, <2>4, <2>5 DEF Next, Terminated
<1>3. QED
  BY <1>1, <1>2, InitInv, NextInv, PTL DEF Spec

(* The caller's search_path is back when the session ends, unless the      *)
(* signal fired outside managed mode or the caller's own transaction is    *)
(* aborted.                                                                *)
THEOREM PathIsRestored == Spec => []SearchPathKept
<1>1. Inv /\ PathInv => SearchPathKept
  <2> SUFFICES ASSUME Inv, PathInv, Quiet, opt.mode = "managed" \/ ~aborted, tx # "failed"
               PROVE  path = "caller"
    BY DEF SearchPathKept
  <2>1. pc = "done" /\ up /\ orphan = "none"
    BY DEF Quiet
  <2>2. CASE opt.mode = "managed"
    <3>1. ManagedPath /\ path \in {"caller", "tx-empty", "session-empty"}
      BY <2>2 DEF PathInv, Inv, TypeOK, BackendType
    <3>2. entry = "idle" => tx = "idle"
      BY <2>1 DEF Inv, ClosedInv, Held
    <3>3. QED
      BY <3>1, <3>2 DEF ManagedPath
  <2>3. CASE opt.mode # "managed"
    BY <2>1, <2>3 DEF PathInv, UnmanagedPath
  <2>4. QED
    BY <2>2, <2>3
<1>2. QED
  BY <1>1, SpecPath, PTL
=============================================================================
