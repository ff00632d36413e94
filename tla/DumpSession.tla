---------------------------- MODULE DumpSession ----------------------------
(***************************************************************************)
(* One dump session: withPostgresIntrospectionSession around               *)
(* DumpSessionManager.run, on one physical connection.                     *)
(*                                                                         *)
(* Three actors interleave:                                                *)
(*   - the client, a chain of awaits: acquire, detect the version, prepare *)
(*     the transaction, hide the caller's search_path, work, put it back,  *)
(*     commit, or the catch block; then release;                           *)
(*   - the backend, which executes the statements it was sent in order;    *)
(*   - the caller's AbortSignal, which may fire at any moment.             *)
(*                                                                         *)
(* An abort rejects the awaited query at once (PgConnectionAdapter), while *)
(* its statement is still on the wire: it becomes the "orphan", which the  *)
(* backend executes or cancels before anything sent after it.              *)
(***************************************************************************)
EXTENDS Naturals, PgAdapter

CONSTANT MaxWork      \* statements the work callback may send (bound)

ASSUME MaxWorkAssumption == MaxWork \in Nat

VARIABLES
  pc,         \* where the client is
  opt,        \* transactionMode, and whether a snapshot id was asked for
  saved,      \* previousSearchPath is defined
  began,      \* managedTransactionStarted
  worked,     \* statements the work callback has sent
  failure,    \* the error to throw: none yet, raised, or classified
  releases,   \* calls of acquired.release()
  aborted,    \* signal.aborted
  tracked,    \* the adapter's #transactionStatus
  sent,       \* the statement the client awaits
  reply,      \* how the awaited statement ended
  orphan,     \* a statement whose client stopped waiting
  up,         \* the connection is alive
  tx,         \* the backend's transaction block state
  path,       \* the backend's effective search_path
  entry,      \* the backend's transaction state when the client acquired it
  committed   \* a COMMIT made an open transaction permanent

client  == <<pc, opt, saved, began, worked, failure, releases>>
wire    == <<sent, reply, orphan>>
backend == <<up, tx, path, entry, committed>>
vars    == <<client, aborted, tracked, wire, backend>>

Modes      == {"managed", "existing", "none"}
Statements == {"version", "BEGIN", "read path", "hide path", "work",
               "show path", "COMMIT", "ROLLBACK"}
Replies    == {"none", "ok", "error", "rejected"}
Failures   == {"none", "raised", "cancelled", "error"}

(* The await points that send a statement, with what they send.            *)
Asking == {"version", "begin", "undoBegin", "readPath", "hidePath", "work",
           "showPath", "commit", "cleanPath", "rollback"}

Text(p) ==
  CASE p = "version"  -> "version"
    [] p = "begin"    -> "BEGIN"
    [] p = "readPath" -> "read path"
    [] p = "hidePath" -> "hide path"
    [] p = "work"     -> "work"
    [] p = "commit"   -> "COMMIT"
    [] p \in {"showPath", "cleanPath"} -> "show path"
    [] p \in {"undoBegin", "rollback"} -> "ROLLBACK"

(* restoreSearchPath and rollback are called without the signal.           *)
Unsignalled == {"undoBegin", "showPath", "cleanPath", "rollback"}

Points == Asking \cup {"acquire", "connecting", "status", "recheck", "release", "done"}

-----------------------------------------------------------------------------
(* The session is handed to a caller whose connection may be in any state; *)
(* the adapter was told that state, or reports "unknown".                  *)
Init ==
  /\ opt \in [mode : Modes, snapshotId : BOOLEAN]
  /\ tx \in BackendTx
  /\ tracked \in {TrackedFor(tx), "unknown"}
  /\ entry = tx
  /\ pc = "acquire" /\ failure = "none" /\ releases = 0 /\ worked = 0
  /\ saved = FALSE /\ began = FALSE
  /\ aborted = FALSE
  /\ sent = "none" /\ reply = "none" /\ orphan = "none"
  /\ up = TRUE /\ path = "caller" /\ committed = FALSE

-----------------------------------------------------------------------------
(* The catch block of run: put the search_path back if it was saved, roll  *)
(* back if the transaction is ours, and only then look at signal.aborted.  *)
Classified == IF aborted THEN "cancelled" ELSE "error"

\* Mutant: the catch block forgets the search_path.
CatchPointRollbackOnly == IF began THEN "rollback" ELSE "release"

CatchPoint ==
  IF saved THEN "cleanPath" ELSE IF began THEN "rollback" ELSE "release"

Throw ==
  /\ pc' = CatchPoint
  /\ failure' = IF CatchPoint = "release" THEN Classified ELSE "raised"

Acquire ==
  /\ pc = "acquire"
  /\ IF aborted THEN pc' = "done" /\ failure' = "cancelled"
                ELSE pc' = "connecting" /\ UNCHANGED failure
  /\ UNCHANGED <<opt, saved, began, worked, releases, aborted, tracked, wire, backend>>

(* pool.connect() does not observe the signal.                             *)
Connect ==
  /\ pc = "connecting"
  /\ \/ pc' = "version" /\ UNCHANGED failure
     \/ pc' = "done" /\ failure' = Classified
  /\ UNCHANGED <<opt, saved, began, worked, releases, aborted, tracked, wire, backend>>

(* connection.query(text, signal): an aborted signal rejects before        *)
(* anything is sent.                                                       *)
Send(text, signalled) ==
  /\ sent = "none" /\ reply = "none"
  /\ IF signalled /\ aborted
       THEN reply' = "rejected" /\ UNCHANGED sent
       ELSE sent' = text /\ UNCHANGED reply
  /\ UNCHANGED orphan

Ask ==
  /\ pc \in Asking \ {"work"}
  /\ Send(Text(pc), pc \notin Unsignalled)
  /\ UNCHANGED <<client, aborted, tracked, backend>>

AskWork ==
  /\ pc = "work" /\ worked < MaxWork
  /\ worked' = worked + 1
  /\ Send(Text(pc), TRUE)
  /\ UNCHANGED <<pc, opt, saved, began, failure, releases, aborted, tracked, backend>>

(* The await at point p settles.                                           *)
Settled(p) ==
  /\ pc = p /\ reply # "none"
  /\ reply' = "none"
  /\ UNCHANGED <<sent, orphan, opt, worked, releases, aborted, tracked, backend>>

(* Anything but an answer from a supported server ends the operation.      *)
\* Mutant: version detection outside the try that leads to release().
DetectVersionUnguarded ==
  /\ Settled("version")
  /\ \/ reply = "ok" /\ pc' = "status" /\ UNCHANGED failure
     \/ pc' = "done" /\ failure' = Classified
  /\ UNCHANGED <<saved, began>>

DetectVersion ==
  /\ Settled("version")
  /\ \/ reply = "ok" /\ pc' = "status" /\ UNCHANGED failure
     \/ pc' = "release" /\ failure' = Classified
  /\ UNCHANGED <<saved, began>>

(* prepare, before any statement.                                          *)
Refused ==
  \/ aborted
  \/ opt.snapshotId
  \/ opt.mode = "managed"  /\ tracked # "idle"
  \/ opt.mode = "existing" /\ tracked # "in-transaction"

CheckStatus ==
  /\ pc = "status"
  /\ IF Refused THEN Throw
     ELSE /\ pc' = IF opt.mode = "managed" THEN "begin" ELSE "readPath"
          /\ UNCHANGED failure
  /\ UNCHANGED <<opt, saved, began, worked, releases, aborted, tracked, wire, backend>>

\* Mutant: prepare does not roll back after a failed BEGIN.
StartTransactionNoUndo ==
  /\ Settled("begin")
  /\ IF reply = "ok" THEN began' = TRUE /\ pc' = "readPath" /\ UNCHANGED failure
     ELSE Throw /\ UNCHANGED began
  /\ UNCHANGED saved

StartTransaction ==
  /\ Settled("begin")
  /\ IF reply = "ok" THEN began' = TRUE /\ pc' = "readPath" /\ UNCHANGED failure
     ELSE pc' = "undoBegin" /\ failure' = "raised" /\ UNCHANGED began
  /\ UNCHANGED saved

UndoBegin == Settled("undoBegin") /\ Throw /\ UNCHANGED <<saved, began>>

ReadPath ==
  /\ Settled("readPath")
  /\ IF reply = "ok" THEN pc' = "hidePath" /\ UNCHANGED failure ELSE Throw
  /\ UNCHANGED <<saved, began>>

HidePath ==
  /\ Settled("hidePath")
  /\ IF reply = "ok" THEN saved' = TRUE /\ pc' = "work" /\ UNCHANGED failure
     ELSE Throw /\ UNCHANGED saved
  /\ UNCHANGED began

-----------------------------------------------------------------------------
(* The work callback sends statements; it may absorb a failure of one      *)
(* (best effort), resolve, or throw for a reason of its own.               *)
WorkContinues ==
  /\ Settled("work")
  /\ UNCHANGED <<pc, failure, saved, began>>

WorkResolves ==
  /\ pc = "work" /\ sent = "none" /\ reply = "none"
  /\ pc' = "recheck"
  /\ UNCHANGED <<opt, saved, began, worked, failure, releases, aborted, tracked, wire, backend>>

WorkThrows ==
  /\ pc = "work" /\ sent = "none"
  /\ reply' = "none"
  /\ Throw
  /\ UNCHANGED <<opt, saved, began, worked, releases, aborted, tracked, sent, orphan, backend>>

Recheck ==
  /\ pc = "recheck"
  /\ IF aborted THEN Throw ELSE pc' = "showPath" /\ UNCHANGED failure
  /\ UNCHANGED <<opt, saved, began, worked, releases, aborted, tracked, wire, backend>>

\* Mutant: the success path swallows a failing restoreSearchPath, too.
ShowPathSwallows ==
  /\ Settled("showPath")
  /\ saved' = FALSE
  /\ pc' = IF began THEN "commit" ELSE "release"
  /\ UNCHANGED <<failure, began>>

ShowPath ==
  /\ Settled("showPath")
  /\ IF reply = "ok"
       THEN /\ saved' = FALSE
            /\ pc' = IF began THEN "commit" ELSE "release"
            /\ UNCHANGED failure
       ELSE Throw /\ UNCHANGED saved
  /\ UNCHANGED began

Commit ==
  /\ Settled("commit")
  /\ IF reply = "ok" THEN began' = FALSE /\ pc' = "release" /\ UNCHANGED failure
     ELSE Throw /\ UNCHANGED began
  /\ UNCHANGED saved

\* Mutant: the catch block rolls back without looking at who began.
CleanPathAlwaysRollsBack ==
  /\ Settled("cleanPath") /\ pc' = "rollback"
  /\ UNCHANGED <<failure, saved, began>>

(* A failure of the clean-up statements is swallowed.                      *)
CleanPath ==
  /\ Settled("cleanPath")
  /\ IF began THEN pc' = "rollback" /\ UNCHANGED failure
     ELSE pc' = "release" /\ failure' = Classified
  /\ UNCHANGED <<saved, began>>

\* Mutant: the catch block releases the connection itself.
RollbackReleases ==
  /\ pc = "rollback" /\ reply # "none" /\ reply' = "none"
  /\ pc' = "release" /\ failure' = Classified /\ releases' = releases + 1
  /\ UNCHANGED <<opt, saved, began, worked, aborted, tracked, sent, orphan, backend>>

Rollback ==
  /\ Settled("rollback")
  /\ pc' = "release" /\ failure' = Classified
  /\ UNCHANGED <<saved, began>>

(* A failing release is reported only when nothing failed before it.       *)
Release ==
  /\ pc = "release"
  /\ releases' = releases + 1
  /\ pc' = "done"
  /\ \/ UNCHANGED failure
     \/ failure' = IF failure = "none" THEN "error" ELSE failure
  /\ UNCHANGED <<opt, saved, began, worked, aborted, tracked, wire, backend>>

-----------------------------------------------------------------------------
(* The backend.  SET LOCAL values end with their transaction.              *)
PathAfterTx == IF path = "tx-empty" THEN "caller" ELSE path

Hidden == IF opt.mode = "none" THEN "session-empty" ELSE "tx-empty"

Ending == {"COMMIT", "ROLLBACK"}

Executes(s) ==
  /\ tx # "failed" \/ s \in Ending
  /\ tx' = CASE s = "BEGIN" -> "open" [] s \in Ending -> "idle" [] OTHER -> tx
  /\ path' = CASE s = "hide path" -> Hidden
               [] s = "show path" -> "caller"
               [] s \in Ending    -> PathAfterTx
               [] OTHER           -> path
  /\ committed' = IF s = "COMMIT" /\ tx = "open" THEN TRUE ELSE committed
  /\ UNCHANGED <<up, entry>>

(* Outside an aborted block, a ROLLBACK and a set_config of a value the    *)
(* backend itself reported do not fail; everything else may.               *)
Fails(s) ==
  /\ IF tx = "failed" THEN s \notin Ending ELSE s \notin {"show path", "ROLLBACK"}
  /\ \/ tx' = TxAfterError(tx) /\ UNCHANGED path
     \/ s = "COMMIT" /\ tx' = "idle" /\ path' = PathAfterTx
  /\ UNCHANGED <<up, entry, committed>>

(* The answer reaches the adapter, which updates its status.  A failing    *)
(* stream() does not (its catch block leaves #transactionStatus alone).    *)
Serve ==
  /\ sent # "none" /\ orphan = "none" /\ up
  /\ sent' = "none"
  /\ \/ Executes(sent) /\ reply' = "ok" /\ tracked' = AfterSuccess(tracked, sent)
     \/ /\ Fails(sent) /\ reply' = "error"
        /\ \/ tracked' = AfterError(tracked)
           \/ sent = "work" /\ UNCHANGED tracked
  /\ UNCHANGED <<client, aborted, orphan>>

(* The statement nobody waits for runs to its end, or the cancel request   *)
(* reaches it first; either way the adapter ignores the answer.            *)
ServeOrphan ==
  /\ orphan # "none" /\ up
  /\ orphan' = "none"
  /\ Executes(orphan) \/ Fails(orphan)
  /\ UNCHANGED <<client, aborted, tracked, sent, reply>>

LoseConnection ==
  /\ up /\ up' = FALSE
  /\ orphan' = "none"
  /\ UNCHANGED <<client, aborted, tracked, sent, reply, tx, path, entry, committed>>

Unreachable ==
  /\ sent # "none" /\ ~up
  /\ sent' = "none" /\ reply' = "error"
  /\ tracked' = AfterError(tracked)
  /\ UNCHANGED <<client, aborted, orphan, backend>>

(* The signal fires: a signalled query in flight rejects immediately.      *)
Abort ==
  /\ ~aborted /\ aborted' = TRUE
  /\ IF sent # "none" /\ pc \notin Unsignalled
       THEN sent' = "none" /\ reply' = "rejected"
            /\ orphan' = IF up THEN sent ELSE "none"
       ELSE UNCHANGED wire
  /\ UNCHANGED <<client, tracked, backend>>

Terminated == pc = "done" /\ UNCHANGED vars

Client ==
  \/ Acquire \/ Connect \/ Ask \/ AskWork \/ DetectVersion \/ CheckStatus
  \/ StartTransaction \/ UndoBegin \/ ReadPath \/ HidePath
  \/ WorkContinues \/ WorkResolves \/ WorkThrows \/ Recheck
  \/ ShowPath \/ Commit \/ CleanPath \/ Rollback \/ Release

Backend == Serve \/ ServeOrphan \/ Unreachable

Next == Client \/ Backend \/ LoseConnection \/ Abort \/ Terminated

(* Every await of the client settles once the backend answers, and a       *)
(* backend that is reachable answers; nothing obliges a signal to fire.    *)
Fairness == WF_vars(Client) /\ WF_vars(Backend)

Spec == Init /\ [][Next]_vars /\ Fairness

-----------------------------------------------------------------------------
ClientType ==
  /\ pc \in Points
  /\ opt \in [mode : Modes, snapshotId : BOOLEAN]
  /\ saved \in BOOLEAN /\ began \in BOOLEAN
  /\ worked \in 0..MaxWork /\ failure \in Failures /\ releases \in 0..1
  /\ aborted \in BOOLEAN

WireType ==
  /\ sent \in Statements \cup {"none"}
  /\ orphan \in Statements \cup {"none"}
  /\ reply \in Replies

BackendType ==
  /\ tracked \in TrackedTx /\ up \in BOOLEAN
  /\ tx \in BackendTx /\ entry \in BackendTx
  /\ path \in {"caller", "tx-empty", "session-empty"} /\ committed \in BOOLEAN

TypeOK == ClientType /\ WireType /\ BackendType

(* The session is over and the backend has nothing left to execute.        *)
Quiet == pc = "done" /\ sent = "none" /\ orphan = "none" /\ up

(* A connection that came in outside a transaction goes back outside one,  *)
(* whichever statement failed and wherever the abort landed: the pool      *)
(* never gets a client with a transaction left open (run's catch block     *)
(* and prepare's own ROLLBACK).                                            *)
NoTransactionLeft == Quiet /\ entry = "idle" => tx = "idle"

(* A transaction the caller had open is never ended by the dump, in any    *)
(* mode ("leaves commit/rollback to the caller").                          *)
CallerTransactionKept ==
  [][entry # "idle" => tx' # "idle"]_vars

(* run resolves in managed mode only after the backend committed the       *)
(* snapshot transaction that all the work ran in.  An aborted block would  *)
(* answer COMMIT without an error, so this rests on restoreSearchPath      *)
(* failing there first.                                                    *)
SuccessMeansCommitted ==
  pc = "done" /\ failure = "none" /\ opt.mode = "managed" => committed

(* The caller's search_path is back when the session ends, unless the      *)
(* signal fired outside managed mode or the caller's own transaction is    *)
(* aborted.                                                                *)
SearchPathKept ==
  Quiet /\ (opt.mode = "managed" \/ ~aborted) /\ tx # "failed" => path = "caller"

(* The same without the exemption for an abort: the "deterministic         *)
(* transaction and connection cleanup semantics" DumpSessionManager        *)
(* claims.  An abort while the set_config that hides the search_path is in *)
(* flight leaves previousSearchPath undefined, although it takes effect.   *)
SearchPathDeterministic == Quiet /\ tx # "failed" => path = "caller"

(* The acquired connection is released exactly once on every path, and     *)
(* only then does the caller's promise settle.                             *)
EventuallyReleased ==
  (pc = "version") ~> (pc = "done" /\ releases = 1)

-----------------------------------------------------------------------------
(* The inductive invariant behind the theorems of DumpSessionProofs.       *)

(* The client waits for one statement at a time, the one its await point   *)
(* sends, and an unsignalled one is never cut short.                       *)
WireInv ==
  /\ sent # "none" => pc \in Asking /\ reply = "none" /\ sent = Text(pc)
  /\ reply # "none" => pc \in Asking /\ sent = "none"
  /\ pc \in Unsignalled => reply # "rejected"
  /\ orphan \notin {"show path", "ROLLBACK"}

(* Everything that begins or ends a transaction is managed mode on a       *)
(* connection that came in idle, and an adapter that was told of a         *)
(* caller's transaction never believes the session idle.                   *)
Owned == opt.mode = "managed" /\ entry = "idle"

OwnerInv ==
  /\ began \/ pc \in {"begin", "undoBegin", "commit", "rollback"}
        \/ orphan \in {"BEGIN", "COMMIT"} => Owned
  /\ pc \in {"commit", "rollback"} => began
  /\ entry # "idle" => tracked # "idle" /\ tx # "idle"

(* The points at which the dump's transaction is running ...               *)
Running == {"readPath", "hidePath", "work", "recheck", "showPath"}

RunningInv ==
  /\ pc \in Running /\ opt.mode = "managed" => began
  /\ pc \in {"acquire", "connecting", "version", "status", "begin", "undoBegin"}
       => ~began /\ ~saved
  /\ pc = "begin" /\ reply = "ok" => tx = "open" /\ orphan = "none"
  /\ began /\ pc \in Running => tx # "idle"
  /\ orphan = "COMMIT" => pc \in {"commit", "rollback", "release", "done"}
  /\ began /\ pc = "showPath" /\ reply = "ok" => tx = "open" /\ orphan = "none"
  /\ pc = "commit" => ~saved
  /\ pc = "commit" /\ reply = "none" => tx = "open" /\ orphan = "none"
  /\ pc = "commit" /\ reply = "ok" => committed /\ tx = "idle" /\ orphan = "none"

(* ... and those at which it can no longer be there.                       *)
Held ==
  \/ pc \in {"begin", "undoBegin"}
  \/ began /\ pc \notin {"release", "done"}

ClosedInv ==
  up /\ entry = "idle" =>
    /\ ~Held => tx = "idle" /\ orphan # "BEGIN"
    /\ pc \in {"undoBegin", "rollback"} /\ reply # "none"
         => tx = "idle" /\ orphan = "none"

OutcomeInv ==
  /\ pc \in {"release", "done"} /\ failure = "none" /\ opt.mode = "managed" => committed
  /\ pc # "done" => releases = 0

Inv == TypeOK /\ WireInv /\ OwnerInv /\ RunningInv /\ ClosedInv /\ OutcomeInv

(* A managed dump hides the search_path for its transaction only, so that  *)
(* the path is back when that transaction has ended.                       *)
ManagedPath ==
  /\ path # "session-empty"
  /\ path = "tx-empty" \/ orphan = "hide path" => tx # "idle" /\ entry = "idle"

(* Outside managed mode the path is hidden only where the client remembers *)
(* that it must put it back, or has yet to read that it hid it.            *)
UnmanagedPath ==
  path # "caller" =>
    \/ pc = "hidePath" /\ reply = "ok"
    \/ saved /\ pc \in {"work", "recheck"}
    \/ saved /\ pc \in {"showPath", "cleanPath"} /\ reply = "none"

PathInv ==
  /\ orphan # "none" \/ reply = "rejected" => aborted
  /\ opt.mode = "managed" => ManagedPath
  /\ opt.mode # "managed" /\ ~aborted /\ up /\ tx # "failed" => UnmanagedPath
=============================================================================
