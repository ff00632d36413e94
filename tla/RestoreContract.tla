-------------------------- MODULE RestoreContract --------------------------
(***************************************************************************)
(* What restoreSqlDump promises of a restore, without a connection, a      *)
(* reader or a transaction: the operations of the dump are taken in order, *)
(* each is settled, as completed or as failed and never as both, before    *)
(* the next one is taken; with stopOnError nothing follows a failure; and  *)
(* the promise settles, with a status that tells whether anything failed.  *)
(***************************************************************************)
EXTENDS Integers

VARIABLES
  stopOnError, \* the option
  taken,       \* operations handed out by the reader so far
  completed,   \* those counted in operationsCompleted ...
  failed,      \* ... and those in operationsFailed and result.errors
  outcome      \* how the promise settled

vars == <<stopOnError, taken, completed, failed, outcome>>

Outcomes == {"running", "success", "completed-with-errors", "cancelled", "failed"}

Init ==
  /\ stopOnError \in BOOLEAN
  /\ taken = 0 /\ completed = {} /\ failed = {}
  /\ outcome = "running"

Settled == completed \cup failed = 1..taken

MayGoOn == outcome = "running" /\ Settled /\ (stopOnError => failed = {})

Take ==
  /\ MayGoOn
  /\ taken' = taken + 1
  /\ UNCHANGED <<stopOnError, completed, failed, outcome>>

Complete ==
  /\ outcome = "running" /\ ~Settled
  /\ completed' = completed \cup {taken}
  /\ UNCHANGED <<stopOnError, taken, failed, outcome>>

Fail ==
  /\ outcome = "running" /\ ~Settled
  /\ failed' = failed \cup {taken}
  /\ UNCHANGED <<stopOnError, taken, completed, outcome>>

Resolve ==
  /\ MayGoOn
  /\ outcome' = IF failed = {} THEN "success" ELSE "completed-with-errors"
  /\ UNCHANGED <<stopOnError, taken, completed, failed>>

Reject ==
  /\ outcome = "running"
  /\ outcome' \in {"cancelled", "failed"}
  /\ UNCHANGED <<stopOnError, taken, completed, failed>>

Next == Take \/ Complete \/ Fail \/ Resolve \/ Reject

Spec == Init /\ [][Next]_vars /\ WF_vars(Resolve \/ Reject)
=============================================================================
