------------------------------- MODULE Preflight -------------------------------
(****************************************************************************)
(* The check made before anything is written (preflight/                    *)
(* DumpPreflightAnalyzer.ts, model/DumpOrchestrator.ts): features of the    *)
(* introspected database the target lacks, selected or not, and selected    *)
(* objects a transaction cannot restore.                                    *)
(*                                                                          *)
(* opt.tx is the restoreTransactionMode, "unset" when the caller gave none. *)
(****************************************************************************)
EXTENDS SqlStatements

\* The features looked for.  Foreign tables count as partitioned ones; the access
\* method of a materialized view is not looked at, and a key's nulls are seen on
\* the index behind it.
PreflightFeatures(o) ==
    CASE Kind(o) = "materialized-view" -> {}
      [] Kind(o) = "constraint" -> {}
      [] Kind(o) = "index" ->
           Features(ObjectEntry(o))
             \cup (IF "nulls" \in Marks(o) THEN {Lacking(FALSE, FALSE, FALSE)} ELSE {})
      [] Kind(o) = "table" /\ "foreign" \in Marks(o) -> {Lacking(TRUE, FALSE, FALSE)}
      [] OTHER -> Features(ObjectEntry(o))

\* Mutant of Fatal: what may be skipped with a warning is taken to be harmless.
FatalUnlessSafe(ft, policy) == ~ft.safe /\ policy # "warn-skip"

\* A replacement does not help here: only the renderer knows of it.
Fatal(ft, policy) == policy = "error" \/ (~ft.safe /\ policy # "warn-skip")

Lacks(db, opt) ==
    /\ opt.target = "old"
    /\ \E o \in db : \E ft \in PreflightFeatures(o) : Fatal(ft, Policy(opt))

OwnedByDatabaseOwner(selected, opt) ==
    /\ opt.target = "old"
    /\ ~opt.bare
    /\ \E e \in selected : /\ e.t = "ownership"
                           /\ \E ft \in Features(e) : Fatal(ft, Policy(opt))

Untransactional(selected, opt) ==
    /\ opt.tx # "none"
    /\ \E e \in selected : e.t \in {"tablespace", "subscription"}

Fails(db, selected, opt) ==
    \/ Lacks(db, opt)
    \/ OwnedByDatabaseOwner(selected, opt)
    \/ Untransactional(selected, opt)
===============================================================================
