--------------------------- MODULE ArchiveSelection ---------------------------
(****************************************************************************)
(* Which entries of the archive are dumped, and in which order              *)
(* (archive/ArchiveSelection.ts, archive/SectionRules.ts; the sort itself   *)
(* is the module DependencyGraph).                                          *)
(*                                                                          *)
(* opt.mode is the dump mode, opt.sections the sections asked for ({} for   *)
(* all), opt.filter the filter the catalogs were read with, applied to the  *)
(* entries a second time.                                                   *)
(****************************************************************************)
EXTENDS ArchiveEntries, Sequences

PreData == {"database", "extension", "schema", "enum", "domain", "sequence", "table",
            "column", "function", "procedure", "aggregate", "view", "materialized-view",
            "large-object", "foreign-data-wrapper", "foreign-server", "user-mapping",
            "procedural-language", "tablespace", "role"}
Data == {"table-data", "materialized-view-data", "sequence-state", "large-object-data"}

SectionOf(e) == IF e.t \in PreData THEN 0 ELSE IF e.t \in Data THEN 1 ELSE 2

Priority(e) ==
    CASE e.t = "database" -> 0             [] e.t = "role" -> 1
      [] e.t = "tablespace" -> 2           [] e.t = "large-object" -> 5
      [] e.t = "extension" -> 10           [] e.t = "procedural-language" -> 12
      [] e.t = "foreign-data-wrapper" -> 15  [] e.t = "foreign-server" -> 16
      [] e.t = "user-mapping" -> 17        [] e.t = "schema" -> 20
      [] e.t = "enum" -> 30                [] e.t = "domain" -> 40
      [] e.t = "sequence" -> 50            [] e.t = "function" -> 60
      [] e.t = "procedure" -> 65           [] e.t = "aggregate" -> 70
      [] e.t = "table" -> 80               [] e.t = "column" -> 90
      [] e.t = "view" -> 100               [] e.t = "materialized-view" -> 110
      [] e.t = "large-object-data" -> 1    [] e.t = "table-data" -> 10
      [] e.t = "materialized-view-data" -> 20  [] e.t = "sequence-state" -> 30
      [] e.t = "sequence-ownership" -> 5   [] e.t = "constraint" -> 10
      [] e.t = "index" -> 20               [] e.t = "statistics" -> 25
      [] e.t = "foreign-key" -> 30         [] e.t = "trigger" -> 40
      [] e.t = "rule" -> 50                [] e.t = "policy" -> 60
      [] e.t = "large-object-metadata" -> 65  [] e.t = "ownership" -> 70
      [] e.t = "comment" -> 80             [] e.t = "acl" -> 90
      [] e.t = "security-label" -> 95      [] e.t = "publication" -> 105
      [] e.t = "event-trigger" -> 110      [] e.t = "subscription" -> 120

(***************************************************************************)
(* What the mode and the sections exclude is never selected, not even as a *)
(* dependency.                                                             *)
(***************************************************************************)
HardExcluded(e, opt) ==
    \/ opt.sections # {} /\ SectionOf(e) \notin opt.sections
    \/ opt.mode = "schema-only" /\ SectionOf(e) = 1
    \/ opt.mode = "data-only" /\ SectionOf(e) # 1

(***************************************************************************)
(* The table an entry counts with under a table filter: a table and its    *)
(* data, and what has a table or a column for its parent.                  *)
(***************************************************************************)
TablesOf(e, db) ==
    CASE Kind(e.o) = "table" -> {e.o}
      [] e.t = "sequence-ownership" -> OwnerTable(e.o, db)
      [] e.t = Kind(e.o) /\ On(e.o) # 0 /\ Kind(On(e.o)) = "table" -> {On(e.o)}
      [] OTHER -> {}

PassesFilter(e, db, f) ==
    /\ FiledUnder(e.o) # 0 => SchemaSelected(FiledUnder(e.o), f)
    /\ f.tables # {} => TablesOf(e, db) \cap f.tables # {}
    /\ TablesOf(e, db) \cap f.noTables = {}

(***************************************************************************)
(* A set with what its steps lead to; repeated, the least set that holds S *)
(* and is closed under the steps.  Dependencies are taken in along the     *)
(* hard edges to what is not excluded outright.                            *)
(***************************************************************************)
WithTargets(T, steps) == T \cup {d.to : d \in {x \in steps : x.from \in T}}

Closing(U, steps) ==
    LET Grow[T \in SUBSET U] ==
            LET V == WithTargets(T, steps) IN IF V = T THEN T ELSE Grow[V]
    IN Grow

Followed(edges, opt) == {d \in edges : d.hard /\ ~HardExcluded(d.to, opt)}

WithDependencies(S, es, edges, opt) == Closing(es, Followed(edges, opt))[S]

Selected(es, edges, db, opt) ==
    LET explicit == {e \in es : ~HardExcluded(e, opt) /\ PassesFilter(e, db, opt.filter)}
        closed == WithDependencies(explicit, es, edges, opt)
    IN {e \in closed : MemberOf(e) # 0 => Entry("extension", MemberOf(e)) \notin closed}

\* An entry may only have edges to its own section or an earlier one.
SectionsAgree(selected, edges) ==
    \A d \in edges :
        {d.from, d.to} \subseteq selected => SectionOf(d.to) <= SectionOf(d.from)

(***************************************************************************)
(* The order: of the entries whose edges within the selection are all      *)
(* behind, the first by section, priority and identity.  Identities go by  *)
(* name; the names of the source follow its ids, up or down.  The order    *)
(* ends before the entries whose edges form a cycle; preferences, all to   *)
(* data entries, are in none.                                              *)
(***************************************************************************)
Earlier(d, e, naming) ==
    LET byName(x, y) == IF naming = "asc" THEN x < y ELSE y < x
    IN \/ SectionOf(d) < SectionOf(e)
       \/ SectionOf(d) = SectionOf(e) /\ Priority(d) < Priority(e)
       \/ /\ SectionOf(d) = SectionOf(e)
          /\ Priority(d) = Priority(e)
          /\ byName(d.o, e.o) \/ (d.o = e.o /\ d.g < e.g)

Ready(todo, edges) == {e \in todo : \A d \in edges : d.from = e => d.to \notin todo}

First(S, naming) == CHOOSE e \in S : \A d \in S \ {e} : Earlier(e, d, naming)

Sorting(selected, edges, naming) ==
    LET Sort[todo \in SUBSET selected] ==
            IF Ready(todo, edges) = {} THEN <<>>
            ELSE LET next == First(Ready(todo, edges), naming)
                 IN <<next>> \o Sort[todo \ {next}]
    IN Sort

Ordered(selected, edges, naming) == Sorting(selected, edges, naming)[selected]
===============================================================================
