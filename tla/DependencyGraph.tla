--------------------------- MODULE DependencyGraph ---------------------------
(***************************************************************************)
(* The archive's dependency graph and the order entries are dumped in.     *)
(*                                                                         *)
(* DumpArchiveBuilder records dependencies while it adds entries, and      *)
(* freezes each entry with its records consolidated per target.  The       *)
(* graph then checks sections, drops ordering preferences inside cycles,   *)
(* reports the cycles that remain, and sorts with Kahn's algorithm.        *)
(*                                                                         *)
(* Entries are named by their place under compareEntries, which compares   *)
(* sections first: so e < f means that e is preferred to f, and sections   *)
(* grow with the name.                                                     *)
(***************************************************************************)
EXTENDS Naturals, FiniteSets, Sequences

CONSTANTS
  EntryCount,   \* entries of the archive
  MaxRecords    \* dependency records added by the builder (bound)

ASSUME CountAssumption == EntryCount \in Nat /\ MaxRecords \in Nat

Entries   == 1..EntryCount
Strengths == {"hard", "preference"}
Records   == [from : Entries, to : Entries, strength : Strengths]

VARIABLES
  phase,         \* build, resolve, sort, done
  section,       \* dumpSectionPriority of each entry
  selected,      \* entries with selection.selected
  records,       \* what addDependency has stored
  dependencies,  \* the graph's records, one per entry and target
  dropped,       \* preferences dropped to resolve a cycle
  errors,        \* codes of the error diagnostics
  remaining,     \* remainingDependencies
  available,     \* entries ready to be emitted, kept sorted by the code
  result         \* the entries in order

vars  == <<phase, section, selected, records, dependencies, dropped, errors,
           remaining, available, result>>
input == <<section, selected, records>>
graph == <<dependencies, dropped, errors>>
kahn  == <<remaining, available, result>>

Init ==
  /\ phase = "build"
  /\ section \in {s \in [Entries -> 0..2] : \A e, f \in Entries : e < f => s[e] <= s[f]}
  /\ selected \in SUBSET Entries
  /\ records = {} /\ dependencies = {} /\ dropped = {} /\ errors = {}
  /\ remaining = [e \in Entries |-> 0] /\ available = {} /\ result = <<>>

-----------------------------------------------------------------------------
(* addDependency: a record per target, strength and source; a dependency   *)
(* of an entry on itself is not recorded.                                  *)
AddDependency(r) ==
  /\ phase = "build" /\ Cardinality(records) < MaxRecords
  /\ r.from # r.to
  /\ records' = records \cup {r}
  /\ UNCHANGED <<phase, section, selected, graph, kahn>>

\* Mutant of Consolidated: an entry keeps a record per target and strength.
Unconsolidated(R) == R

(* freezeEntry: one record per target, a hard one if there is any.         *)
Consolidated(R) ==
  {r \in R : r.strength = "hard" \/ [r EXCEPT !.strength = "hard"] \notin R}

(* The records between selected entries are the graph's.                   *)
Freeze ==
  /\ phase = "build" /\ phase' = "resolve"
  /\ dependencies' = {r \in Consolidated(records) : r.from \in selected /\ r.to \in selected}
  /\ UNCHANGED <<section, selected, records, dropped, errors, kahn>>

-----------------------------------------------------------------------------
(* stronglyConnectedComponents, as the relation it decides: the entries    *)
(* that reach each other along the records of R, by way of 1..n.           *)
Via(R) ==
  LET via[n \in 0..EntryCount] ==
        IF n = 0 THEN {<<r.from, r.to>> : r \in R}
        ELSE via[n - 1] \cup
             {p \in Entries \X Entries : <<p[1], n>> \in via[n - 1] /\ <<n, p[2]>> \in via[n - 1]}
  IN via

Reaches(R) == Via(R)[EntryCount]

(* The records inside cyclic components.                                   *)
OnCycle(R) == LET reach == Reaches(R) IN {r \in R : <<r.to, r.from>> \in reach}

\* Mutant of BadSections: a record between sections is never an error.
BadSectionsIgnored(R) == {}

BadSections(R) == {r \in R : section[r.from] < section[r.to]}

\* Mutant of Droppable: every record of a cycle is dropped.
DroppableAny(R) == OnCycle(R)

\* Mutant of Droppable: preferences are dropped on and off cycles.
DroppableEverywhere(R) == {r \in R : r.strength = "preference"}

Droppable(R) == {r \in OnCycle(R) : r.strength = "preference"}

(* order() up to the sort: sections, preferences inside cycles, and the    *)
(* cycles that are left.                                                   *)
Resolve ==
  /\ phase = "resolve" /\ phase' = "sort"
  /\ dropped' = Droppable(dependencies)
  /\ dependencies' = dependencies \ dropped'
  /\ errors' = (IF BadSections(dependencies) = {} THEN {} ELSE {"invalid-section-dependency"})
          \cup (IF OnCycle(dependencies') = {} THEN {} ELSE {"dependency-cycle"})
  /\ LET count == [e \in Entries |-> Cardinality({r \in dependencies' : r.from = e})]
     IN /\ remaining' = count
        /\ available' = IF errors' = {} THEN {e \in selected : count[e] = 0} ELSE {}
  /\ UNCHANGED <<input, result>>

\* Mutant of Preferred: the entry is taken from the wrong end.
PreferredLast(S) == CHOOSE e \in S : \A f \in S : f <= e

(* available.shift() of the sorted list.                                   *)
Preferred(S) == CHOOSE e \in S : \A f \in S : e <= f

Dependents(e) == {r.from : r \in {q \in dependencies : q.to = e}}

\* Mutant of Emit: an entry is ready when its first dependency is emitted.
EmitEarly ==
  /\ phase = "sort" /\ available # {}
  /\ LET e == Preferred(available)
     IN /\ result' = Append(result, e)
        /\ remaining' = [f \in Entries |-> IF f \in Dependents(e) THEN remaining[f] - 1
                                           ELSE remaining[f]]
        /\ available' = (available \ {e}) \cup
             {f \in Dependents(e) : \A i \in 1..Len(result) : result[i] # f}
  /\ UNCHANGED <<phase, input, graph>>

\* Mutant of Emit: the entry stays at the head of the list.
EmitKeeps ==
  /\ phase = "sort" /\ available # {}
  /\ LET e == Preferred(available)
     IN /\ result' = Append(result, e)
        /\ remaining' = [f \in Entries |-> IF f \in Dependents(e) THEN remaining[f] - 1
                                           ELSE remaining[f]]
        /\ available' = available \cup {f \in Dependents(e) : remaining[f] = 1}
  /\ UNCHANGED <<phase, input, graph>>

(* One turn of the sort: emit an entry, count down its dependents (each    *)
(* once: they are a Set), add those that are ready.                        *)
Emit ==
  /\ phase = "sort" /\ available # {}
  /\ LET e == Preferred(available)
     IN /\ result' = Append(result, e)
        /\ remaining' = [f \in Entries |-> IF f \in Dependents(e) THEN remaining[f] - 1
                                           ELSE remaining[f]]
        /\ available' = (available \ {e}) \cup {f \in Dependents(e) : remaining[f] = 1}
  /\ UNCHANGED <<phase, input, graph>>

Sorted ==
  /\ phase = "sort" /\ available = {} /\ phase' = "done"
  /\ UNCHANGED <<input, graph, kahn>>

Next == (\E r \in Records : AddDependency(r)) \/ Freeze \/ Resolve \/ Emit \/ Sorted

Spec == Init /\ [][Next]_vars
-----------------------------------------------------------------------------
Emitted  == {result[i] : i \in 1..Len(result)}
Position(e) == CHOOSE i \in 1..Len(result) : result[i] = e
Ordered  == phase = "done" /\ errors = {}

TypeOK ==
  /\ phase \in {"build", "resolve", "sort", "done"}
  /\ section \in [Entries -> 0..2] /\ selected \subseteq Entries
  /\ records \subseteq Records /\ dependencies \subseteq Records /\ dropped \subseteq Records
  /\ errors \subseteq {"invalid-section-dependency", "dependency-cycle"}
  /\ remaining \in [Entries -> Nat] /\ available \subseteq Entries
  /\ result \in Seq(Entries)

(* No entry is emitted before an entry it depends on: the count of         *)
(* remainingDependencies reaches zero with the last of them and not before.*)
DependenciesFirst ==
  \A r \in dependencies : \A i \in 1..Len(result) :
    result[i] = r.from => \E j \in 1..(i - 1) : result[j] = r.to

(* No entry is emitted twice.                                              *)
EmittedOnce == \A i, j \in 1..Len(result) : result[i] = result[j] => i = j

(* An order without errors has every selected entry: nothing is left       *)
(* waiting for a count that cannot reach zero.                             *)
NothingLost == Ordered => Emitted = selected

(* Sections are contiguous, as the renderer's section transactions and its *)
(* one batch of table data need, although the sort looks only at what is   *)
(* available.                                                              *)
SectionsContiguous ==
  \A i, j \in 1..Len(result) : i < j => section[result[i]] <= section[result[j]]

(* DependencyGraph.ts: "Hard edges are never removed", and a preference is *)
(* given up only on a cycle of the recorded dependencies: an order without *)
(* errors respects every other record between selected entries.            *)
RecordsRespected ==
  Ordered =>
    \A r \in records : r.from \in selected /\ r.to \in selected =>
      \/ Position(r.to) < Position(r.from)
      \/ r.strength = "preference" /\ r \in OnCycle(records)

(* Planning fails exactly when no order exists: a cycle of hard records,   *)
(* or a record that runs against the sections.                             *)
RefusedOnlyWhenImpossible ==
  phase = "done" =>
    LET between == {r \in records : r.from \in selected /\ r.to \in selected}
        hard    == {r \in between : r.strength = "hard"}
    IN errors # {} <=> OnCycle(hard) # {} \/ BadSections(between) # {}

(* The order is the least one, entry by entry, of those that respect the   *)
(* dependencies: it is determined by the archive alone, not by the order   *)
(* in which entries were added or became available.                        *)
CanonicalOrder ==
  \A i \in 1..Len(result) :
    \A e \in selected \ {result[j] : j \in 1..i} :
      e < result[i] =>
        \E r \in dependencies : r.from = e /\ r.to \notin {result[j] : j \in 1..(i - 1)}
-----------------------------------------------------------------------------
(* What makes the properties inductive.                                    *)
OpenRecords(e) == {r \in dependencies : r.from = e /\ r.to \notin Emitted}

(* The graph has one record per entry and target, between selected entries.*)
GraphInv ==
  /\ IsFiniteSet(records) /\ IsFiniteSet(dependencies)
  /\ \A r \in dependencies : r.from \in selected /\ r.to \in selected
  /\ \A q, r \in dependencies : q.from = r.from /\ q.to = r.to => q = r

SectionOrder == \A e, f \in Entries : e <= f => section[e] <= section[f]

(* remainingDependencies counts the records still open.                    *)
CountInv ==
  phase \in {"sort", "done"} =>
    \A e \in Entries : remaining[e] = Cardinality(OpenRecords(e))

(* The entries that are available are those with no record open.           *)
ReadyInv ==
  /\ Emitted \subseteq selected
  /\ IF phase \in {"sort", "done"} /\ errors = {}
     THEN available = {e \in selected \ Emitted : OpenRecords(e) = {}}
     ELSE available = {} /\ result = <<>>
  /\ phase = "done" => available = {}

(* What is available belongs to the section last emitted or a later one.   *)
SectionInv ==
  phase \in {"sort", "done"} /\ errors = {} =>
    /\ BadSections(dependencies) = {}
    /\ \A i \in 1..Len(result) : \A f \in available : section[result[i]] <= section[f]

(* What the graph is made of: the records between selected entries as they *)
(* were frozen, the preferences dropped from them, and the verdict.        *)
Recorded == {r \in Consolidated(records) : r.from \in selected /\ r.to \in selected}

FrozenInv ==
  /\ phase = "resolve" => dependencies = Recorded
  /\ phase \in {"sort", "done"} =>
       /\ dropped = Droppable(Recorded) /\ dependencies = Recorded \ dropped
       /\ errors = {} <=> BadSections(Recorded) = {} /\ OnCycle(dependencies) = {}

Inv ==
  /\ TypeOK /\ GraphInv /\ SectionOrder /\ CountInv /\ ReadyInv /\ SectionInv
  /\ DependenciesFirst /\ EmittedOnce /\ SectionsContiguous /\ CanonicalOrder
=============================================================================
