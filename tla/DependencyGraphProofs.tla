----------------------- MODULE DependencyGraphProofs -----------------------
(***************************************************************************)
(* Proofs about DependencyGraph, for every archive: what the sort emits    *)
(* respects the records and the sections, whatever the builder recorded;   *)
(* and what it loses, and when planning is refused.                        *)
(***************************************************************************)
EXTENDS DependencyGraph, TLAPS, FiniteSetTheorems, WellFoundedInduction

(* available.shift() takes an entry, and no available one is preferred.    *)
LEMMA PreferredIsLeast ==
  ASSUME NEW S, S \subseteq Entries, S # {}
  PROVE  Preferred(S) \in S /\ \A f \in S : Preferred(S) <= f
<1>1. S \subseteq Nat
  BY CountAssumption DEF Entries
<1>2. PICK e \in S : \A f \in S : ~ (<<f, e>> \in OpToRel(<, Nat))
  <2>1. IsWellFoundedOn(OpToRel(<, Nat), Nat)
    BY NatLessThanWellFounded
  <2>2. QED
    BY <1>1, <2>1, WFMin
<1>3. \A f \in S : ~ (f < e)
  BY <1>1, <1>2 DEF OpToRel
<1>4. \A f \in S : e <= f
  BY <1>1, <1>3
<1>5. QED
  BY <1>4 DEF Preferred

(* freezeEntry leaves one record per entry and target.                     *)
LEMMA ConsolidatedOnce ==
  ASSUME NEW R, R \subseteq Records,
         NEW q \in Consolidated(R), NEW r \in Consolidated(R), q.from = r.from, q.to = r.to
  PROVE  q = r
<1>1. /\ q = [from |-> q.from, to |-> q.to, strength |-> q.strength]
      /\ r = [from |-> r.from, to |-> r.to, strength |-> r.strength]
      /\ q.strength \in Strengths /\ r.strength \in Strengths
  BY DEF Consolidated, Records
<1>2. CASE q.strength = r.strength
  BY <1>1, <1>2
<1>3. CASE q.strength = "hard" /\ r.strength = "preference"
  <2>1. [r EXCEPT !.strength = "hard"] = q
    BY <1>1, <1>3
  <2>2. QED
    BY <1>3, <2>1 DEF Consolidated
<1>4. CASE q.strength = "preference" /\ r.strength = "hard"
  <2>1. [q EXCEPT !.strength = "hard"] = r
    BY <1>1, <1>4
  <2>2. QED
    BY <1>4, <2>1 DEF Consolidated
<1>5. QED
  BY <1>1, <1>2, <1>3, <1>4 DEF Strengths

(* The records of a finite graph that satisfy a condition can be counted.  *)
LEMMA CountedRecords ==
  ASSUME IsFiniteSet(dependencies), NEW S, S \subseteq dependencies
  PROVE  IsFiniteSet(S) /\ Cardinality(S) \in Nat
BY FS_Subset, FS_CardinalityType

-----------------------------------------------------------------------------
LEMMA InitInv == Init => Inv
<1> SUFFICES ASSUME Init PROVE Inv
  OBVIOUS
<1>0. Len(result) = 0 /\ Emitted = {}
  BY DEF Init, Emitted
<1>1. TypeOK
  BY DEF Init, TypeOK
<1>2. GraphInv
  BY FS_EmptySet DEF Init, GraphInv
<1>3. SectionOrder
  <2>1. \A e, f \in Entries : e <= f => e = f \/ e < f
    BY CountAssumption DEF Entries
  <2>2. \A e \in Entries : section[e] <= section[e]
    BY DEF Init
  <2>3. QED
    BY <2>1, <2>2 DEF Init, SectionOrder
<1>4. CountInv /\ SectionInv
  BY DEF Init, CountInv, SectionInv
<1>5. ReadyInv
  BY <1>0 DEF Init, ReadyInv
<1>6. DependenciesFirst /\ EmittedOnce /\ SectionsContiguous /\ CanonicalOrder
  BY <1>0 DEF Init, DependenciesFirst, EmittedOnce, SectionsContiguous, CanonicalOrder
<1>7. QED
  BY <1>1, <1>2, <1>3, <1>4, <1>5, <1>6 DEF Inv

(* A step that leaves nothing emitted has nothing to show for the result.  *)
LEMMA NothingEmitted ==
  ASSUME result' = <<>>
  PROVE  (/\ Emitted = {} /\ DependenciesFirst /\ EmittedOnce
          /\ SectionsContiguous /\ CanonicalOrder)'
<1>1. \A i \in 1..Len(result') : FALSE
  OBVIOUS
<1>2. QED
  BY <1>1 DEF Emitted, DependenciesFirst, EmittedOnce, SectionsContiguous, CanonicalOrder

LEMMA AddDependencyStep ==
  ASSUME Inv, NEW r \in Records, AddDependency(r) PROVE Inv'
<1> USE DEF AddDependency, input, graph, kahn
<1>1. TypeOK'
  BY DEF Inv, TypeOK
<1>2. GraphInv'
  <2>1. IsFiniteSet(records')
    BY FS_AddElement DEF Inv, GraphInv
  <2>2. QED
    BY <2>1 DEF Inv, GraphInv
<1>3. SectionOrder' /\ CountInv' /\ SectionInv'
  BY DEF Inv, SectionOrder, CountInv, SectionInv
<1>4. ReadyInv'
  BY DEF Inv, ReadyInv, Emitted
<1>5. DependenciesFirst' /\ EmittedOnce' /\ SectionsContiguous' /\ CanonicalOrder'
  BY DEF Inv, DependenciesFirst, EmittedOnce, SectionsContiguous, CanonicalOrder
<1>6. QED
  BY <1>1, <1>2, <1>3, <1>4, <1>5 DEF Inv

LEMMA FreezeStep == ASSUME Inv, Freeze PROVE Inv'
<1> USE DEF Freeze, input, graph, kahn
<1>1. dependencies' \subseteq records /\ records \subseteq Records
  BY DEF Inv, TypeOK, Consolidated
<1>2. result' = <<>> /\ available' = {} /\ phase' = "resolve"
  BY DEF Inv, ReadyInv
<1>3. TypeOK'
  BY <1>1 DEF Inv, TypeOK
<1>4. GraphInv'
  <2>1. IsFiniteSet(dependencies')
    BY <1>1, FS_Subset DEF Inv, GraphInv
  <2>2. \A q, r \in dependencies' : q.from = r.from /\ q.to = r.to => q = r
    BY <1>1, ConsolidatedOnce
  <2>3. QED
    BY <2>1, <2>2 DEF Inv, GraphInv
<1>5. SectionOrder' /\ CountInv' /\ SectionInv'
  BY <1>2 DEF Inv, SectionOrder, CountInv, SectionInv
<1>6. (/\ Emitted = {} /\ DependenciesFirst /\ EmittedOnce /\ SectionsContiguous
       /\ CanonicalOrder)'
  BY <1>2, NothingEmitted
<1>7. ReadyInv'
  BY <1>2, <1>6 DEF ReadyInv
<1>8. QED
  BY <1>3, <1>4, <1>5, <1>6, <1>7 DEF Inv

LEMMA ResolveStep == ASSUME Inv, Resolve PROVE Inv'
<1> USE DEF Resolve, input
<1> DEFINE count == [e \in Entries |-> Cardinality({r \in dependencies' : r.from = e})]
<1>1. /\ dependencies' = dependencies \ dropped'
      /\ dropped' \subseteq dependencies /\ dependencies \subseteq Records
      /\ result' = <<>> /\ phase' = "sort"
  BY DEF Inv, TypeOK, ReadyInv, Droppable, OnCycle
<1>2. (/\ Emitted = {} /\ DependenciesFirst /\ EmittedOnce /\ SectionsContiguous
       /\ CanonicalOrder)'
  BY <1>1, NothingEmitted
<1>3. IsFiniteSet(dependencies')
  BY <1>1, FS_Subset DEF Inv, GraphInv
<1>4. \A e \in Entries : OpenRecords(e)' = {r \in dependencies' : r.from = e}
  BY <1>2 DEF OpenRecords
<1>5. \A e \in Entries : /\ IsFiniteSet(OpenRecords(e)')
                         /\ remaining'[e] = Cardinality(OpenRecords(e)')
                         /\ remaining'[e] \in Nat
  <2> SUFFICES ASSUME NEW e \in Entries
               PROVE  /\ IsFiniteSet(OpenRecords(e)')
                      /\ remaining'[e] = Cardinality(OpenRecords(e)')
                      /\ remaining'[e] \in Nat
    OBVIOUS
  <2>1. IsFiniteSet(OpenRecords(e)')
    BY <1>3, <1>4, FS_Subset
  <2>2. remaining'[e] = Cardinality(OpenRecords(e)')
    BY <1>4
  <2>3. QED
    BY <2>1, <2>2, FS_CardinalityType
<1>6. errors' \subseteq {"invalid-section-dependency", "dependency-cycle"}
  OBVIOUS
<1>7. available' = IF errors' = {} THEN {e \in selected : remaining'[e] = 0} ELSE {}
  <2>1. remaining' = count
    OBVIOUS
  <2>2. available' = IF errors' = {} THEN {e \in selected : count[e] = 0} ELSE {}
    OBVIOUS
  <2>3. QED
    BY <2>1, <2>2
<1>8. TypeOK'
  <2>1. remaining' \in [Entries -> Nat]
    BY <1>5
  <2>2. available' \subseteq Entries
    BY <1>7 DEF Inv, TypeOK
  <2>3. QED
    BY <1>1, <1>6, <2>1, <2>2 DEF Inv, TypeOK
<1>9. GraphInv'
  BY <1>1, <1>3 DEF Inv, GraphInv
<1>10. SectionOrder' /\ CountInv'
  BY <1>5 DEF Inv, SectionOrder, CountInv
<1>11. ReadyInv'
  <2>1. \A e \in selected : remaining'[e] = 0 <=> OpenRecords(e)' = {}
    BY <1>5, FS_EmptySet DEF Inv, TypeOK
  <2>2. QED
    BY <1>1, <1>2, <1>7, <2>1 DEF ReadyInv
<1>12. SectionInv'
  <2>1. errors' = {} => BadSections(dependencies) = {}
    OBVIOUS
  <2>2. errors' = {} => BadSections(dependencies)' = {}
    BY <1>1, <2>1 DEF BadSections
  <2>3. \A i \in 1..Len(result') : FALSE
    BY <1>1
  <2>4. QED
    BY <2>2, <2>3 DEF SectionInv
<1>13. QED
  BY <1>2, <1>8, <1>9, <1>10, <1>11, <1>12 DEF Inv

LEMMA SortedStep == ASSUME Inv, Sorted PROVE Inv'
<1> USE DEF Sorted, input, graph, kahn
<1>1. TypeOK' /\ GraphInv' /\ SectionOrder' /\ CountInv' /\ SectionInv'
  BY DEF Inv, TypeOK, GraphInv, SectionOrder, CountInv, OpenRecords, Emitted, SectionInv,
         BadSections
<1>2. ReadyInv'
  BY DEF Inv, ReadyInv, OpenRecords, Emitted
<1>3. DependenciesFirst' /\ EmittedOnce' /\ SectionsContiguous' /\ CanonicalOrder'
  BY DEF Inv, DependenciesFirst, EmittedOnce, SectionsContiguous, CanonicalOrder
<1>4. QED
  BY <1>1, <1>2, <1>3 DEF Inv

-----------------------------------------------------------------------------
(* What one turn of the sort changes.                                      *)
LEMMA EmitChanges ==
  ASSUME Inv, Emit, NEW e, e = Preferred(available)
  PROVE  /\ phase = "sort" /\ errors = {}
         /\ e \in selected \ Emitted /\ OpenRecords(e) = {}
         /\ e \in available /\ \A f \in available : e <= f
         /\ Len(result') = Len(result) + 1 /\ result'[Len(result) + 1] = e
         /\ \A i \in 1..Len(result) : result'[i] = result[i]
         /\ Emitted' = Emitted \cup {e}
         /\ e \notin Dependents(e) /\ Dependents(e) \cap Emitted = {}
         /\ \A f \in Dependents(e) :
              \E r \in OpenRecords(f) : OpenRecords(f)' = OpenRecords(f) \ {r}
         /\ \A f : f \notin Dependents(e) => OpenRecords(f)' = OpenRecords(f)
<1> USE DEF Emit, input, graph
<1>1. e \in available /\ \A f \in available : e <= f
  BY PreferredIsLeast DEF Inv, TypeOK
<1>2. phase = "sort" /\ errors = {}
  BY DEF Inv, ReadyInv
<1>3. e \in selected \ Emitted /\ OpenRecords(e) = {}
  BY <1>1, <1>2 DEF Inv, ReadyInv
<1>4. result \in Seq(Entries) /\ e \in Entries /\ result' = Append(result, e)
  BY <1>1 DEF Inv, TypeOK
<1>5. /\ Len(result) \in Nat
      /\ Len(result') = Len(result) + 1 /\ result'[Len(result) + 1] = e
      /\ \A i \in 1..Len(result) : result'[i] = result[i]
  BY <1>4
<1>6. Emitted' = Emitted \cup {e}
  <2>1. 1..Len(result') = 1..Len(result) \cup {Len(result) + 1}
    BY <1>5
  <2>2. QED
    BY <1>5, <2>1 DEF Emitted
<1>7. \A r \in dependencies : r.to = e => r.from # e /\ r.from \notin Emitted
  <2>1. \A r \in dependencies : r.to = e => r.from # e
    BY <1>3 DEF OpenRecords
  <2>2. \A r \in dependencies : r.from \in Emitted => r.to \in Emitted
    <3> SUFFICES ASSUME NEW r \in dependencies, NEW i \in 1..Len(result), result[i] = r.from
                 PROVE  r.to \in Emitted
      BY DEF Emitted
    <3>1. PICK j \in 1..(i - 1) : result[j] = r.to
      BY DEF Inv, DependenciesFirst
    <3>2. j \in 1..Len(result)
      BY <1>5
    <3>3. QED
      BY <3>1, <3>2 DEF Emitted
  <2>3. QED
    BY <1>3, <2>1, <2>2
<1>8. e \notin Dependents(e) /\ Dependents(e) \cap Emitted = {}
  BY <1>7 DEF Dependents
<1>9. ASSUME NEW f \in Dependents(e)
      PROVE  \E r \in OpenRecords(f) : OpenRecords(f)' = OpenRecords(f) \ {r}
  <2>1. PICK r \in dependencies : r.from = f /\ r.to = e
    BY DEF Dependents
  <2>2. \A q \in dependencies : q.from = f /\ q.to = e => q = r
    BY <2>1 DEF Inv, GraphInv
  <2>3. r \in OpenRecords(f)
    BY <1>3, <2>1 DEF OpenRecords
  <2>4. OpenRecords(f)' = OpenRecords(f) \ {r}
    BY <1>6, <2>1, <2>2 DEF OpenRecords
  <2>5. QED
    BY <2>3, <2>4
<1>10. ASSUME NEW f, f \notin Dependents(e)
       PROVE  OpenRecords(f)' = OpenRecords(f)
  BY <1>6, <1>10 DEF OpenRecords, Dependents
<1>11. QED
  BY <1>1, <1>2, <1>3, <1>5, <1>6, <1>8, <1>9, <1>10

(* The count of an entry follows its open records.                         *)
LEMMA EmitCounts ==
  ASSUME Inv, Emit, NEW f \in Entries
  PROVE  /\ remaining'[f] \in Nat /\ remaining'[f] = Cardinality(OpenRecords(f)')
         /\ remaining'[f] = IF f \in Dependents(Preferred(available)) THEN remaining[f] - 1
                            ELSE remaining[f]
         /\ remaining'[f] = 0 <=> OpenRecords(f)' = {}
<1> DEFINE e == Preferred(available)
<1>1. /\ f \in Dependents(e) =>
           \E r \in OpenRecords(f) : OpenRecords(f)' = OpenRecords(f) \ {r}
      /\ f \notin Dependents(e) => OpenRecords(f)' = OpenRecords(f)
      /\ phase = "sort"
  BY EmitChanges
<1>2. IsFiniteSet(OpenRecords(f)) /\ Cardinality(OpenRecords(f)) \in Nat
  <2>1. OpenRecords(f) \subseteq dependencies /\ IsFiniteSet(dependencies)
    BY DEF Inv, GraphInv, OpenRecords
  <2>2. QED
    BY <2>1, CountedRecords
<1>3. remaining[f] = Cardinality(OpenRecords(f))
  BY <1>1 DEF Inv, CountInv
<1>4. remaining'[f] = IF f \in Dependents(e) THEN remaining[f] - 1 ELSE remaining[f]
  BY DEF Emit
<1>5. IsFiniteSet(OpenRecords(f)') /\ remaining'[f] = Cardinality(OpenRecords(f)')
  <2>1. CASE f \in Dependents(e)
    <3>1. PICK r \in OpenRecords(f) : OpenRecords(f)' = OpenRecords(f) \ {r}
      BY <1>1, <2>1
    <3>2. /\ IsFiniteSet(OpenRecords(f) \ {r})
          /\ Cardinality(OpenRecords(f) \ {r}) = Cardinality(OpenRecords(f)) - 1
      BY <1>2, FS_RemoveElement
    <3>3. QED
      BY <1>3, <1>4, <2>1, <3>1, <3>2
  <2>2. CASE f \notin Dependents(e)
    BY <1>1, <1>2, <1>3, <1>4, <2>2
  <2>3. QED
    BY <2>1, <2>2
<1>6. QED
  BY <1>4, <1>5, FS_CardinalityType, FS_EmptySet

LEMMA EmitStep == ASSUME Inv, Emit PROVE Inv'
<1> DEFINE e == Preferred(available)
<1> DEFINE n == Len(result)
<1>0. /\ UNCHANGED <<phase, section, selected, records, dependencies, dropped, errors>>
      /\ available' = (available \ {e}) \cup {f \in Dependents(e) : remaining[f] = 1}
      /\ result' = Append(result, e)
  BY DEF Emit, input, graph
<1>1. /\ phase = "sort" /\ errors = {} /\ e \in available /\ e \in selected \ Emitted
      /\ OpenRecords(e) = {} /\ \A f \in available : e <= f
      /\ e \notin Dependents(e) /\ Dependents(e) \cap Emitted = {}
      /\ Emitted' = Emitted \cup {e}
  BY EmitChanges
<1>2. /\ n \in Nat /\ Len(result') = n + 1 /\ result'[n + 1] = e
      /\ \A i \in 1..n : result'[i] = result[i]
      /\ 1..Len(result') = 1..n \cup {n + 1}
  BY EmitChanges DEF Inv, TypeOK
<1>3. \A i \in 1..n : i # n + 1 /\ 1..(i - 1) \subseteq 1..n /\ 1..i \subseteq 1..n
  BY <1>2
<1>4. Dependents(e) \subseteq selected /\ selected \subseteq Entries
  BY DEF Inv, GraphInv, TypeOK, Dependents
<1>5. \A f \in Entries :
        /\ remaining'[f] \in Nat /\ remaining'[f] = Cardinality(OpenRecords(f)')
        /\ remaining'[f] = IF f \in Dependents(e) THEN remaining[f] - 1 ELSE remaining[f]
        /\ remaining'[f] = 0 <=> OpenRecords(f)' = {}
  BY EmitCounts
<1>6. TypeOK'
  <2>1. remaining' \in [Entries -> Nat]
    <3>1. remaining' = [f \in Entries |-> remaining'[f]]
      BY DEF Emit
    <3>2. QED
      BY <1>5, <3>1
  <2>2. available' \subseteq Entries
    BY <1>0, <1>4 DEF Inv, TypeOK
  <2>3. result' \in Seq(Entries)
    BY <1>0, <1>1, <1>4 DEF Inv, TypeOK
  <2>4. QED
    BY <1>0, <2>1, <2>2, <2>3 DEF Inv, TypeOK
<1>7. GraphInv' /\ SectionOrder' /\ CountInv'
  BY <1>0, <1>5 DEF Inv, GraphInv, SectionOrder, CountInv
<1>8. ReadyInv'
  <2>1. available = {f \in selected \ Emitted : OpenRecords(f) = {}}
    BY <1>1 DEF Inv, ReadyInv
  <2>2. \A f \in Entries : f \in Dependents(e) =>
          (remaining[f] = 1 <=> OpenRecords(f)' = {})
    BY <1>5 DEF Inv, TypeOK
  <2>3. \A f : f \notin Dependents(e) => OpenRecords(f)' = OpenRecords(f)
    BY EmitChanges
  <2>4. \A f : OpenRecords(f)' \subseteq OpenRecords(f)
    BY <1>0, <1>1 DEF OpenRecords
  <2>5. available' = {f \in selected \ Emitted' : OpenRecords(f)' = {}}
    BY <1>0, <1>1, <1>4, <2>1, <2>2, <2>3, <2>4
  <2>6. Emitted' \subseteq selected
    BY <1>1 DEF Inv, ReadyInv
  <2>7. QED
    BY <1>0, <1>1, <2>5, <2>6 DEF ReadyInv
<1>9. SectionInv' /\ SectionsContiguous'
  <2>1. BadSections(dependencies) = {}
    BY <1>1 DEF Inv, SectionInv
  <2>2. section \in [Entries -> 0..2] /\ e \in Entries
    BY <1>1 DEF Inv, TypeOK
  <2>3. \A f \in available : section[e] <= section[f]
    BY <1>1 DEF Inv, SectionOrder, TypeOK
  <2>4. \A f \in Dependents(e) : section[e] <= section[f]
    <3>1. \A r \in dependencies : ~ (section[r.from] < section[r.to])
      BY <2>1 DEF BadSections
    <3>2. \A f \in Dependents(e) : ~ (section[f] < section[e])
      BY <3>1 DEF Dependents
    <3>3. QED
      BY <1>4, <2>2, <3>2
  <2>5. \A i \in 1..n : result[i] \in Entries
    BY <1>2 DEF Inv, TypeOK
  <2>6. \A i \in 1..n : section[result[i]] <= section[e]
    BY <1>1 DEF Inv, SectionInv
  <2>7. \A i \in 1..n : \A f \in available' : section[result[i]] <= section[f]
    <3>1. \A f \in available : f \in Entries
      BY DEF Inv, TypeOK
    <3>2. \A f \in available' : f \in Entries /\ section[e] <= section[f]
      BY <1>0, <1>4, <2>3, <2>4, <3>1
    <3>3. QED
      BY <2>2, <2>5, <2>6, <3>2
  <2>8. \A f \in available' : section[e] <= section[f]
    BY <1>0, <2>3, <2>4
  <2>9. SectionInv'
    <3>1. BadSections(dependencies)' = {}
      BY <1>0, <2>1 DEF BadSections
    <3>2. \A i \in 1..Len(result') : \A f \in available' : section[result'[i]] <= section[f]
      BY <1>2, <2>7, <2>8
    <3>3. QED
      BY <1>0, <3>1, <3>2 DEF SectionInv
  <2>10. SectionsContiguous'
    <3>1. \A i, j \in 1..n : i < j => section[result[i]] <= section[result[j]]
      BY DEF Inv, SectionsContiguous
    <3>2. \A i, j \in 1..Len(result') : i < j => section[result'[i]] <= section[result'[j]]
      BY <1>2, <2>6, <3>1
    <3>3. QED
      BY <1>0, <3>2 DEF SectionsContiguous
  <2>11. QED
    BY <2>9, <2>10
<1>10. DependenciesFirst'
  <2> SUFFICES ASSUME NEW r \in dependencies, NEW i \in 1..Len(result'), result'[i] = r.from
               PROVE  \E j \in 1..(i - 1) : result'[j] = r.to
    BY <1>0 DEF DependenciesFirst
  <2>1. CASE i \in 1..n
    <3>1. PICK j \in 1..(i - 1) : result[j] = r.to
      BY <1>2, <2>1 DEF Inv, DependenciesFirst
    <3>2. QED
      BY <1>2, <1>3, <2>1, <3>1
  <2>2. CASE i = n + 1
    <3>1. r.to \in Emitted
      BY <1>1, <1>2, <2>2 DEF OpenRecords
    <3>2. PICK j \in 1..n : result[j] = r.to
      BY <3>1 DEF Emitted
    <3>3. QED
      BY <1>2, <2>2, <3>2
  <2>3. QED
    BY <1>2, <2>1, <2>2
<1>11. EmittedOnce'
  <2>1. \A i \in 1..n : result[i] # e
    BY <1>1 DEF Emitted
  <2>2. \A i, j \in 1..n : result[i] = result[j] => i = j
    BY DEF Inv, EmittedOnce
  <2>3. QED
    BY <1>2, <2>1, <2>2 DEF EmittedOnce
<1>12. CanonicalOrder'
  <2> SUFFICES ASSUME NEW i \in 1..Len(result'),
                      NEW f \in selected \ {result'[j] : j \in 1..i}, f < result'[i]
               PROVE  \E r \in dependencies :
                        r.from = f /\ r.to \notin {result'[j] : j \in 1..(i - 1)}
    BY <1>0 DEF CanonicalOrder
  <2>1. CASE i \in 1..n
    <3>1. /\ {result'[j] : j \in 1..i} = {result[j] : j \in 1..i}
          /\ {result'[j] : j \in 1..(i - 1)} = {result[j] : j \in 1..(i - 1)}
      BY <1>2, <1>3, <2>1
    <3>2. QED
      BY <1>2, <2>1, <3>1 DEF Inv, CanonicalOrder
  <2>2. CASE i = n + 1
    <3>1. f \in Nat /\ e \in Nat /\ f < e
      <4>1. f \in Entries /\ e \in Entries
        BY <1>1, <1>4
      <4>2. Entries \subseteq Nat
        BY CountAssumption DEF Entries
      <4>3. f < e
        BY <1>2, <2>2
      <4>4. QED
        BY <4>1, <4>2, <4>3
    <3>2. f \notin available
      BY <1>1, <3>1
    <3>3. f \notin Emitted
      BY <1>2, <2>2 DEF Emitted
    <3>4. OpenRecords(f) # {}
      BY <1>1, <3>2, <3>3 DEF Inv, ReadyInv
    <3>5. PICK r \in dependencies : r.from = f /\ r.to \notin Emitted
      BY <3>4 DEF OpenRecords
    <3>6. {result'[j] : j \in 1..(i - 1)} = Emitted
      BY <1>2, <2>2 DEF Emitted
    <3>7. QED
      BY <3>5, <3>6
  <2>3. QED
    BY <1>2, <2>1, <2>2
<1>13. QED
  BY <1>6, <1>7, <1>8, <1>9, <1>10, <1>11, <1>12 DEF Inv

-----------------------------------------------------------------------------
LEMMA NextInv == Inv /\ [Next]_vars => Inv'
<1> SUFFICES ASSUME Inv, [Next]_vars PROVE Inv'
  OBVIOUS
<1>1. CASE \E r \in Records : AddDependency(r)
  BY <1>1, AddDependencyStep
<1>2. CASE Freeze
  BY <1>2, FreezeStep
<1>3. CASE Resolve
  BY <1>3, ResolveStep
<1>4. CASE Emit
  BY <1>4, EmitStep
<1>5. CASE Sorted
  BY <1>5, SortedStep
<1>6. CASE UNCHANGED vars
  <2> USE <1>6 DEF vars
  <2>1. TypeOK' /\ GraphInv' /\ SectionOrder' /\ SectionInv'
    BY DEF Inv, TypeOK, GraphInv, SectionOrder, SectionInv, BadSections
  <2>2. CountInv' /\ ReadyInv'
    BY DEF Inv, CountInv, ReadyInv, OpenRecords, Emitted
  <2>3. DependenciesFirst' /\ EmittedOnce' /\ SectionsContiguous' /\ CanonicalOrder'
    BY DEF Inv, DependenciesFirst, EmittedOnce, SectionsContiguous, CanonicalOrder
  <2>4. QED
    BY <2>1, <2>2, <2>3 DEF Inv
<1>7. QED
  BY <1>1, <1>2, <1>3, <1>4, <1>5, <1>6 DEF Next

LEMMA SpecInv == Spec => []Inv
BY InitInv, NextInv, PTL DEF Spec

(* The state of the builder and of the sort is well typed: in particular   *)
(* no count of remainingDependencies goes below zero.                      *)
THEOREM GraphTypeCorrect == Spec => []TypeOK
<1>1. Inv => TypeOK
  BY DEF Inv
<1>2. QED
  BY <1>1, SpecInv, PTL

(* Whatever the builder recorded, no entry is emitted before an entry it   *)
(* depends on.                                                             *)
THEOREM DependenciesAreFirst == Spec => []DependenciesFirst
<1>1. Inv => DependenciesFirst
  BY DEF Inv
<1>2. QED
  BY <1>1, SpecInv, PTL

(* No entry is emitted twice.                                              *)
THEOREM NoneEmittedTwice == Spec => []EmittedOnce
<1>1. Inv => EmittedOnce
  BY DEF Inv
<1>2. QED
  BY <1>1, SpecInv, PTL

(* The emitted entries never step back to an earlier section.              *)
THEOREM SectionsStayContiguous == Spec => []SectionsContiguous
<1>1. Inv => SectionsContiguous
  BY DEF Inv
<1>2. QED
  BY <1>1, SpecInv, PTL

(* The order is the least one that respects the dependencies.              *)
THEOREM OrderIsCanonical == Spec => []CanonicalOrder
<1>1. Inv => CanonicalOrder
  BY DEF Inv
<1>2. QED
  BY <1>1, SpecInv, PTL

-----------------------------------------------------------------------------
(***************************************************************************)
(* What rests on the strongly connected components: reaching is the        *)
(* transitive closure of the records.  From it: an acyclic graph is sorted *)
(* to its last entry, only preferences on cycles are given up, and         *)
(* planning fails only when it must.  The relation is computed by          *)
(* recursion over the entries, so the lemmas about it argue by the least   *)
(* entry at which a claim would fail.                                      *)
(***************************************************************************)
(* A set of numbers that is not empty has a least one.                      *)
LEMMA LeastNumber ==
  ASSUME NEW S, S \subseteq Nat, S # {}
  PROVE  \E m \in S : \A k \in S : m <= k
<1>1. PICK m \in S : \A k \in S : ~ (<<k, m>> \in OpToRel(<, Nat))
  BY NatLessThanWellFounded, WFMin
<1>2. \A k \in S : ~ (k < m)
  BY <1>1 DEF OpToRel
<1>3. QED
  BY <1>2

(* The records as pairs, and one turn of the closure.                      *)
Pairs(R) == {<<r.from, r.to>> : r \in R}
Through(P, n) == P \cup {p \in Entries \X Entries : <<p[1], n>> \in P /\ <<n, p[2]>> \in P}

(* The relation is defined: from the records alone, each entry in its turn *)
(* adds the pairs it joins.                                                *)
LEMMA ViaStep ==
  ASSUME NEW R
  PROVE  /\ Via(R)[0] = Pairs(R)
         /\ \A n \in 1..EntryCount : Via(R)[n] = Through(Via(R)[n - 1], n)
<1> DEFINE Step(v, n) == IF n = 0 THEN Pairs(R) ELSE Through(v[n - 1], n)
           Defined(n) == \E v : v = [k \in 0..n |-> Step(v, k)]
<1>1. \A n \in 0..EntryCount : Defined(n)
  <2> DEFINE bad == {n \in 0..EntryCount : ~Defined(n)}
  <2> SUFFICES ASSUME bad # {} PROVE FALSE
    OBVIOUS
  <2>1. PICK m \in bad : \A k \in bad : m <= k
    <3>1. bad \subseteq Nat
      BY CountAssumption
    <3>2. QED
      BY <3>1, LeastNumber
  <2>2. m # 0
    <3>1. Defined(0)
      <4> DEFINE w == [k \in 0..0 |-> Pairs(R)]
      <4>1. w = [k \in 0..0 |-> Step(w, k)]
        OBVIOUS
      <4>2. QED
        BY <4>1
    <3>2. QED
      BY <3>1
  <2>3. m \in Nat /\ m - 1 \in 0..EntryCount /\ m <= EntryCount /\ ~(m <= m - 1)
    BY <2>2, CountAssumption
  <2>4. Defined(m - 1)
    BY <2>1, <2>3
  <2>5. PICK v : v = [k \in 0..(m - 1) |-> Step(v, k)]
    BY <2>4
  <2> DEFINE w == [k \in 0..m |-> IF k = m THEN Step(v, m) ELSE v[k]]
  <2>6. w = [k \in 0..m |-> Step(w, k)]
    <3>1. \A k \in 0..m : w[k] = Step(w, k)
      <4> SUFFICES ASSUME NEW k \in 0..m PROVE w[k] = Step(w, k)
        OBVIOUS
      <4>1. CASE k = 0
        <5>1. k \in 0..(m - 1) /\ k # m
          BY <2>2, <2>3, <4>1
        <5>2. v[k] = Step(v, k)
          BY <2>5, <5>1
        <5>3. QED
          BY <4>1, <5>1, <5>2
      <4>2. CASE k # 0
        <5>1. k - 1 \in 0..m /\ k - 1 # m
          BY <2>3, <4>2
        <5>2. w[k - 1] = v[k - 1]
          BY <5>1
        <5>3. Step(w, k) = Step(v, k)
          BY <4>2, <5>2
        <5>4. CASE k = m
          BY <5>3, <5>4
        <5>5. CASE k # m
          <6>1. k \in 0..(m - 1)
            BY <2>3, <5>5
          <6>2. v[k] = Step(v, k)
            BY <2>5, <6>1
          <6>3. QED
            BY <5>3, <5>5, <6>2
        <5>6. QED
          BY <5>4, <5>5
      <4>3. QED
        BY <4>1, <4>2
    <3>2. QED
      BY <3>1
  <2>7. Defined(m)
    BY <2>6
  <2>8. QED
    BY <2>1, <2>7
<1>2. Via(R) = CHOOSE v : v = [n \in 0..EntryCount |-> Step(v, n)]
  BY DEF Via, Pairs, Through
<1>3. Defined(EntryCount)
  BY <1>1, CountAssumption
<1>4. Via(R) = [n \in 0..EntryCount |-> Step(Via(R), n)]
  BY <1>2, <1>3
<1>5. 0 \in 0..EntryCount /\ \A n \in 1..EntryCount : n \in 0..EntryCount /\ n # 0
  BY CountAssumption
<1>6. QED
  BY <1>4, <1>5

-----------------------------------------------------------------------------
(* What holds at 0 and passes from each number to the next holds up to the *)
(* number of entries.                                                      *)
LEMMA UpToCount ==
  ASSUME NEW S, 0 \in S, \A n \in 1..EntryCount : n - 1 \in S => n \in S
  PROVE  \A n \in 0..EntryCount : n \in S
<1> DEFINE missing == {n \in 0..EntryCount : n \notin S}
<1> SUFFICES ASSUME missing # {} PROVE FALSE
  OBVIOUS
<1>1. missing \subseteq Nat
  BY CountAssumption
<1>2. PICK m \in missing : \A k \in missing : m <= k
  BY <1>1, LeastNumber
<1>3. m \in 1..EntryCount /\ m - 1 \in 0..EntryCount /\ ~(m <= m - 1)
  BY CountAssumption
<1>4. m - 1 \in S
  BY <1>2, <1>3
<1>5. QED
  BY <1>3, <1>4

Transitive(T) ==
  \A a, b, c \in Entries : <<a, b>> \in T /\ <<b, c>> \in T => <<a, c>> \in T

(* At every turn the relation has the records, and relates entries only.   *)
LEMMA ViaPairs ==
  ASSUME NEW R, R \subseteq Records, NEW n \in 0..EntryCount
  PROVE  Pairs(R) \subseteq Via(R)[n] /\ Via(R)[n] \subseteq Entries \X Entries
<1> DEFINE S == {k \in 0..EntryCount : /\ Pairs(R) \subseteq Via(R)[k]
                                       /\ Via(R)[k] \subseteq Entries \X Entries}
<1>1. 0 \in S
  <2>1. Pairs(R) \subseteq Entries \X Entries
    BY DEF Pairs, Records
  <2>2. QED
    BY <2>1, ViaStep, CountAssumption
<1>2. ASSUME NEW k \in 1..EntryCount, k - 1 \in S PROVE k \in S
  <2>1. Via(R)[k] = Through(Via(R)[k - 1], k)
    BY ViaStep
  <2>2. Pairs(R) \subseteq Via(R)[k - 1] /\ Via(R)[k - 1] \subseteq Entries \X Entries
    BY <1>2
  <2>3. Pairs(R) \subseteq Via(R)[k] /\ Via(R)[k] \subseteq Entries \X Entries
    BY <2>1, <2>2 DEF Through
  <2>4. k \in 0..EntryCount
    OBVIOUS
  <2>5. QED
    BY <2>3, <2>4
<1>3. \A k \in 0..EntryCount : k \in S
  <2> HIDE DEF S
  <2>1. QED
    BY <1>1, <1>2, UpToCount
<1>4. QED
  BY <1>3

(* After the turn of n, two legs that meet in an entry up to n are joined. *)
LEMMA ViaTransitive ==
  ASSUME NEW R, R \subseteq Records, NEW n \in 0..EntryCount,
         NEW a \in Entries, NEW b \in 1..n, NEW c \in Entries,
         <<a, b>> \in Via(R)[n], <<b, c>> \in Via(R)[n]
  PROVE  <<a, c>> \in Via(R)[n]
<1> DEFINE Composed(k) ==
             \A x, z \in Entries : \A y \in 1..k :
               <<x, y>> \in Via(R)[k] /\ <<y, z>> \in Via(R)[k] => <<x, z>> \in Via(R)[k]
           S == {k \in 0..EntryCount : Composed(k)}
<1>1. 0 \in S
  BY CountAssumption
<1>2. ASSUME NEW k \in 1..EntryCount, k - 1 \in S PROVE k \in S
  <2> DEFINE V == Via(R)[k - 1]
  <2>1. Via(R)[k] = Through(V, k)
    BY ViaStep
  <2>2. Composed(k - 1)
    BY <1>2
  <2>3. ASSUME NEW x \in Entries, NEW z \in Entries, NEW y \in 1..k,
               <<x, y>> \in Through(V, k), <<y, z>> \in Through(V, k)
        PROVE  <<x, z>> \in Through(V, k)
    <3>1. <<x, z>> \in V \/ (<<x, k>> \in V /\ <<k, z>> \in V) => <<x, z>> \in Through(V, k)
      BY DEF Through
    <3>2. <<x, y>> \in V \/ (<<x, k>> \in V /\ <<k, y>> \in V)
      BY <2>3 DEF Through
    <3>3. <<y, z>> \in V \/ (<<y, k>> \in V /\ <<k, z>> \in V)
      BY <2>3 DEF Through
    <3>4. CASE y = k
      BY <3>1, <3>2, <3>3, <3>4
    <3>5. CASE y # k
      <4>1. y \in 1..(k - 1) /\ k \in Entries
        BY <3>5, CountAssumption DEF Entries
      <4>2. /\ <<x, y>> \in V /\ <<y, z>> \in V => <<x, z>> \in V
            /\ <<x, y>> \in V /\ <<y, k>> \in V => <<x, k>> \in V
            /\ <<k, y>> \in V /\ <<y, z>> \in V => <<k, z>> \in V
        BY <2>2, <4>1
      <4>3. QED
        BY <3>1, <3>2, <3>3, <4>2
    <3>6. QED
      BY <3>4, <3>5
  <2>4. Composed(k)
    BY <2>1, <2>3
  <2>5. QED
    BY <2>4
<1>3. \A k \in 0..EntryCount : k \in S
  <2> HIDE DEF S
  <2>1. QED
    BY <1>1, <1>2, UpToCount
<1>4. Composed(n)
  BY <1>3
<1>5. QED
  BY <1>4

(* stronglyConnectedComponents decides a transitive relation that has the  *)
(* records.                                                                *)
LEMMA ReachesIsClosure ==
  ASSUME NEW R, R \subseteq Records
  PROVE  /\ Pairs(R) \subseteq Reaches(R)
         /\ Reaches(R) \subseteq Entries \X Entries
         /\ Transitive(Reaches(R))
<1>1. EntryCount \in 0..EntryCount
  BY CountAssumption
<1>2. QED
  BY <1>1, ViaPairs, ViaTransitive DEF Reaches, Transitive, Entries

(* It is the least such relation: no entry reaches another by anything but *)
(* records.                                                                *)
LEMMA ReachesIsLeast ==
  ASSUME NEW R, R \subseteq Records, NEW T, Pairs(R) \subseteq T, Transitive(T)
  PROVE  Reaches(R) \subseteq T
<1> DEFINE S == {k \in 0..EntryCount : Via(R)[k] \subseteq T}
<1>1. 0 \in S
  BY ViaStep, CountAssumption
<1>2. ASSUME NEW k \in 1..EntryCount, k - 1 \in S PROVE k \in S
  <2>1. Via(R)[k] = Through(Via(R)[k - 1], k) /\ Via(R)[k - 1] \subseteq T
    BY <1>2, ViaStep
  <2>2. k \in Entries
    BY CountAssumption DEF Entries
  <2>3. ASSUME NEW p \in Via(R)[k] PROVE p \in T
    <3>1. CASE p \in Via(R)[k - 1]
      BY <2>1, <3>1
    <3>2. CASE p \notin Via(R)[k - 1]
      <4>1. /\ p \in Entries \X Entries
            /\ <<p[1], k>> \in T /\ <<k, p[2]>> \in T
        BY <2>1, <2>3, <3>2 DEF Through
      <4>2. p[1] \in Entries /\ p[2] \in Entries /\ p = <<p[1], p[2]>>
        BY <4>1
      <4>3. <<p[1], p[2]>> \in T
        BY <2>2, <4>1, <4>2 DEF Transitive
      <4>4. QED
        BY <4>2, <4>3
    <3>3. QED
      BY <3>1, <3>2
  <2>4. QED
    BY <2>3
<1>3. \A k \in 0..EntryCount : k \in S
  <2> HIDE DEF S
  <2>1. QED
    BY <1>1, <1>2, UpToCount
<1>4. QED
  BY <1>3, CountAssumption DEF Reaches

(* More records make no fewer cycles.                                      *)
LEMMA ReachesMonotone ==
  ASSUME NEW R, NEW S, R \subseteq S, S \subseteq Records
  PROVE  Reaches(R) \subseteq Reaches(S) /\ OnCycle(R) \subseteq OnCycle(S)
<1>1. Pairs(R) \subseteq Pairs(S)
  BY DEF Pairs
<1>2. Reaches(R) \subseteq Reaches(S)
  BY <1>1, ReachesIsClosure, ReachesIsLeast
<1>3. QED
  BY <1>2 DEF OnCycle

(* A way from one entry to another starts with a record.                   *)
LEMMA FirstRecord ==
  ASSUME NEW R, R \subseteq Records, NEW a, NEW b, <<a, b>> \in Reaches(R)
  PROVE  \E r \in R : r.from = a /\ (r.to = b \/ <<r.to, b>> \in Reaches(R))
<1> DEFINE Starts(p) ==
             \E r \in R : r.from = p[1] /\ (r.to = p[2] \/ <<r.to, p[2]>> \in Reaches(R))
           T == {p \in Reaches(R) : Starts(p)}
<1>1. Pairs(R) \subseteq T
  BY ReachesIsClosure DEF Pairs
<1>2. Transitive(T)
  <2> SUFFICES ASSUME NEW x \in Entries, NEW y \in Entries, NEW z \in Entries,
                      <<x, y>> \in T, <<y, z>> \in T
               PROVE  <<x, z>> \in T
    BY DEF Transitive
  <2>1. PICK r \in R : r.from = x /\ (r.to = y \/ <<r.to, y>> \in Reaches(R))
    OBVIOUS
  <2>2. r.to \in Entries
    BY DEF Records
  <2>3. Transitive(Reaches(R)) /\ <<x, y>> \in Reaches(R) /\ <<y, z>> \in Reaches(R)
    BY ReachesIsClosure
  <2>4. <<r.to, z>> \in Reaches(R) /\ <<x, z>> \in Reaches(R)
    BY <2>1, <2>2, <2>3 DEF Transitive
  <2>5. Starts(<<x, z>>)
    BY <2>1, <2>4
  <2>6. QED
    BY <2>4, <2>5
<1>3. Reaches(R) \subseteq T
  BY <1>1, <1>2, ReachesIsLeast
<1>4. Starts(<<a, b>>)
  BY <1>3
<1>5. QED
  BY <1>4

-----------------------------------------------------------------------------
(* The graph the sort works on is the frozen records less those dropped.   *)
LEMMA SpecFrozen == Spec => [](Inv /\ FrozenInv)
<1>1. Init => FrozenInv
  BY DEF Init, FrozenInv
<1>2. FrozenInv /\ [Next]_vars => FrozenInv'
  <2> SUFFICES ASSUME FrozenInv, [Next]_vars PROVE FrozenInv'
    OBVIOUS
  <2>1. CASE \E r \in Records : AddDependency(r)
    BY <2>1 DEF AddDependency, FrozenInv
  <2>2. CASE Freeze
    BY <2>2 DEF Freeze, input, FrozenInv, Recorded, Consolidated
  <2>3. CASE Resolve
    <3>1. /\ dependencies = Recorded /\ Recorded' = Recorded
          /\ BadSections(Recorded)' = BadSections(Recorded)
      BY <2>3 DEF Resolve, input, FrozenInv, Recorded, Consolidated, BadSections
    <3>2. /\ phase' = "sort" /\ dropped' = Droppable(Recorded)
          /\ dependencies' = Recorded \ dropped'
          /\ errors' = {} <=> BadSections(Recorded) = {} /\ OnCycle(dependencies') = {}
      BY <2>3, <3>1 DEF Resolve
    <3>3. Droppable(Recorded)' = Droppable(Recorded)
      BY <3>1
    <3>4. QED
      BY <3>1, <3>2, <3>3 DEF FrozenInv
  <2>4. CASE Emit \/ Sorted \/ UNCHANGED vars
    <3>1. /\ UNCHANGED <<section, selected, records, dependencies, dropped, errors>>
          /\ phase' = phase \/ (phase = "sort" /\ phase' = "done")
      BY <2>4 DEF Emit, Sorted, vars, input, graph
    <3>2. Recorded' = Recorded /\ BadSections(Recorded)' = BadSections(Recorded)
      BY <3>1 DEF Recorded, Consolidated, BadSections
    <3>3. QED
      BY <3>1, <3>2 DEF FrozenInv
  <2>5. QED
    BY <2>1, <2>2, <2>3, <2>4 DEF Next
<1>3. QED
  BY <1>1, <1>2, SpecInv, PTL DEF Spec

(* Kahn's algorithm does not stop early: among any entries of a graph      *)
(* without cycles there is one that depends on none of them.               *)
LEMMA SomeoneIsReady ==
  ASSUME NEW R, R \subseteq Records, OnCycle(R) = {},
         NEW U, U \subseteq Entries, U # {}
  PROVE  \E e \in U : \A r \in R : r.from = e => r.to \notin U
<1> SUFFICES ASSUME \A e \in U : \E r \in R : r.from = e /\ r.to \in U PROVE FALSE
  OBVIOUS
<1> DEFINE Ahead(e) == {b \in U : <<e, b>> \in Reaches(R)}
           Sizes == {Cardinality(Ahead(e)) : e \in U}
<1>1. IsFiniteSet(U)
  <2>1. IsFiniteSet(Entries)
    BY CountAssumption, FS_Interval DEF Entries
  <2>2. QED
    BY <2>1, FS_Subset
<1>2. \A e \in U : IsFiniteSet(Ahead(e)) /\ Cardinality(Ahead(e)) \in Nat
  BY <1>1, FS_Subset, FS_CardinalityType
<1>3. PICK m \in Sizes : \A k \in Sizes : m <= k
  <2> HIDE DEF Ahead
  <2>1. Sizes \subseteq Nat /\ Sizes # {}
    BY <1>2
  <2>2. QED
    BY <2>1, LeastNumber
<1>4. PICK e \in U : Cardinality(Ahead(e)) = m
  OBVIOUS
<1>5. PICK r \in R : r.from = e /\ r.to \in U
  OBVIOUS
<1>6. <<e, r.to>> \in Reaches(R) /\ Transitive(Reaches(R))
  BY <1>5, ReachesIsClosure DEF Pairs
<1>7. Ahead(r.to) \subseteq Ahead(e) /\ r.to \in Ahead(e)
  BY <1>5, <1>6 DEF Transitive
<1>8. r.to \notin Ahead(r.to)
  <2> SUFFICES ASSUME <<r.to, r.to>> \in Reaches(R) PROVE FALSE
    OBVIOUS
  <2>1. PICK q \in R : q.from = r.to /\ (q.to = r.to \/ <<q.to, r.to>> \in Reaches(R))
    BY FirstRecord
  <2>2. <<q.to, q.from>> \in Reaches(R)
    BY <2>1
  <2>3. QED
    BY <2>2 DEF OnCycle
<1>9. Cardinality(Ahead(r.to)) < Cardinality(Ahead(e))
  <2> HIDE DEF Ahead
  <2>1. IsFiniteSet(Ahead(e)) /\ Ahead(r.to) # Ahead(e)
    BY <1>2, <1>7, <1>8
  <2>2. /\ Cardinality(Ahead(r.to)) <= Cardinality(Ahead(e))
        /\ Cardinality(Ahead(r.to)) # Cardinality(Ahead(e))
    BY <1>7, <2>1, FS_Subset
  <2>3. QED
    BY <1>2, <1>5, <2>2
<1>10. m <= Cardinality(Ahead(r.to))
  <2>1. Cardinality(Ahead(r.to)) \in Sizes
    BY <1>5
  <2> HIDE DEF Sizes, Ahead
  <2>2. QED
    BY <1>3, <2>1
<1>11. QED
  <2> HIDE DEF Ahead, Sizes
  <2>1. QED
    BY <1>2, <1>4, <1>5, <1>9, <1>10

(* An order without errors has all selected entries: one that was left     *)
(* would leave one with no record open, and available has none.            *)
LEMMA AllEmitted == ASSUME Inv, FrozenInv, Ordered PROVE Emitted = selected
<1> SUFFICES ASSUME selected \ Emitted # {} PROVE FALSE
  BY DEF Inv, ReadyInv
<1>1. /\ dependencies \subseteq Records /\ selected \subseteq Entries
      /\ OnCycle(dependencies) = {}
  BY DEF Inv, TypeOK, FrozenInv, Ordered
<1>2. PICK e \in selected \ Emitted :
        \A r \in dependencies : r.from = e => r.to \notin selected \ Emitted
  BY <1>1, SomeoneIsReady
<1>3. \A r \in dependencies : r.to \in selected
  BY DEF Inv, GraphInv
<1>4. OpenRecords(e) = {}
  BY <1>2, <1>3 DEF OpenRecords
<1>5. available = {} /\ e \in available
  BY <1>2, <1>4 DEF Inv, ReadyInv, Ordered
<1>6. QED
  BY <1>5

(* freezeEntry keeps a record for each one it is given: itself, or a hard  *)
(* one for the same entry and target.                                      *)
LEMMA FrozenRecord ==
  ASSUME NEW R, R \subseteq Records, NEW r \in R
  PROVE  \E c \in Consolidated(R) :
           /\ c.from = r.from /\ c.to = r.to
           /\ c = r \/ c.strength = "hard"
<1>1. r \in Records
  OBVIOUS
<1> DEFINE h == [r EXCEPT !.strength = "hard"]
<1>2. h.from = r.from /\ h.to = r.to /\ h.strength = "hard"
  BY <1>1 DEF Records
<1>3. CASE h \in R
  BY <1>2, <1>3 DEF Consolidated
<1>4. CASE h \notin R
  BY <1>4 DEF Consolidated
<1>5. QED
  BY <1>3, <1>4

(* An entry emitted once is found where it was emitted.                    *)
LEMMA PositionKnown ==
  ASSUME EmittedOnce, NEW i \in 1..Len(result)
  PROVE  Position(result[i]) = i
BY DEF EmittedOnce, Position

(* A record is respected, or is a preference on a cycle of the records.    *)
LEMMA Respected == ASSUME Inv, FrozenInv PROVE RecordsRespected
<1> SUFFICES ASSUME Ordered, NEW r \in records, r.from \in selected, r.to \in selected
             PROVE  \/ Position(r.to) < Position(r.from)
                    \/ r.strength = "preference" /\ r \in OnCycle(records)
  BY DEF RecordsRespected
<1>1. records \subseteq Records
  BY DEF Inv, TypeOK
<1>2. PICK c \in Consolidated(records) :
        c.from = r.from /\ c.to = r.to /\ (c = r \/ c.strength = "hard")
  BY <1>1, FrozenRecord
<1>3. c \in Recorded
  BY <1>2 DEF Recorded
<1>4. CASE c \in dependencies
  <2>1. PICK i \in 1..Len(result) : result[i] = r.from
    BY AllEmitted DEF Emitted
  <2>2. PICK j \in 1..(i - 1) : result[j] = r.to
    BY <1>2, <1>4, <2>1 DEF Inv, DependenciesFirst
  <2>3. j \in 1..Len(result) /\ j < i
    BY <2>1, <2>2 DEF Inv, TypeOK
  <2>4. Position(r.from) = i /\ Position(r.to) = j
    BY <2>1, <2>2, <2>3, PositionKnown DEF Inv
  <2>5. QED
    BY <2>3, <2>4
<1>5. CASE c \notin dependencies
  <2>1. c \in Droppable(Recorded)
    BY <1>3, <1>5 DEF FrozenInv, Ordered
  <2>2. c.strength = "preference" /\ c \in OnCycle(Recorded)
    BY <2>1 DEF Droppable
  <2>3. Recorded \subseteq records
    BY DEF Recorded, Consolidated
  <2>4. c \in OnCycle(records)
    BY <1>1, <2>2, <2>3, ReachesMonotone
  <2>5. c = r
    BY <1>2, <2>2
  <2>6. QED
    BY <2>2, <2>4, <2>5
<1>6. QED
  BY <1>4, <1>5

(* A cycle uses only records that are on cycles: a component is strongly   *)
(* connected by its own records.                                           *)
LEMMA CycleOfCycles ==
  ASSUME NEW R, R \subseteq Records, NEW r \in OnCycle(R)
  PROVE  <<r.to, r.from>> \in Reaches(OnCycle(R))
<1> DEFINE C == OnCycle(R)
           T == {p \in Reaches(R) : <<p[2], p[1]>> \in Reaches(R) => p \in Reaches(C)}
<1>1. C \subseteq R
  BY DEF OnCycle
<1>2. /\ Pairs(R) \subseteq Reaches(R) /\ Pairs(C) \subseteq Reaches(C)
      /\ Transitive(Reaches(R)) /\ Transitive(Reaches(C))
  BY <1>1, ReachesIsClosure
<1>3. Pairs(R) \subseteq T
  <2> SUFFICES ASSUME NEW q \in R PROVE <<q.from, q.to>> \in T
    BY DEF Pairs
  <2>1. <<q.from, q.to>> \in Reaches(R)
    BY <1>2 DEF Pairs
  <2>2. ASSUME <<q.to, q.from>> \in Reaches(R) PROVE <<q.from, q.to>> \in Reaches(C)
    <3>1. q \in C
      BY <2>2 DEF OnCycle
    <3>2. QED
      BY <1>2, <3>1 DEF Pairs
  <2>3. QED
    BY <2>1, <2>2
<1>4. Transitive(T)
  <2> SUFFICES ASSUME NEW x \in Entries, NEW y \in Entries, NEW z \in Entries,
                      <<x, y>> \in T, <<y, z>> \in T
               PROVE  <<x, z>> \in T
    BY DEF Transitive
  <2>1. <<x, y>> \in Reaches(R) /\ <<y, z>> \in Reaches(R) /\ <<x, z>> \in Reaches(R)
    BY <1>2 DEF Transitive
  <2>2. ASSUME <<z, x>> \in Reaches(R) PROVE <<x, z>> \in Reaches(C)
    <3>1. <<y, x>> \in Reaches(R) /\ <<z, y>> \in Reaches(R)
      BY <1>2, <2>1, <2>2 DEF Transitive
    <3>2. <<x, y>> \in Reaches(C) /\ <<y, z>> \in Reaches(C)
      BY <3>1
    <3>3. QED
      BY <1>2, <3>2 DEF Transitive
  <2>3. QED
    BY <2>1, <2>2
<1>5. Reaches(R) \subseteq T
  BY <1>3, <1>4, ReachesIsLeast
<1>6. <<r.to, r.from>> \in T
  BY <1>5 DEF OnCycle
<1>7. <<r.from, r.to>> \in Reaches(R)
  BY <1>1, <1>2 DEF Pairs
<1>8. QED
  BY <1>6, <1>7

(* With the preferences on cycles dropped, what is left on a cycle is hard, *)
(* and stays on a cycle of the hard records.                               *)
LEMMA Refused == ASSUME Inv, FrozenInv PROVE RefusedOnlyWhenImpossible
<1> DEFINE between == {r \in records : r.from \in selected /\ r.to \in selected}
           hard    == {r \in between : r.strength = "hard"}
<1> SUFFICES ASSUME phase = "done"
             PROVE  errors # {} <=> OnCycle(hard) # {} \/ BadSections(between) # {}
  BY DEF RefusedOnlyWhenImpossible
<1>1. records \subseteq Records /\ Recorded \subseteq between /\ between \subseteq records
  BY DEF Inv, TypeOK, Recorded, Consolidated
<1>2. /\ errors = {} <=> BadSections(Recorded) = {} /\ OnCycle(dependencies) = {}
      /\ dependencies = Recorded \ Droppable(Recorded)
  BY DEF FrozenInv
<1>3. BadSections(between) = {} <=> BadSections(Recorded) = {}
  <2>1. ASSUME NEW r \in between PROVE \E c \in Recorded : c.from = r.from /\ c.to = r.to
    BY <1>1, FrozenRecord DEF Recorded
  <2>2. QED
    BY <1>1, <2>1 DEF BadSections
<1>4. hard \subseteq dependencies
  BY DEF Recorded, Consolidated, Droppable, FrozenInv
<1>5. OnCycle(dependencies) \subseteq hard
  <2> SUFFICES ASSUME NEW r \in OnCycle(dependencies) PROVE r \in hard
    OBVIOUS
  <2>1. dependencies \subseteq Recorded /\ Recorded \subseteq Records
    BY <1>1, <1>2
  <2>2. r \in OnCycle(Recorded) /\ r \in dependencies
    BY <2>1, ReachesMonotone DEF OnCycle
  <2>3. r \in Records /\ r.strength # "preference"
    BY <1>2, <2>1, <2>2 DEF Droppable
  <2>4. r.strength = "hard"
    BY <2>3 DEF Records, Strengths
  <2>5. QED
    BY <1>1, <2>1, <2>2, <2>4
<1>6. OnCycle(hard) = {} <=> OnCycle(dependencies) = {}
  <2>1. dependencies \subseteq Records /\ hard \subseteq Records
    BY <1>1, <1>2
  <2>2. OnCycle(hard) \subseteq OnCycle(dependencies)
    BY <1>4, <2>1, ReachesMonotone
  <2>3. ASSUME NEW r \in OnCycle(dependencies) PROVE r \in OnCycle(hard)
    <3>1. <<r.to, r.from>> \in Reaches(OnCycle(dependencies))
      BY <2>1, CycleOfCycles
    <3>2. <<r.to, r.from>> \in Reaches(hard)
      BY <1>5, <2>1, <3>1, ReachesMonotone
    <3>3. QED
      BY <1>5, <3>2 DEF OnCycle
  <2>4. QED
    BY <2>2, <2>3
<1>7. QED
  BY <1>2, <1>3, <1>6

(* An order without errors has every selected entry of the archive.        *)
THEOREM NothingIsLost == Spec => []NothingLost
<1>1. Inv /\ FrozenInv => NothingLost
  BY AllEmitted DEF NothingLost
<1>2. QED
  BY <1>1, SpecFrozen, PTL

(* DependencyGraph.ts: hard records are never given up, and a preference   *)
(* only on a cycle of what the builder recorded.                           *)
THEOREM RecordsAreRespected == Spec => []RecordsRespected
BY Respected, SpecFrozen, PTL

(* Planning fails exactly when the hard records have a cycle or a record   *)
(* runs against the sections: no preference ever makes an archive fail.    *)
THEOREM RefusedWhenImpossible == Spec => []RefusedOnlyWhenImpossible
BY Refused, SpecFrozen, PTL
=============================================================================
