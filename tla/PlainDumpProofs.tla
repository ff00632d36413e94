-------------------------- MODULE PlainDumpProofs ---------------------------
(***************************************************************************)
(* Proofs about PlainDump, for every catalog, source and set of options:   *)
(* types, the accounts of the entries, the refusals and the transactions.  *)
(*                                                                         *)
(* The invariant has five parts beside the types.  ArchiveInv: the archive *)
(* is one the planner makes.  TodoInv: the list is a rest of its order, so *)
(* what an entry has an edge to has had its turn.  AccountInv: the         *)
(* accounts hold exactly the entries that had their turn and those one     *)
(* call wrote, and nothing rendered depends on something unavailable.      *)
(* RefuseInv: a document is begun only when preflight let it pass.         *)
(* FrameInv: the open transaction is the one of the mode.                  *)
(***************************************************************************)
EXTENDS PlainDump, ArchiveSelectionProofs

(* What is true of the archive of a source: entries of introspected        *)
(* objects, edges between them of the shape the builder gives them, and    *)
(* for a key that takes nulls for equal an index that says so.             *)
Sound(s, a) ==
  /\ a.db \subseteq s.objs
  /\ a.selected \subseteq a.es /\ a.es \subseteq EntrySpace
  /\ IsFiniteSet(a.selected)
  /\ \A e \in a.es : e.o \in a.db /\ (e.t \in Kinds => e = ObjectEntry(e.o))
  /\ \A d \in a.edges :
       /\ d.from \in a.es /\ d.to \in a.es
       /\ d.hard => \/ d.to.t \in Kinds \cup {"column"}
                    \/ d.from.t = "sequence-state" /\ d.to.t = "table-data"
  /\ \A o \in a.db : Kind(o) = "constraint" /\ "nulls" \in Marks(o) =>
       \E x \in a.db : Kind(x) = "index" /\ "nulls" \in Marks(x)

ArchiveInv == src \in Sources /\ Sound(src, archive)

(* The phases in which the document is begun, and the entries that have    *)
(* had their turn.                                                         *)
Begun == {"write", "failed", "cancelled", "done"}

Passed == archive.selected \ ToSet(todo)

(* The targets of an entry to come have had their turn or come before it.  *)
Behindhand ==
  \A i \in 1..Len(todo) : \A d \in archive.edges :
     d.from = todo[i] /\ d.to \in archive.selected =>
       d.to \in Passed \/ \E j \in 1..(i - 1) : todo[j] = d.to

Ordering ==
  /\ Distinct(todo) /\ BySection(todo)
  /\ SectionsAgree(archive.selected, archive.edges)
  /\ \A d \in archive.edges : d.from \in Passed /\ d.to \in archive.selected => d.to \in Passed
  /\ Behindhand

(* Once the plan was accepted the list is in order.                        *)
TodoInv ==
  /\ todo \in Seq(archive.selected) /\ drops \in Seq(archive.selected)
  /\ phase \notin {"plan", "refused"} => Ordering
  /\ phase \notin Begun => drops = <<>>
  /\ phase = "preflight" => Passed = {}
  /\ phase = "done" => todo = <<>>

(* A statement is in the transaction of the mode.                          *)
Framed(r) ==
  CASE TxMode = "none" -> r.tx = None
    [] TxMode = "single" -> r.tx = Single
    [] TxMode = "sections" -> IF r.drop THEN r.tx # None ELSE r.tx = SectionOf(r.e)

(* So is the transaction that is open; in section mode drops are written   *)
(* into one that is.                                                       *)
FrameInv ==
  /\ phase \notin Begun => tx = None /\ ran = {}
  /\ phase \in Begun \ {"done"} =>
       /\ TxMode = "none" => tx = None
       /\ TxMode = "single" => tx = Single
       /\ TxMode = "sections" => tx \in Sections \cup {None}
       /\ TxMode = "sections" /\ drops # <<>> => tx # None
  /\ phase = "done" => tx = None
  /\ \A r \in ran : Framed(r)

(* Preflight passed before the document was begun; only an error of the    *)
(* renderer fails it.                                                      *)
RefuseInv ==
  /\ phase \in Begun => ~ Fails(archive.db, archive.selected, opt)
  /\ \A e \in failed : OutcomeOf(e) = "error"
  /\ phase # "failed" => failed = {}

(* The entries in some account.                                            *)
Settled == rendered \cup skipped \cup failed

(* Nothing is accounted before the document is begun. Then the accounts    *)
(* hold what had its turn and what one call wrote; an entry is unavailable *)
(* only if it was skipped, and a skipped one is unavailable unless nothing *)
(* depends on its statement.                                               *)
AccountInv ==
  /\ phase \notin Begun =>
       {rendered, skipped, unavailable, warned, handled, granted} = {{}}
  /\ phase \in Begun => Settled = Passed \cup {e \in archive.selected : e.t \in handled}
  /\ rendered \cap skipped = {}
  /\ unavailable \subseteq skipped
  /\ \A e \in rendered : e.t \in Hooked => e.t \in handled
  /\ \A e \in skipped : e.t \in Hooked => e \in unavailable /\ LacksDependency(e)
  /\ \A d \in archive.edges : d.hard /\ d.from \in rendered /\ d.to \in archive.selected =>
       d.to \in Settled \ unavailable
  /\ \A e \in skipped \ unavailable :
       \/ OutcomeOf(e) = "nothing" \/ MemberOf(e) # 0
       \/ e.t \in {"materialized-view-data", "ownership"}

(* Introspection keeps every extension, and with a table's constraint the  *)
(* indexes of the table.                                                   *)
LEMMA KindsKept ==
  ASSUME NEW objects, objects \subseteq Ids, NEW f
  PROVE  /\ Introspected(objects, f) \subseteq objects
         /\ \A o \in objects : Kind(o) = "extension" => o \in Introspected(objects, f)
         /\ \A o \in Introspected(objects, f) : \A x \in objects :
              /\ Kind(o) = "constraint" /\ Kind(On(o)) = "table"
              /\ Kind(x) = "index" /\ On(x) = On(o)
              => x \in Introspected(objects, f)
<1> DEFINE tables == TablesKept(objects, f)
           relations == tables \cup ViewsKept(objects, f)
           types == TypesKept(objects, f)
           keys == KeysKept(objects, tables \cup types)
           indexes == IndexesKept(objects, relations)
<1>1. \A o : o \in Introspected(objects, f) <=>
        \/ o \in SchemasKept(objects, f) \/ o \in relations \/ o \in types
        \/ o \in SequencesKept(objects, f) \/ o \in RoutinesKept(objects, f)
        \/ o \in AggregatesKept(objects, f) \/ o \in keys \/ o \in indexes
        \/ o \in TriggersKept(objects, relations) \/ o \in RulesKept(objects, relations)
        \/ o \in PoliciesKept(objects, tables) \/ o \in AdvancedKept(objects)
  <2> HIDE DEF tables, types
  <2>1. QED
  BY DEF Introspected, tables, types
<1>2. Introspected(objects, f) \subseteq objects
  BY <1>1 DEF SchemasKept, TablesKept, ViewsKept, TypesKept, SequencesKept, RoutinesKept,
      AggregatesKept, KeysKept, IndexesKept, TriggersKept, RulesKept, PoliciesKept,
      AdvancedKept, InSelectedSchema
<1>3. \A o \in objects : Kind(o) = "extension" => o \in Introspected(objects, f)
  BY <1>1 DEF AdvancedKept, AdvancedKinds
<1>4. ASSUME NEW o \in Introspected(objects, f), NEW x \in objects,
             Kind(o) = "constraint", Kind(On(o)) = "table",
             Kind(x) = "index", On(x) = On(o)
      PROVE  x \in Introspected(objects, f)
  <2>1. o \in keys
    BY <1>1, <1>4 DEF SchemasKept, TablesKept, ViewsKept, TypesKept, SequencesKept,
        RoutinesKept, AggregatesKept, IndexesKept, TriggersKept, RulesKept, PoliciesKept,
        AdvancedKept, AdvancedKinds, InSelectedSchema
  <2>2. On(o) \in tables
    BY <1>4, <2>1 DEF KeysKept, TypesKept, InSelectedSchema
  <2>3. x \in indexes
    BY <1>4, <2>2 DEF IndexesKept
  <2>4. QED
    BY <1>1, <2>3
<1>5. QED
  BY <1>2, <1>3, <1>4

-----------------------------------------------------------------------------
(* The archive the planner makes of a source is sound.                     *)
LEMMA ArchiveIsSound == ASSUME src \in Sources PROVE Sound(src, Archive)
<1> DEFINE db == Introspected(objs, opt.filter)
           es == Entries(db, opt.include)
           edges == Edges(es, db)
           selected == Selected(es, edges, db, opt)
           A == [db |-> db, es |-> es, edges |-> edges, selected |-> selected]
<1>1. /\ objs \subseteq Ids
      /\ \A o \in objs :
           /\ Ext(o) # 0 => Ext(o) \in objs
           /\ Kind(o) = "constraint" /\ "nulls" \in Marks(o) =>
                /\ Kind(On(o)) = "table"
                /\ \E x \in objs : /\ Kind(x) = "index" /\ On(x) = On(o)
                                   /\ "nulls" \in Marks(x)
  BY SourcesAssumption DEF objs
<1>2. /\ db \subseteq objs
      /\ \A o \in objs : Kind(o) = "extension" => o \in db
      /\ \A o \in db : \A x \in objs :
              /\ Kind(o) = "constraint" /\ Kind(On(o)) = "table"
              /\ Kind(x) = "index" /\ On(x) = On(o)
              => x \in db
  BY <1>1, KindsKept
<1> HIDE DEF db
<1>3. \A o \in db : Ext(o) # 0 => Ext(o) \in db
  BY <1>1, <1>2, CatalogAssumption
<1>4. \A o \in db : Kind(o) = "constraint" /\ "nulls" \in Marks(o) =>
        \E x \in db : Kind(x) = "index" /\ "nulls" \in Marks(x)
  BY <1>1, <1>2
<1>5. es \subseteq EntrySpace /\ IsFiniteSet(es)
  BY <1>1, <1>2, EntriesAreFinite
<1>6. \A e \in es : e.o \in db /\ (e.t \in Kinds => e = ObjectEntry(e.o))
  BY <1>1, <1>2, EntryShape
<1> HIDE DEF es
<1>7. \A d \in edges :
       /\ d.from \in es /\ d.to \in es
       /\ d.hard => \/ d.to.t \in Kinds \cup {"column"}
                    \/ d.from.t = "sequence-state" /\ d.to.t = "table-data"
  <2>1. db \subseteq Ids /\ es = Entries(db, opt.include)
    BY <1>1, <1>2 DEF es
  <2>2. QED
    BY <1>3, <2>1, EdgeShape
<1> HIDE DEF edges
<1>8. selected \subseteq es /\ IsFiniteSet(selected)
  <2> DEFINE explicit == {e \in es : ~HardExcluded(e, opt) /\ PassesFilter(e, db, opt.filter)}
             closed == WithDependencies(explicit, es, edges, opt)
  <2>1. Within(es, Followed(edges, opt))
    BY <1>7 DEF Within, Followed
  <2>2. closed \subseteq es
    <3> HIDE DEF explicit
    <3>1. explicit \in SUBSET es
      BY DEF explicit
    <3>2. QED
      BY <1>5, <2>1, <3>1, ClosureIsClosed DEF WithDependencies
  <2>3. selected \subseteq closed
    BY DEF Selected
  <2> HIDE DEF closed
  <2>4. QED
    BY <1>5, <2>2, <2>3, FS_Subset
<1> HIDE DEF selected
<1>9. Sound(src, A)
  <2>1. A.db = db /\ A.es = es /\ A.edges = edges /\ A.selected = selected
    OBVIOUS
  <2> HIDE DEF A
  <2>2. QED
    BY <1>2, <1>4, <1>5, <1>6, <1>7, <1>8, <2>1 DEF Sound, objs
<1>10. Archive = A
  BY DEF Archive, db, es, edges, selected
<1>11. QED
  BY <1>9, <1>10

(* Taking the first of a list keeps it without repetitions and by section. *)
LEMMA Behead ==
  ASSUME NEW S, NEW s \in Seq(S), s # <<>>
  PROVE  /\ Tail(s) \in Seq(S) /\ Head(s) = s[1] /\ Head(s) \in S /\ Len(s) \in Nat \ {0}
         /\ Len(Tail(s)) = Len(s) - 1
         /\ \A i \in 1..Len(Tail(s)) : i + 1 \in 1..Len(s) /\ Tail(s)[i] = s[i + 1]
         /\ ToSet(s) = {Head(s)} \cup ToSet(Tail(s))
         /\ ToSet(s) \subseteq S
         /\ Distinct(s) => Distinct(Tail(s)) /\ Head(s) \notin ToSet(Tail(s))
         /\ BySection(s) => BySection(Tail(s))
<1> DEFINE r == Tail(s)
<1>1. r \in Seq(S) /\ Head(s) = s[1] /\ Head(s) \in S /\ Len(s) \in Nat \ {0}
      /\ Len(r) = Len(s) - 1
  OBVIOUS
<1>2. \A i \in 1..Len(r) : i + 1 \in 1..Len(s) /\ r[i] = s[i + 1]
  BY <1>1
<1>3. \A x : x \in ToSet(s) <=> \E i \in 1..Len(s) : s[i] = x
  BY DEF ToSet
<1> HIDE DEF r
<1>4. \A x : x \in ToSet(r) <=> \E i \in 1..Len(r) : r[i] = x
  BY <1>1 DEF ToSet
<1>5. \A i \in 1..Len(s) : i = 1 \/ (i - 1 \in 1..Len(r) /\ r[i - 1] = s[i])
  <2> SUFFICES ASSUME NEW i \in 1..Len(s), i # 1 PROVE i - 1 \in 1..Len(r) /\ r[i - 1] = s[i]
    OBVIOUS
  <2>1. i - 1 \in 1..Len(r) /\ (i - 1) + 1 = i
    BY <1>1
  <2>2. QED
    BY <1>2, <2>1
<1>6. ToSet(s) = {Head(s)} \cup ToSet(r)
  <2>1. 1 \in 1..Len(s)
    BY <1>1
  <2>2. \A x \in ToSet(s) : x = Head(s) \/ x \in ToSet(r)
    BY <1>1, <1>3, <1>4, <1>5
  <2>3. \A x \in ToSet(r) : x \in ToSet(s)
    BY <1>2, <1>3, <1>4
  <2>4. Head(s) \in ToSet(s)
    BY <1>1, <1>3, <2>1
  <2>5. QED
    BY <2>2, <2>3, <2>4
<1>7. ToSet(s) \subseteq S
  BY <1>3
<1>8. ASSUME Distinct(s) PROVE Distinct(r) /\ Head(s) \notin ToSet(r)
  <2>1. Distinct(r)
    <3> SUFFICES ASSUME NEW i \in 1..Len(r), NEW j \in 1..Len(r), r[i] = r[j] PROVE i = j
      BY DEF Distinct
    <3>1. i + 1 = j + 1
      BY <1>2, <1>8 DEF Distinct
    <3>2. QED
      BY <3>1
  <2>2. Head(s) \notin ToSet(r)
    <3> SUFFICES ASSUME NEW i \in 1..Len(r), r[i] = Head(s) PROVE FALSE
      BY <1>4
    <3>1. s[i + 1] = s[1] /\ i + 1 \in 1..Len(s) /\ 1 \in 1..Len(s)
      BY <1>1, <1>2
    <3>2. i + 1 = 1
      BY <1>8, <3>1 DEF Distinct
    <3>3. QED
      BY <3>2
  <2>3. QED
    BY <2>1, <2>2
<1>9. ASSUME BySection(s) PROVE BySection(r)
  <2> SUFFICES ASSUME NEW i \in 1..Len(r), NEW j \in 1..Len(r), i < j
               PROVE  SectionOf(r[i]) <= SectionOf(r[j])
    BY DEF BySection
  <2>1. i + 1 < j + 1
    OBVIOUS
  <2>2. QED
    BY <1>2, <1>9, <2>1 DEF BySection
<1>10. QED
  BY <1>1, <1>2, <1>6, <1>7, <1>8, <1>9 DEF r

(* The actions in which an entry takes its turn.                           *)
Entryward ==
  \/ SkipUnavailable \/ DataHook \/ SkipUnwritten \/ SkipSilent \/ SkipOmitted \/ Write
  \/ RenderFails

(* They take the next entry and leave the plan alone.                      *)
LEMMA EntrywardTurns ==
  ASSUME Entryward
  PROVE  /\ Turn /\ src' = src /\ archive' = archive /\ drops' = drops
         /\ phase' \in {"write", "failed"}
  BY DEF Entryward, SkipUnavailable, DataHook, SkipUnwritten, SkipSilent, SkipOmitted, Write,
      RenderFails, Turn, accounts

(* What the entry at hand has an edge to has had its turn, and so has      *)
(* every entry of an earlier section.                                      *)
LEMMA TurnTaken ==
  ASSUME ArchiveInv, todo \in Seq(archive.selected), Ordering, Turn, archive' = archive
  PROVE  /\ Head(todo) \in archive.selected
         /\ Passed' = Passed \cup {Head(todo)} /\ Head(todo) \notin Passed
         /\ \A d \in archive.edges :
              d.from = Head(todo) /\ d.to \in archive.selected => d.to \in Passed
         /\ \A x \in archive.selected :
              SectionOf(x) < SectionOf(Head(todo)) => x \in Passed
         /\ todo' \in Seq(archive.selected)
         /\ Ordering'
<1> DEFINE e == Head(todo)
           r == Tail(todo)
<1>1. todo' = r /\ todo # <<>>
  BY DEF Turn
<1>2. /\ r \in Seq(archive.selected) /\ e = todo[1] /\ e \in archive.selected
      /\ Len(todo) \in Nat \ {0} /\ Len(r) = Len(todo) - 1
      /\ \A i \in 1..Len(r) : i + 1 \in 1..Len(todo) /\ r[i] = todo[i + 1]
      /\ ToSet(todo) = {e} \cup ToSet(r)
      /\ Distinct(r) /\ e \notin ToSet(r) /\ BySection(r)
  BY <1>1, Behead DEF Ordering
<1>3. Passed' = archive.selected \ ToSet(r)
  BY <1>1 DEF Passed
<1> HIDE DEF r, e
<1>4. Passed' = Passed \cup {e} /\ e \notin Passed
  BY <1>2, <1>3 DEF Passed
<1>5. ASSUME NEW d \in archive.edges, d.from = e, d.to \in archive.selected
      PROVE  d.to \in Passed
  <2>1. 1 \in 1..Len(todo) /\ \A j \in 1..(1 - 1) : FALSE
    BY <1>2
  <2>2. QED
    BY <1>2, <1>5, <2>1 DEF Ordering, Behindhand
<1>6. ASSUME NEW x \in archive.selected, SectionOf(x) < SectionOf(e)
      PROVE  x \in Passed
  <2> SUFFICES ASSUME x \in ToSet(todo) PROVE FALSE
    BY DEF Passed
  <2>1. PICK j \in 1..Len(todo) : todo[j] = x
    BY <1>2 DEF ToSet
  <2>2. SectionOf(x) \in 0..2 /\ SectionOf(e) \in 0..2
    BY DEF SectionOf
  <2>3. j # 1
    BY <1>2, <1>6, <2>1, <2>2
  <2>4. 1 \in 1..Len(todo) /\ 1 < j
    BY <1>2, <2>3
  <2>5. SectionOf(e) <= SectionOf(x)
    BY <1>2, <2>1, <2>4 DEF Ordering, BySection
  <2>6. QED
    BY <1>6, <2>2, <2>5
<1>7. \A d \in archive.edges :
        d.from \in Passed' /\ d.to \in archive.selected => d.to \in Passed'
  BY <1>4, <1>5 DEF Ordering
<1>8. ASSUME NEW i \in 1..Len(r), NEW d \in archive.edges,
             d.from = r[i], d.to \in archive.selected, d.to \notin Passed'
      PROVE  \E j \in 1..(i - 1) : r[j] = d.to
  <2>1. i + 1 \in 1..Len(todo) /\ d.from = todo[i + 1] /\ d.to \notin Passed /\ d.to # e
    BY <1>2, <1>4, <1>8
  <2>2. PICK k \in 1..((i + 1) - 1) : todo[k] = d.to
    BY <1>8, <2>1 DEF Ordering, Behindhand
  <2>3. k # 1
    BY <1>2, <2>1, <2>2
  <2>4. k - 1 \in 1..(i - 1) /\ k - 1 \in 1..Len(r) /\ (k - 1) + 1 = k
    BY <1>2, <2>3
  <2>5. r[k - 1] = d.to
    BY <1>2, <2>2, <2>4
  <2>6. QED
    BY <2>4, <2>5
<1>9. Ordering'
  <2>1. Behindhand'
    BY <1>1, <1>8 DEF Behindhand
  <2>2. QED
    BY <1>1, <1>2, <1>7, <2>1 DEF Ordering
<1>10. QED
  BY <1>1, <1>2, <1>4, <1>5, <1>6, <1>9 DEF e, r

(* The plan is sound, and accepted only in order.                          *)
LEMMA Planning ==
  ASSUME ArchiveInv, TodoInv, Plan
  PROVE  ArchiveInv' /\ TodoInv' /\ phase' \in {"preflight", "refused"}
<1>1. src' = src /\ drops' = drops /\ phase = "plan"
  BY DEF Plan
<1>2. CASE CatalogsReadable(objs, opt.filter, opt.session)
  <2>1. /\ archive' = Archive
        /\ todo' = Ordered(archive'.selected, archive'.edges, src.naming)
        /\ phase' = IF /\ IdentitiesDistinct(archive'.es)
                       /\ SectionsAgree(archive'.selected, archive'.edges)
                       /\ Len(todo') = Cardinality(archive'.selected)
                    THEN "preflight" ELSE "refused"
    BY <1>2 DEF Plan
  <2>2. Sound(src, archive') /\ src \in Sources
    BY <2>1, ArchiveIsSound DEF ArchiveInv
  <2>3. ArchiveInv'
    BY <1>1, <2>2 DEF ArchiveInv
  <2> DEFINE S == archive'.selected
             E == archive'.edges
             s == todo'
  <2>4. S \subseteq EntrySpace /\ IsFiniteSet(S)
    BY <2>2 DEF Sound
  <2>5. Arranged(s, S, E, src.naming)
    <3>1. src.naming \in {"asc", "desc"}
      BY <2>2, SourcesAssumption
    <3> DEFINE n == src.naming
    <3> HIDE DEF S, E, n
    <3>2. Arranged(Ordered(S, E, n), S, E, n)
      BY <2>4, <3>1, OrderedIsArranged DEF n
    <3>3. s = Ordered(S, E, n)
      BY <2>1 DEF S, E, n
    <3>4. QED
      BY <3>2, <3>3 DEF n
  <2>6. s \in Seq(S)
    BY <2>5 DEF Arranged
  <2>7. drops = <<>> /\ drops' \in Seq(S)
    BY <1>1 DEF TodoInv, Begun
  <2>8. phase' = "preflight" => Ordering' /\ Passed' = {}
    <3> SUFFICES ASSUME phase' = "preflight" PROVE Ordering' /\ Passed' = {}
      OBVIOUS
    <3>1. SectionsAgree(S, E) /\ Len(s) = Cardinality(S)
      BY <2>1
    <3>2. Distinct(s) /\ BySection(s) /\ Behind(s, S, E)
      BY <2>5, <3>1 DEF Arranged
    <3>3. \A x \in S : x \in ToSet(s)
      BY <2>5, <2>6, <3>1 DEF Arranged, Whole, ToSet
    <3>4. Passed' = {}
      BY <3>3 DEF Passed
    <3>5. Behindhand'
      BY <3>2 DEF Behindhand, Behind
    <3>6. QED
      BY <3>1, <3>2, <3>4, <3>5 DEF Ordering
  <2>9. QED
    BY <1>1, <2>1, <2>3, <2>6, <2>7, <2>8 DEF TodoInv, Begun
<1>3. CASE ~ CatalogsReadable(objs, opt.filter, opt.session)
  BY <1>1, <1>3 DEF Plan, ArchiveInv, TodoInv, Begun
<1>4. QED
  BY <1>2, <1>3

(* The drops are the entries in reverse.                                   *)
LEMMA ReverseOf ==
  ASSUME NEW S, NEW s \in Seq(S)
  PROVE  Reverse(s) \in Seq(S) /\ (Reverse(s) # <<>> => s # <<>>)
  BY DEF Reverse

(* The order is about the archive and the list alone.                      *)
LEMMA OrderingKept ==
  ASSUME archive' = archive, todo' = todo
  PROVE  (Ordering' <=> Ordering) /\ Passed' = Passed
<1>1. Passed' = Passed
  BY DEF Passed
<1>2. Behindhand' <=> Behindhand
  BY <1>1 DEF Behindhand
<1>3. QED
  BY <1>1, <1>2 DEF Ordering

(* Every step keeps the archive and the order of what is left.             *)
LEMMA TodoNext ==
  ASSUME ArchiveInv, TodoInv, [Next]_vars
  PROVE  ArchiveInv' /\ TodoInv'
<1>1. CASE Plan
  BY <1>1, Planning
<1>2. CASE Check
  <2>1. /\ src' = src /\ archive' = archive /\ todo' = todo
        /\ phase = "preflight" /\ phase' \in {"refused", "reported", "write"}
        /\ drops' \in {drops, <<>>, Reverse(todo)}
        /\ phase' # "write" => drops' = drops
    BY <1>2 DEF Check
  <2>2. /\ drops' \in Seq(archive.selected)
        /\ phase' \notin Begun => drops' = <<>>
    <3>1. Reverse(todo) \in Seq(archive.selected)
      BY ReverseOf DEF TodoInv
    <3>2. <<>> \in Seq(archive.selected)
      OBVIOUS
    <3>3. drops = <<>>
      BY <2>1 DEF TodoInv, Begun
    <3>4. QED
      BY <2>1, <3>1, <3>2, <3>3 DEF Begun
  <2>3. Ordering'
    BY <2>1, OrderingKept DEF TodoInv
  <2>4. QED
    BY <2>1, <2>2, <2>3 DEF ArchiveInv, TodoInv, Begun
<1>3. CASE DropNext
  <2>1. /\ src' = src /\ archive' = archive /\ todo' = todo
        /\ phase = "write" /\ phase' = "write"
        /\ drops # <<>> /\ drops' = Tail(drops)
    BY <1>3 DEF DropNext
  <2>2. drops' \in Seq(archive.selected)
    BY <2>1 DEF TodoInv
  <2>3. Ordering'
    BY <2>1, OrderingKept DEF TodoInv
  <2>4. QED
    BY <2>1, <2>2, <2>3 DEF ArchiveInv, TodoInv, Begun
<1>4. CASE Entryward
  <2>1. /\ Turn /\ src' = src /\ archive' = archive /\ drops' = drops
        /\ phase' \in {"write", "failed"}
    BY <1>4, EntrywardTurns
  <2>2. phase = "write"
    BY <2>1 DEF Turn
  <2>3. Ordering' /\ todo' \in Seq(archive.selected)
    BY <2>1, <2>2, TurnTaken DEF TodoInv
  <2>4. QED
    BY <2>1, <2>3 DEF ArchiveInv, TodoInv, Begun
<1>5. CASE Finish
  <2>1. /\ src' = src /\ archive' = archive /\ drops' = drops /\ todo' = todo
        /\ phase = "write" /\ phase' = "done" /\ todo = <<>>
    BY <1>5 DEF Finish
  <2>2. Ordering'
    BY <2>1, OrderingKept DEF TodoInv
  <2>3. QED
    BY <2>1, <2>2 DEF ArchiveInv, TodoInv, Begun
<1>6. CASE Cancel
  <2>1. /\ src' = src /\ archive' = archive /\ drops' = drops /\ todo' = todo
        /\ phase = "write" /\ phase' = "cancelled"
    BY <1>6 DEF Cancel
  <2>2. Ordering'
    BY <2>1, OrderingKept DEF TodoInv
  <2>3. QED
    BY <2>1, <2>2 DEF ArchiveInv, TodoInv, Begun
<1>7. CASE UNCHANGED vars
  <2>1. src' = src /\ archive' = archive /\ drops' = drops /\ todo' = todo /\ phase' = phase
    BY <1>7 DEF vars
  <2>2. (Ordering' <=> Ordering) /\ Passed' = Passed
    BY <2>1, OrderingKept
  <2>3. QED
    BY <2>1, <2>2 DEF ArchiveInv, TodoInv, Begun
<1>8. QED
  BY <1>1, <1>2, <1>3, <1>4, <1>5, <1>6, <1>7 DEF Next, Entryward

-----------------------------------------------------------------------------
(* Facts about objects of the source.                                      *)
AboutObjects(facts) == \A x \in facts : x.o \in objs

(* What a fact is about.                                                   *)
LEMMA FactsAbout ==
  /\ \A f, o : Fact(f, o).o = o
  /\ \A o, r : Grant(o, r).o = o
  BY DEF Fact, Grant

(* Facts that objects exist are about them.                                *)
LEMMA ObjectsAbout ==
  ASSUME NEW S, S \subseteq objs PROVE AboutObjects(Objects(S))
  BY FactsAbout DEF Objects, AboutObjects

(* The server starts with facts about objects of the source.               *)
LEMMA BeforeAbout == AboutObjects(Before)
<1>1. AboutObjects(SchemaFacts)
  <2> DEFINE G(o) == {Grant(o, r) : r \in Catalog[o].grants \ {Public}}
  <2>1. \A o \in objs : \A x \in G(o) : x.o = o
    BY FactsAbout
  <2>2. GrantFacts = UNION {G(o) : o \in objs}
    BY DEF GrantFacts
  <2>3. \A x \in GrantFacts : x.o \in objs
    <3> HIDE DEF G
    <3>1. QED
      BY <2>1, <2>2
  <2>4. QED
    BY <2>3, FactsAbout DEF SchemaFacts, Objects, AboutObjects
<1>2. AboutObjects(DataFacts)
  BY FactsAbout DEF DataFacts, AboutObjects
<1>3. AboutObjects(Objects(Publics(objs)))
  BY ObjectsAbout DEF Publics
<1>4. QED
  BY <1>1, <1>2, <1>3 DEF Before, AboutObjects

(* What comes with an object is of the source.                             *)
LEMMA PartsAbout ==
  ASSUME NEW o \in objs PROVE Parts(o, objs) \subseteq objs
<1>1. \A x : DirectParts(x, objs) \subseteq objs
  BY DEF DirectParts
<1>2. \A x : x \in Parts(o, objs) =>
         x = o \/ \E y \in DirectParts(o, objs) : x = y \/ x \in DirectParts(y, objs)
  BY DEF Parts
<1>3. QED
  BY <1>1, <1>2

(* A statement makes facts about objects of the source.                    *)
LEMMA CreatesAbout ==
  ASSUME NEW e, e.o \in objs PROVE AboutObjects(Creates(e, objs, opt))
<1>1. CASE e.t = Kind(e.o)
  <2>1. \A x \in Parts(e.o, objs) : x \in objs
    BY PartsAbout
  <2>2. ASSUME NEW x \in Creates(e, objs, opt) PROVE x.o \in objs
    BY <1>1, <2>1, <2>2, FactsAbout DEF Creates, Objects
  <2>3. QED
    BY <2>2 DEF AboutObjects
<1>2. CASE e.t # Kind(e.o)
  <2>1. \A x \in Creates(e, objs, opt) : x.o = e.o
    BY <1>2, FactsAbout DEF Creates
  <2>2. QED
    BY <2>1 DEF AboutObjects
<1>3. QED
  BY <1>1, <1>2

(* The types of the accounts and of the replay.                            *)
Phases == {"plan", "preflight", "write", "refused", "reported", "failed", "cancelled", "done"}

Typed ==
  /\ phase \in Phases
  /\ rendered \subseteq archive.selected /\ skipped \subseteq archive.selected
  /\ failed \subseteq archive.selected /\ unavailable \subseteq archive.selected
  /\ warned \subseteq archive.selected
  /\ handled \subseteq Hooked
  /\ granted \subseteq archive.db
  /\ tx \in Sections \cup {None, Single}
  /\ AboutObjects(server)
  /\ \A r \in ran : r.e \in archive.selected

(* A list of selected entries has selected entries.                        *)
LEMMA ListsAreSelected ==
  ASSUME NEW S, NEW s \in Seq(S) PROVE ToSet(s) \subseteq S
  BY DEF ToSet

(* With the archive and the lists these are all types.                     *)
LEMMA TypedIsTypeOK ==
  ASSUME ArchiveInv, TodoInv, Typed PROVE TypeOK
<1>1. src.objs \subseteq Ids
  BY SourcesAssumption DEF ArchiveInv
<1>2. archive.selected \subseteq archive.es
  BY DEF ArchiveInv, Sound
<1>3. ToSet(todo) \cup ToSet(drops) \subseteq archive.selected
  BY ListsAreSelected DEF TodoInv
<1>4. UNION {rendered, skipped, failed, unavailable, warned} \subseteq archive.selected
  BY DEF Typed
<1>5. {x.o : x \in server} \subseteq objs
  BY DEF Typed, AboutObjects
<1>6. {r.e : r \in ran} \subseteq archive.selected
  BY DEF Typed
<1>7. QED
  BY <1>1, <1>2, <1>3, <1>4, <1>5, <1>6 DEF Typed, TypeOK, Phases

(* A dump starts with them.                                                *)
LEMMA TypedInit == ASSUME Init PROVE Typed
  BY BeforeAbout DEF Init, Typed, Phases, Hooked, None

(* The entry at hand is selected, its object is of the source, and the     *)
(* transaction it is written in is one.                                    *)
LEMMA AtHand ==
  ASSUME ArchiveInv, TodoInv, Turn
  PROVE  /\ phase = "write" /\ Head(todo) \in archive.selected
         /\ Head(todo).o \in archive.db /\ Head(todo).o \in objs
         /\ tx' = TxFor(Head(todo))
         /\ tx \in Sections \cup {None, Single} => tx' \in Sections \cup {None, Single}
<1>1. phase = "write" /\ todo # <<>> /\ tx' = TxFor(Head(todo))
      /\ todo \in Seq(archive.selected)
  BY DEF Turn, TodoInv
<1>2. Head(todo) \in archive.selected
  BY <1>1
<1>3. Head(todo).o \in archive.db /\ Head(todo).o \in objs
  BY <1>2 DEF ArchiveInv, Sound, objs
<1>4. SectionOf(Head(todo)) \in Sections
  BY DEF SectionOf, Sections
<1>5. QED
  BY <1>1, <1>2, <1>3, <1>4 DEF TxFor

(* The call that writes rows keeps the types.                              *)
LEMMA TypedHook ==
  ASSUME ArchiveInv, TodoInv, Typed, DataHook PROVE Typed'
<1> DEFINE t == Head(todo).t
           all == {e \in archive.selected : e.t = t}
           lacking == {e \in all : LacksDependency(e)}
           Load(e) == Statement(e, FALSE, tx', Needs(e, archive.db, opt) \ server,
                                Conflicts(e, objs, server, opt.replica))
           runs == {Load(e) : e \in Loadable(all \ lacking)}
           made == UNION {Creates(r.e, objs, opt) : r \in {x \in runs : ~Failing(x)}}
<1>1. /\ Turn /\ t \in Hooked /\ src' = src /\ archive' = archive /\ phase' = phase
      /\ IF t \in handled THEN UNCHANGED <<accounts, server, ran>>
         ELSE /\ handled' = handled \cup {t}
              /\ rendered' = rendered \cup (all \ lacking)
              /\ unavailable' = unavailable \cup lacking
              /\ skipped' = skipped \cup lacking
              /\ warned' = warned \cup lacking
              /\ ran' = ran \cup runs
              /\ server' = server \cup made
              /\ UNCHANGED <<failed, granted>>
  BY DEF DataHook
<1>2. /\ tx' \in Sections \cup {None, Single} /\ objs' = objs
      /\ phase \in Phases
  BY <1>1, AtHand DEF Typed, objs
<1>3. CASE t \in handled
  BY <1>1, <1>2, <1>3 DEF Typed, accounts, AboutObjects
<1>4. CASE t \notin handled
  <2>1. all \ lacking \subseteq archive.selected /\ lacking \subseteq archive.selected
    OBVIOUS
  <2>2. \A r \in runs : r.e \in archive.selected
    BY <2>1 DEF Loadable, Statement
  <2>3. \A r \in runs : AboutObjects(Creates(r.e, objs, opt))
    BY <2>2, CreatesAbout DEF ArchiveInv, Sound, objs
  <2> HIDE DEF runs
  <2>4. AboutObjects(made)
    BY <2>3 DEF AboutObjects
  <2> HIDE DEF made, all, lacking, t
  <2>5. AboutObjects(server)'
    BY <1>1, <1>2, <1>4, <2>4 DEF AboutObjects, Typed
  <2>6. /\ handled' = handled \cup {t} /\ t \in Hooked
        /\ rendered' \subseteq archive.selected /\ skipped' \subseteq archive.selected
        /\ unavailable' \subseteq archive.selected /\ warned' \subseteq archive.selected
        /\ failed' = failed /\ granted' = granted
        /\ \A r \in ran' : r.e \in archive.selected
    BY <1>1, <1>4, <2>1, <2>2 DEF Typed
  <2>7. QED
    BY <1>1, <1>2, <2>5, <2>6 DEF Typed
<1>5. QED
  BY <1>3, <1>4

(* A statement keeps the types.                                            *)
LEMMA TypedWrite ==
  ASSUME ArchiveInv, TodoInv, Typed, Write PROVE Typed'
<1> DEFINE e == Head(todo)
           run == Statement(e, FALSE, tx', Needs(e, archive.db, opt) \ server,
                            Conflicts(e, objs, server, FALSE))
<1>1. /\ Turn /\ src' = src /\ archive' = archive /\ phase' = phase
      /\ rendered' = rendered \cup {e}
      /\ warned' \in {warned, warned \cup {e}}
      /\ granted' \in {granted, granted \cup {e.o}}
      /\ ran' = ran \cup {run}
      /\ server' \in {server, (server \ Revokes(e, granted)) \cup Creates(e, objs, opt)}
      /\ skipped' = skipped /\ failed' = failed /\ unavailable' = unavailable
      /\ handled' = handled
  BY DEF Write
<1>2. /\ tx' \in Sections \cup {None, Single} /\ objs' = objs /\ phase \in Phases
      /\ e \in archive.selected /\ e.o \in archive.db /\ e.o \in objs
  BY <1>1, AtHand DEF Typed, objs
<1>3. run.e = e
  BY DEF Statement
<1> HIDE DEF e, run
<1>4. AboutObjects(server)'
  <2>1. AboutObjects(Creates(e, objs, opt))
    BY <1>2, CreatesAbout
  <2>2. QED
    BY <1>1, <1>2, <2>1 DEF AboutObjects, Typed
<1>5. QED
  BY <1>1, <1>2, <1>3, <1>4 DEF Typed

(* A drop keeps the types.                                                 *)
LEMMA TypedDrop ==
  ASSUME ArchiveInv, TodoInv, Typed, DropNext PROVE Typed'
<1> DEFINE e == Head(drops)
           gone == GoesWith(e.o, objs, server)
           there == Fact("object", e.o) \in server
           left == IF there THEN Dependents(gone, objs, server) ELSE {}
           run == Statement(e, TRUE, tx, {},
                            Objects(left \cup IF "foreign" \in Marks(e.o) THEN {e.o} ELSE {}))
<1>1. /\ server' \in {server, {x \in server : x.o \notin gone}}
      /\ ran' \in {ran, ran \cup {run}}
  BY DEF DropNext
<1>2. run.e = Head(drops)
  BY DEF Statement
<1> HIDE DEF gone, run
<1>3. /\ src' = src /\ archive' = archive /\ phase' = phase /\ tx' = tx /\ objs' = objs
      /\ UNCHANGED <<rendered, skipped, failed, unavailable, warned, handled, granted>>
      /\ drops # <<>>
  BY DEF DropNext, accounts, objs
<1>4. Head(drops) \in archive.selected
  BY <1>3 DEF TodoInv
<1>5. QED
  BY <1>1, <1>3, <1>4, <1>2 DEF Typed, AboutObjects

(* Every step keeps the types.                                             *)
LEMMA TypedNext ==
  ASSUME ArchiveInv, TodoInv, Typed, AccountInv, RefuseInv, FrameInv, [Next]_vars
  PROVE  Typed'
<1>1. CASE Plan
  <2>1. /\ phase = "plan" /\ src' = src /\ objs' = objs /\ tx' = tx /\ server' = server
        /\ ran' = ran
        /\ UNCHANGED <<rendered, skipped, failed, unavailable, warned, handled, granted>>
        /\ phase' \in Phases
    BY <1>1, Planning DEF Plan, accounts, objs, Phases
  <2>2. rendered = {} /\ skipped = {} /\ failed = {} /\ unavailable = {} /\ warned = {}
        /\ handled = {} /\ granted = {} /\ ran = {}
    BY <2>1 DEF AccountInv, FrameInv, RefuseInv, Begun
  <2>3. QED
    BY <2>1, <2>2 DEF Typed, AboutObjects
<1>2. CASE Check
  <2>1. /\ src' = src /\ objs' = objs /\ archive' = archive /\ server' = server /\ ran' = ran
        /\ UNCHANGED <<rendered, skipped, failed, unavailable, warned, handled, granted>>
        /\ phase' \in Phases
        /\ tx' \in {tx, Single, None, SectionOf(Head(todo))}
    BY <1>2 DEF Check, accounts, objs, Phases
  <2>2. SectionOf(Head(todo)) \in Sections
    BY DEF SectionOf, Sections
  <2>3. QED
    BY <2>1, <2>2 DEF Typed, AboutObjects
<1>3. CASE DropNext
  BY <1>3, TypedDrop
<1>4. CASE DataHook
  BY <1>4, TypedHook
<1>5. CASE Write
  BY <1>5, TypedWrite
<1>6. CASE SkipUnavailable \/ SkipUnwritten \/ SkipSilent \/ SkipOmitted \/ RenderFails
  <2>1. /\ Turn /\ src' = src /\ archive' = archive /\ phase' \in {"write", "failed"}
    BY <1>6, EntrywardTurns DEF Entryward
  <2>2. /\ Head(todo) \in archive.selected /\ objs' = objs
        /\ tx' \in Sections \cup {None, Single}
    BY <2>1, AtHand DEF Typed, objs
  <2> DEFINE e == Head(todo)
  <2>3. /\ skipped' \in {skipped, skipped \cup {e}}
        /\ unavailable' \in {unavailable, unavailable \cup {e}}
        /\ warned' \in {warned, warned \cup {e}}
        /\ failed' \in {failed, failed \cup {e}}
        /\ rendered' = rendered /\ handled' = handled /\ granted' = granted
        /\ server' = server /\ ran' = ran
    BY <1>6 DEF SkipUnavailable, SkipUnwritten, SkipSilent, SkipOmitted, RenderFails,
        Unavailable
  <2> HIDE DEF e
  <2>4. e \in archive.selected
    BY <2>2 DEF e
  <2>5. QED
    BY <2>1, <2>2, <2>3, <2>4 DEF Typed, AboutObjects, Phases
<1>7. CASE Finish \/ Cancel \/ UNCHANGED vars
  <2>1. /\ src' = src /\ objs' = objs /\ archive' = archive /\ server' = server /\ ran' = ran
        /\ UNCHANGED <<rendered, skipped, failed, unavailable, warned, handled, granted>>
        /\ phase' \in {phase, "done", "cancelled"}
        /\ tx' \in {tx, None}
    BY <1>7 DEF Finish, Cancel, vars, accounts, objs
  <2>2. QED
    BY <2>1 DEF Typed, AboutObjects, Phases
<1>8. QED
  BY <1>1, <1>2, <1>3, <1>4, <1>5, <1>6, <1>7 DEF Next

-----------------------------------------------------------------------------
(* The transaction mode is one of three.                                   *)
LEMMA Modes ==
  ASSUME ArchiveInv
  PROVE  /\ TxMode \in {"none", "single", "sections"}
         /\ opt.tx # "none" => TxMode \in {"single", "sections"} \/ opt.tx = "unset"
  BY SourcesAssumption DEF ArchiveInv, TxMode, opt

(* What being framed means in each of them.                                *)
LEMMA FramedByMode ==
  ASSUME ArchiveInv, NEW r
  PROVE  Framed(r) <=>
           /\ TxMode = "none" => r.tx = None
           /\ TxMode = "single" => r.tx = Single
           /\ TxMode = "sections" /\ r.drop => r.tx # None
           /\ TxMode = "sections" /\ ~ r.drop => r.tx = SectionOf(r.e)
  BY Modes DEF Framed

(* An entry is written in the transaction of the mode, the rows one call   *)
(* writes in that of their section.                                        *)
LEMMA FrameTurn ==
  ASSUME ArchiveInv, TodoInv, FrameInv, Entryward PROVE FrameInv'
<1> DEFINE e == Head(todo)
<1>1. /\ Turn /\ src' = src /\ archive' = archive /\ drops' = drops /\ drops = <<>>
      /\ phase' \in {"write", "failed"} /\ phase = "write"
      /\ tx' = TxFor(e) /\ TxMode' = TxMode /\ objs' = objs
  BY EntrywardTurns DEF Turn, TxMode, opt, objs
<1>2. SectionOf(e) \in Sections
  BY DEF SectionOf, Sections
<1>3. /\ TxMode = "none" => tx' = None
      /\ TxMode = "single" => tx' = Single
      /\ TxMode = "sections" => tx' = SectionOf(e)
  BY <1>1 DEF FrameInv, Begun, TxFor
<1>4. ASSUME NEW r \in ran' \ ran PROVE Framed(r)'
  <2>1. r.tx = tx' /\ r.drop = FALSE /\ SectionOf(r.e) = SectionOf(e)
    <3>1. CASE DataHook
      <4> DEFINE t == e.t
                 all == {x \in archive.selected : x.t = t}
                 lacking == {x \in all : LacksDependency(x)}
                 Load(x) == Statement(x, FALSE, tx', Needs(x, archive.db, opt) \ server,
                                      Conflicts(x, objs, server, opt.replica))
                 runs == {Load(x) : x \in Loadable(all \ lacking)}
      <4>1. ran' = ran \/ ran' = ran \cup runs
        BY <3>1 DEF DataHook
      <4>2. PICK d \in all : r = Load(d)
        BY <1>4, <4>1 DEF Loadable
      <4>3. r.tx = tx' /\ r.drop = FALSE /\ r.e = d
        BY <4>2 DEF Statement
      <4>4. QED
        BY <4>2, <4>3 DEF SectionOf
    <3>2. CASE Write
      <4> DEFINE run == Statement(e, FALSE, tx', Needs(e, archive.db, opt) \ server,
                                  Conflicts(e, objs, server, FALSE))
      <4>1. ran' = ran \cup {run}
        BY <3>2 DEF Write
      <4>2. run.tx = tx' /\ run.drop = FALSE /\ run.e = e
        BY DEF Statement
      <4> HIDE DEF run, e
      <4>3. QED
        BY <1>4, <4>1, <4>2
    <3>3. CASE ~ DataHook /\ ~ Write
      BY <1>4, <3>3
      DEF Entryward, SkipUnavailable, SkipUnwritten, SkipSilent, SkipOmitted, RenderFails
    <3>4. QED
      BY <3>1, <3>2, <3>3
  <2>2. Framed(r)
    BY <1>3, <2>1, FramedByMode
  <2>3. QED
    BY <1>1, <2>2 DEF Framed
<1>5. ASSUME NEW r \in ran PROVE Framed(r)'
  <2>1. Framed(r)
    BY DEF FrameInv
  <2>2. QED
    BY <1>1, <2>1 DEF Framed
<1>6. \A r \in ran' : Framed(r)'
  BY <1>4, <1>5
<1>7. QED
  BY <1>1, <1>2, <1>3, <1>6 DEF FrameInv, Begun, Sections, None

(* Every step keeps the open transaction that of the mode.                 *)
LEMMA FrameNext ==
  ASSUME ArchiveInv, TodoInv, FrameInv, [Next]_vars PROVE FrameInv'
<1>1. CASE Plan
  <2>1. phase' \in {"preflight", "refused"} /\ tx' = tx /\ ran' = ran /\ phase = "plan"
    BY <1>1, Planning DEF Plan
  <2>2. QED
    BY <2>1 DEF FrameInv, Begun
<1>2. CASE Check
  <2>1. phase = "preflight" /\ src' = src /\ ran' = ran /\ todo' = todo
    BY <1>2 DEF Check
  <2>2. tx = None /\ ran = {} /\ TxMode' = TxMode
    BY <2>1 DEF FrameInv, Begun, TxMode, opt
  <2>3. CASE phase' # "write"
    <3>1. phase' \in {"refused", "reported"} /\ tx' = tx
      BY <1>2, <2>3 DEF Check
    <3>2. QED
      BY <2>1, <2>2, <3>1 DEF FrameInv, Begun
  <2>4. CASE phase' = "write"
    <3>1. /\ drops' = IF opt.clean THEN Reverse(todo) ELSE <<>>
          /\ tx' = IF TxMode = "single" THEN Single
                   ELSE IF TxMode = "sections" /\ opt.clean /\ todo # <<>>
                   THEN SectionOf(Head(todo)) ELSE None
      BY <1>2, <2>4 DEF Check
    <3>2. drops' # <<>> => opt.clean /\ todo # <<>>
      BY <3>1, ReverseOf DEF TodoInv
    <3>3. SectionOf(Head(todo)) \in Sections /\ None \notin Sections
      BY DEF SectionOf, Sections, None
    <3>4. QED
      BY <2>1, <2>2, <2>4, <3>1, <3>2, <3>3 DEF FrameInv, Begun
  <2>5. QED
    BY <2>3, <2>4
<1>3. CASE DropNext
  <2>1. /\ src' = src /\ phase = "write" /\ phase' = phase /\ tx' = tx /\ drops # <<>>
        /\ TxMode' = TxMode
    BY <1>3 DEF DropNext, TxMode, opt
  <2>2. \A r \in ran' \ ran : r.tx = tx /\ r.drop = TRUE
    BY <1>3 DEF DropNext, Statement
  <2>3. \A r \in ran' : Framed(r)
    BY <2>1, <2>2, FramedByMode DEF FrameInv, Begun
  <2>4. \A r \in ran' : Framed(r)'
    BY <2>1, <2>3 DEF Framed
  <2>5. QED
    BY <2>1, <2>4 DEF FrameInv, Begun
<1>4. CASE Entryward
  BY <1>4, FrameTurn
<1>5. CASE Finish \/ Cancel \/ UNCHANGED vars
  <2>1. /\ src' = src /\ ran' = ran /\ drops' = drops /\ TxMode' = TxMode
        /\ \/ phase = "write" /\ phase' = "done" /\ tx' = None
           \/ phase = "write" /\ phase' = "cancelled" /\ tx' = tx
           \/ phase' = phase /\ tx' = tx
    BY <1>5 DEF Finish, Cancel, vars, TxMode, opt
  <2>2. \A r \in ran' : Framed(r)'
    BY <2>1 DEF FrameInv, Framed
  <2>3. QED
    BY <2>1, <2>2 DEF FrameInv, Begun
<1>6. QED
  BY <1>1, <1>2, <1>3, <1>4, <1>5 DEF Next, Entryward

(* So statements are framed; a tablespace is selected only for a dump      *)
(* without transactions.                                                   *)
LEMMA FramedThroughout ==
  ASSUME ArchiveInv, Typed, FrameInv, RefuseInv PROVE TransactionsFramed
<1>1. phase = "done" => tx = None
  BY DEF FrameInv
<1>2. \A r \in ran : Framed(r)
  BY DEF FrameInv
<1>3. ASSUME NEW r \in ran, r.e.t = "tablespace" PROVE r.tx = None
  <2>1. phase \in Begun /\ r.e \in archive.selected
    BY DEF FrameInv, Typed
  <2>2. ~ Untransactional(archive.selected, opt)
    BY <2>1 DEF RefuseInv, Fails
  <2>3. opt.tx = "none"
    BY <1>3, <2>1, <2>2 DEF Untransactional
  <2>4. TxMode = "none"
    BY <2>3 DEF TxMode
  <2>5. QED
    BY <1>2, <2>4, FramedByMode
<1>4. QED
  BY <1>1, <1>2, <1>3 DEF TransactionsFramed, Framed

-----------------------------------------------------------------------------
(* A document is begun after preflight passed.                             *)
LEMMA RefuseNext ==
  ASSUME RefuseInv, [Next]_vars PROVE RefuseInv'
<1>1. CASE Plan
  <2>1. phase = "plan" /\ phase' \in {"preflight", "refused"} /\ failed' = failed
    BY <1>1 DEF Plan, accounts
  <2>2. QED
    BY <2>1 DEF RefuseInv, Begun
<1>2. CASE Check
  <2>1. /\ phase = "preflight" /\ src' = src /\ archive' = archive /\ failed' = failed
        /\ opt' = opt /\ phase' \in {"refused", "reported", "write"}
        /\ phase' = "write" => ~ Fails(archive.db, archive.selected, opt)
    BY <1>2 DEF Check, accounts, opt
  <2>2. QED
    BY <2>1 DEF RefuseInv, Begun
<1>3. CASE RenderFails
  <2>1. /\ phase = "write" /\ src' = src /\ archive' = archive /\ opt' = opt
        /\ OutcomeOf(Head(todo)) = "error" /\ failed' = failed \cup {Head(todo)}
        /\ phase' = "failed"
    BY <1>3 DEF RenderFails, Turn, opt
  <2>2. \A e \in failed' : OutcomeOf(e) = "error"
    BY <2>1 DEF RefuseInv
  <2>3. \A e \in failed' : OutcomeOf(e)' = "error"
    BY <2>1, <2>2 DEF OutcomeOf
  <2>4. QED
    BY <2>1, <2>3 DEF RefuseInv, Begun
<1>4. CASE DropNext \/ SkipUnavailable \/ DataHook \/ SkipUnwritten \/ SkipSilent \/ SkipOmitted
           \/ Write \/ Finish \/ Cancel
  <2>1. /\ phase = "write" /\ phase' \in {"write", "done", "cancelled"}
        /\ src' = src /\ archive' = archive /\ opt' = opt /\ failed' = failed
    BY <1>4 DEF DropNext, SkipUnavailable, DataHook, SkipUnwritten, SkipSilent, SkipOmitted,
        Write, Finish, Cancel, Turn, accounts, opt
  <2>2. QED
    BY <2>1 DEF RefuseInv, Begun, OutcomeOf
<1>5. CASE UNCHANGED vars
  BY <1>5 DEF vars, accounts, RefuseInv, OutcomeOf, opt
<1>6. QED
  BY <1>1, <1>2, <1>3, <1>4, <1>5 DEF Next

(* What makes the renderer refuse an entry it could render.                *)
LEMMA Refusal ==
  ASSUME NEW e, OutcomeOf(e) = "error", ~ Unrenderable(e)
  PROVE  /\ opt.target = "old"
         /\ ~ (e.t = "ownership" /\ opt.bare)
         /\ \E ft \in Features(e) : Refuses(ft, Policy(opt))
<1> DEFINE N == Nothing(e, archive.es, archive.db, opt)
           R == \E ft \in Unsupported(e, opt) : Refuses(ft, Policy(opt))
           W == \E ft \in Unsupported(e, opt) : ft.whole
<1>1. ~ N /\ R
  <2>1. N => OutcomeOf(e) = "nothing"
    BY DEF OutcomeOf, Outcome
  <2>2. ~ N /\ ~ R => OutcomeOf(e) \in {"omitted", "written"}
    BY DEF OutcomeOf, Outcome
  <2>3. QED
    BY <2>1, <2>2
<1>2. QED
  BY <1>1 DEF Unsupported, Nothing

(* What the renderer refuses preflight holds to be fatal.                  *)
LEMMA RefusesIsFatal ==
  ASSUME NEW ft, NEW policy, Refuses(ft, policy)
  PROVE  Fatal(ft, policy) /\ Fatal(Lacking(TRUE, FALSE, FALSE), policy)
  BY DEF Refuses, Fatal, Lacking

(* Preflight sees the features the renderer sees, or one that weighs more. *)
LEMMA FeaturesSeen ==
  ASSUME NEW o, NEW ft \in Features(ObjectEntry(o)),
         Kind(o) \notin {"materialized-view", "constraint"}
  PROVE  ft \in PreflightFeatures(o) \/ Lacking(TRUE, FALSE, FALSE) \in PreflightFeatures(o)
  BY DEF PreflightFeatures

(* So what the renderer would refuse was refused: a key's nulls by its     *)
(* index, an owner by the entry itself.                                    *)
LEMMA RefusedBefore ==
  ASSUME ArchiveInv, Typed, RefuseInv PROVE RefusedUpFront
<1> SUFFICES ASSUME NEW e \in failed, e.t # "materialized-view", ~ Unrenderable(e) PROVE FALSE
  BY DEF RefusedUpFront
<1>1. /\ OutcomeOf(e) = "error" /\ phase = "failed" /\ e \in archive.selected
      /\ ~ Fails(archive.db, archive.selected, opt)
  BY DEF RefuseInv, Typed, Begun
<1>2. /\ opt.target = "old" /\ ~ (e.t = "ownership" /\ opt.bare)
      /\ \E ft \in Features(e) : Refuses(ft, Policy(opt))
  BY <1>1, Refusal
<1>3. PICK ft \in Features(e) : Refuses(ft, Policy(opt))
  BY <1>2
<1>4. \A o \in archive.db : \A x \in PreflightFeatures(o) : ~ Fatal(x, Policy(opt))
  BY <1>1, <1>2 DEF Fails, Lacks
<1>5. e.o \in archive.db /\ (e.t \in Kinds => e = ObjectEntry(e.o) /\ Kind(e.o) = e.t)
  BY <1>1 DEF ArchiveInv, Sound, ObjectEntry, Entry
<1>6. e.t \in Kinds \/ e.t = "ownership"
  BY <1>3 DEF Features, LaterKinds, Kinds
<1>7. CASE e.t = "ownership"
  BY <1>1, <1>2, <1>3, <1>7, RefusesIsFatal DEF Fails, OwnedByDatabaseOwner
<1>8. CASE e.t \in Kinds /\ e.t # "constraint"
  BY <1>3, <1>4, <1>5, <1>8, FeaturesSeen, RefusesIsFatal
<1>9. CASE e.t = "constraint"
  <2>1. ft \in KeyFeatures(Marks(e.o))
    BY <1>3, <1>9 DEF Features, LaterKinds
  <2>2. "nulls" \in Marks(e.o) /\ ft = Lacking(FALSE, FALSE, FALSE)
    BY <2>1 DEF KeyFeatures, Having
  <2>3. PICK x \in archive.db : Kind(x) = "index" /\ "nulls" \in Marks(x)
    BY <1>5, <1>9, <2>2 DEF ArchiveInv, Sound, Kinds
  <2>4. ft \in PreflightFeatures(x)
    BY <2>2, <2>3 DEF PreflightFeatures
  <2>5. QED
    BY <1>3, <1>4, <2>4, RefusesIsFatal
<1>10. QED
  BY <1>6, <1>7, <1>8, <1>9

-----------------------------------------------------------------------------
(* The entries the data hooks were called for.                             *)
HandledEntries == {e \in archive.selected : e.t \in handled}

(* Rows and contents are data, objects and columns are not.                *)
LEMMA KindsApart ==
  /\ Hooked \cap (Kinds \cup {"column"}) = {}
  /\ "sequence-state" \notin Hooked
  /\ \A e : e.t \in Hooked => SectionOf(e) = 1
  /\ \A e : e.t \in Kinds \cup {"column"} => SectionOf(e) \in {0, 2}
  /\ \A e : SectionOf(e) \in 0..2
  BY DEF Hooked, Kinds, SectionOf, PreData, Data

(* An entry that takes its turn was settled before only by the call that   *)
(* wrote all entries of its type; what it has an edge to is settled.       *)
LEMMA TurnIsFresh ==
  ASSUME ArchiveInv, TodoInv, Typed, RefuseInv, AccountInv, Turn, archive' = archive
  PROVE  /\ Head(todo) \in archive.selected /\ phase = "write" /\ failed = {}
         /\ Head(todo) \in Settled => Head(todo).t \in handled
         /\ Head(todo).t \notin Hooked => Head(todo) \notin Settled
         /\ Settled = Passed \cup HandledEntries
         /\ Passed' = Passed \cup {Head(todo)}
         /\ \A d \in archive.edges :
              d.from = Head(todo) /\ d.to \in archive.selected => d.to \in Settled
<1>1. phase = "write" /\ phase \in Begun /\ failed = {}
  BY DEF Turn, Begun, RefuseInv
<1>2. todo \in Seq(archive.selected) /\ Ordering
  BY <1>1 DEF TodoInv
<1>3. /\ Head(todo) \in archive.selected
      /\ Passed' = Passed \cup {Head(todo)} /\ Head(todo) \notin Passed
      /\ \A d \in archive.edges :
           d.from = Head(todo) /\ d.to \in archive.selected => d.to \in Passed
  BY <1>2, TurnTaken
<1>4. Settled = Passed \cup HandledEntries
  BY <1>1 DEF AccountInv, HandledEntries
<1>5. \A e \in HandledEntries : e.t \in handled /\ e.t \in Hooked
  BY DEF HandledEntries, Typed
<1>6. QED
  BY <1>1, <1>3, <1>4, <1>5

(* An entry that lacks a dependency goes on lacking it.                    *)
LEMMA LackingStays ==
  ASSUME archive' = archive, unavailable \subseteq unavailable', NEW e, LacksDependency(e)
  PROVE  LacksDependency(e)'
  BY DEF LacksDependency

(* One entry is settled that was not.                                      *)
LEMMA OneSettled ==
  ASSUME ArchiveInv, TodoInv, Typed, RefuseInv, AccountInv, Turn,
         archive' = archive, src' = src, phase' \in {"write", "failed"}, handled' = handled,
         NEW e, e = Head(todo), e.t \notin Hooked,
         NEW R, NEW S, NEW F, NEW U, R \cup S \cup F = {e}, R \cap S = {}, U \subseteq S,
         rendered' = rendered \cup R, skipped' = skipped \cup S, failed' = failed \cup F,
         unavailable' = unavailable \cup U,
         R # {} => ~ LacksDependency(e),
         S # U => \/ OutcomeOf(e) = "nothing" \/ MemberOf(e) # 0
                  \/ e.t \in {"materialized-view-data", "ownership"}
  PROVE  AccountInv'
<1>1. /\ e \in archive.selected /\ phase = "write" /\ phase \in Begun /\ phase' \in Begun
      /\ e \notin Settled /\ Settled = Passed \cup HandledEntries
      /\ Passed' = Passed \cup {e} /\ HandledEntries' = HandledEntries
      /\ \A d \in archive.edges : d.from = e /\ d.to \in archive.selected => d.to \in Settled
  BY TurnIsFresh DEF Begun, HandledEntries
<1>2. e \notin rendered /\ e \notin skipped /\ e \notin unavailable
  BY <1>1 DEF Settled, AccountInv
<1>3. Settled' = Settled \cup {e}
  BY DEF Settled
<1>4. Settled' = Passed' \cup HandledEntries'
  BY <1>1, <1>3
<1>5. rendered' \cap skipped' = {}
  BY <1>2 DEF AccountInv
<1>6. unavailable' \subseteq skipped'
  BY DEF AccountInv
<1>7. \A x \in rendered' : x.t \in Hooked => x.t \in handled'
  BY DEF AccountInv
<1>8. \A x \in skipped' : x.t \in Hooked => x \in unavailable' /\ LacksDependency(x)'
  BY LackingStays DEF AccountInv
<1>9. \A d \in archive.edges : d.hard /\ d.from \in rendered' /\ d.to \in archive.selected =>
        d.to \in Settled' /\ d.to \notin unavailable'
  <2> SUFFICES ASSUME NEW d \in archive.edges, d.hard, d.from \in rendered',
                      d.to \in archive.selected
               PROVE  d.to \in Settled' /\ d.to \notin unavailable'
    OBVIOUS
  <2>1. CASE d.from \in rendered
    <3>1. d.to \in Settled /\ d.to \notin unavailable
      BY <2>1 DEF AccountInv
    <3>2. d.to # e
      BY <1>1, <3>1
    <3>3. QED
      BY <1>3, <3>1, <3>2
  <2>2. CASE d.from \notin rendered
    <3>1. d.from = e /\ R # {} /\ R = {e} /\ S = {} /\ U = {}
      BY <2>2
    <3>2. d.to \in Settled /\ d.to \notin unavailable
      BY <1>1, <3>1 DEF LacksDependency
    <3>3. QED
      BY <1>3, <3>1, <3>2
  <2>3. QED
    BY <2>1, <2>2
<1>10. \A x : OutcomeOf(x)' = OutcomeOf(x)
  BY DEF OutcomeOf, opt
<1>11. \A x \in skipped' \ unavailable' :
         \/ OutcomeOf(x) = "nothing" \/ MemberOf(x) # 0
         \/ x.t \in {"materialized-view-data", "ownership"}
  <2>1. \A x \in skipped' \ unavailable' : x \in skipped \ unavailable \/ (x = e /\ S # U)
    OBVIOUS
  <2>2. QED
    BY <2>1 DEF AccountInv
<1>12. QED
  BY <1>1, <1>4, <1>5, <1>6, <1>7, <1>8, <1>9, <1>10, <1>11 DEF AccountInv, HandledEntries

(* A row entry whose dependency is unavailable was not written, and        *)
(* whoever depends on it was not either.                                   *)
LEMMA HookedUnavailable ==
  ASSUME ArchiveInv, TodoInv, Typed, RefuseInv, AccountInv, SkipUnavailable,
         Head(todo).t \in Hooked
  PROVE  AccountInv'
<1> DEFINE e == Head(todo)
<1>1. /\ Turn /\ src' = src /\ archive' = archive /\ phase' = "write" /\ handled' = handled
      /\ rendered' = rendered /\ failed' = failed
      /\ skipped' = skipped \cup {e} /\ unavailable' = unavailable \cup {e}
      /\ LacksDependency(e) /\ granted' = granted
  BY DEF SkipUnavailable, Turn
<1>2. /\ e \in archive.selected /\ phase = "write" /\ phase \in Begun /\ phase' \in Begun
      /\ Settled = Passed \cup HandledEntries /\ failed = {}
      /\ e \in Settled => e.t \in handled
      /\ Passed' = Passed \cup {e} /\ HandledEntries' = HandledEntries
  BY <1>1, TurnIsFresh DEF Begun, HandledEntries
<1> HIDE DEF e
<1>3. e \notin rendered
  <2> SUFFICES ASSUME e \in rendered PROVE FALSE
    OBVIOUS
  <2>1. PICK d \in archive.edges : d.from = e /\ d.hard /\ d.to \in unavailable
    BY <1>1 DEF LacksDependency
  <2>2. d.to \in archive.selected
    BY <2>1 DEF Typed
  <2>3. QED
    BY <2>1, <2>2 DEF AccountInv
<1>4. e \in Settled => e \in unavailable
  BY <1>2, <1>3 DEF e, AccountInv, Settled
<1>5. Settled' = Settled \cup {e}
  BY <1>1 DEF Settled
<1>6. \A x \in skipped' : x.t \in Hooked => x \in unavailable' /\ LacksDependency(x)'
  BY <1>1, LackingStays DEF AccountInv
<1>7. \A d \in archive.edges : d.hard /\ d.from \in rendered' /\ d.to \in archive.selected =>
        d.to \in Settled' /\ d.to \notin unavailable'
  BY <1>1, <1>4, <1>5 DEF AccountInv
<1>8. \A x : OutcomeOf(x)' = OutcomeOf(x)
  BY <1>1 DEF OutcomeOf, opt
<1>9. \A x \in skipped' \ unavailable' : x \in skipped \ unavailable
  BY <1>1
<1>10. Settled' = Passed' \cup HandledEntries'
  BY <1>2, <1>5
<1>11. rendered' \cap skipped' = {} /\ unavailable' \subseteq skipped'
  BY <1>1, <1>3 DEF AccountInv
<1>12. QED
  BY <1>1, <1>2, <1>6, <1>7, <1>8, <1>9, <1>10, <1>11 DEF AccountInv, HandledEntries

(* One call settles every entry of its type. Those it writes depend on     *)
(* nothing unavailable, and on nothing that is still to come: their        *)
(* targets are in the section before.                                      *)
LEMMA HookedWritten ==
  ASSUME ArchiveInv, TodoInv, Typed, RefuseInv, AccountInv, DataHook PROVE AccountInv'
<1> DEFINE e == Head(todo)
           t == e.t
           all == {x \in archive.selected : x.t = t}
           lacking == {x \in all : LacksDependency(x)}
           written == all \ lacking
<1>1. /\ Turn /\ src' = src /\ archive' = archive /\ phase' = "write" /\ t \in Hooked
      /\ failed' = failed /\ ~ LacksDependency(e)
      /\ IF t \in handled
         THEN UNCHANGED <<rendered, skipped, unavailable, warned, handled, granted>>
         ELSE /\ handled' = handled \cup {t}
              /\ rendered' = rendered \cup written
              /\ unavailable' = unavailable \cup lacking
              /\ skipped' = skipped \cup lacking
  BY DEF DataHook, Turn, accounts
<1>2. /\ e \in archive.selected /\ phase = "write" /\ phase \in Begun /\ phase' \in Begun
      /\ Settled = Passed \cup HandledEntries /\ failed = {}
      /\ Passed' = Passed \cup {e}
  BY <1>1, TurnIsFresh DEF Begun
<1>3. \A x : OutcomeOf(x)' = OutcomeOf(x)
  BY <1>1 DEF OutcomeOf, opt
<1>4. CASE t \in handled
  <2>1. e \in HandledEntries /\ HandledEntries' = HandledEntries /\ Settled' = Settled
    BY <1>1, <1>2, <1>4 DEF HandledEntries, Settled
  <2>2. Settled' = Passed' \cup HandledEntries'
    BY <1>2, <2>1
  <2>3. /\ rendered' = rendered /\ skipped' = skipped /\ unavailable' = unavailable
        /\ handled' = handled
    BY <1>1, <1>4
  <2>4. \A x : LacksDependency(x)' <=> LacksDependency(x)
    BY <1>1, <2>3 DEF LacksDependency
  <2> HIDE DEF e, t
  <2>5. QED
    BY <1>1, <1>2, <1>3, <2>1, <2>2, <2>3, <2>4 DEF AccountInv, HandledEntries
<1>5. CASE t \notin handled
  <2>1. /\ handled' = handled \cup {t} /\ rendered' = rendered \cup written
        /\ unavailable' = unavailable \cup lacking /\ skipped' = skipped \cup lacking
    BY <1>1, <1>5
  <2>2. /\ \A x \in written : x \in archive.selected /\ x.t = t /\ ~ LacksDependency(x)
        /\ \A x \in lacking : x \in archive.selected /\ x.t = t /\ LacksDependency(x)
        /\ written \cup lacking = {x \in archive.selected : x.t = t}
        /\ written \cap lacking = {}
    OBVIOUS
  <2> HIDE DEF written, lacking, all
  <2>3. HandledEntries' = HandledEntries \cup written \cup lacking
    BY <1>1, <2>1, <2>2 DEF HandledEntries
  <2>4. Settled' = Settled \cup written \cup lacking
    BY <1>1, <2>1 DEF Settled
  <2>5. e \in written \cup lacking
    BY <1>2, <2>2
  <2>6. \A x \in rendered : x.t # t
    BY <1>1, <1>5 DEF AccountInv
  <2>7. \A x \in skipped : x.t = t => x \in unavailable /\ LacksDependency(x)
    BY <1>1 DEF AccountInv
  <2> HIDE DEF e, t
  <2>8. Settled' = Passed' \cup HandledEntries'
    BY <1>2, <2>3, <2>4, <2>5
  <2>9. rendered' \cap skipped' = {}
    BY <2>1, <2>2, <2>6, <2>7 DEF AccountInv
  <2>10. unavailable' \subseteq skipped'
    BY <2>1 DEF AccountInv
  <2>11. \A x \in rendered' : x.t \in Hooked => x.t \in handled'
    BY <2>1, <2>2 DEF AccountInv
  <2>12. \A x \in skipped' : x.t \in Hooked => x \in unavailable' /\ LacksDependency(x)'
    BY <1>1, <2>1, <2>2, LackingStays DEF AccountInv
  <2>13. ASSUME NEW d \in archive.edges, d.hard, d.from \in rendered,
                d.to \in archive.selected
         PROVE  d.to \in Settled' /\ d.to \notin unavailable'
    <3>1. d.to \in Settled /\ d.to \notin unavailable
      BY <2>13 DEF AccountInv
    <3>2. d.to.t # t
      BY <1>2, <2>6, <2>7, <3>1 DEF Settled
    <3>3. QED
      BY <2>1, <2>2, <2>4, <3>1, <3>2
  <2>14. ASSUME NEW d \in archive.edges, d.hard, d.from \in written,
                d.to \in archive.selected
         PROVE  d.to \in Settled' /\ d.to \notin unavailable'
    <3>1. d.from.t = t /\ ~ LacksDependency(d.from) /\ d.from \in archive.selected
      BY <2>2, <2>14
    <3>2. d.to.t \in Kinds \cup {"column"}
      BY <1>1, <2>14, <3>1, KindsApart DEF ArchiveInv, Sound
    <3>3. d.to \notin unavailable /\ d.to \notin lacking
      BY <1>1, <2>2, <2>14, <3>1, <3>2, KindsApart DEF LacksDependency
    <3>4. SectionOf(d.to) < SectionOf(e)
      <4>1. SectionOf(d.to) <= SectionOf(d.from)
        BY <1>2, <2>14, <3>1 DEF TodoInv, Ordering, SectionsAgree
      <4>2. SectionOf(d.from) = 1 /\ SectionOf(e) = 1 /\ SectionOf(d.to) \in {0, 2}
        BY <1>1, <3>1, <3>2, KindsApart DEF t
      <4>3. QED
        BY <4>1, <4>2
    <3>5. d.to \in Passed
      BY <1>1, <1>2, <2>14, <3>4, TurnTaken DEF TodoInv, e
    <3>6. QED
      BY <1>2, <2>1, <2>4, <3>3, <3>5
  <2>15. \A d \in archive.edges : d.hard /\ d.from \in rendered' /\ d.to \in archive.selected =>
           d.to \in Settled' /\ d.to \notin unavailable'
    BY <2>1, <2>13, <2>14
  <2>16. \A x \in skipped' \ unavailable' : x \in skipped \ unavailable
    BY <2>1
  <2>17. QED
    BY <1>1, <1>2, <1>3, <2>8, <2>9, <2>10, <2>11, <2>12, <2>15, <2>16
    DEF AccountInv, HandledEntries
<1>6. QED
  BY <1>4, <1>5

(* Only an owner is omitted for the target without being unavailable.      *)
LEMMA OmittedIsUnavailable ==
  ASSUME NEW e, OutcomeOf(e) = "omitted", Unavailable(e) = {}
  PROVE  e.t = "ownership"
<1>1. /\ ~ Incomplete(e) /\ ~ Unrenderable(e)
      /\ \A ft \in Unsupported(e, opt) : ft.whole => ft.down
  BY DEF Unavailable
<1>2. PICK ft \in Unsupported(e, opt) : ft.whole
  BY <1>1 DEF OutcomeOf, Outcome
<1>3. ft \in Features(e) /\ ft.whole /\ ft.down
  BY <1>1, <1>2 DEF Unsupported
<1>4. QED
  BY <1>3 DEF Features, TableFeatures, ColumnFeatures, KeyFeatures, IndexFeatures,
      ViewFeatures, MaterializedViewFeatures, FunctionFeatures, PolicyFeatures, Having,
      Lacking

(* Whatever becomes of the entry at hand, the accounts stay true.          *)
LEMMA AccountTurn ==
  ASSUME ArchiveInv, TodoInv, Typed, RefuseInv, AccountInv, Entryward
  PROVE  AccountInv'
<1> DEFINE e == Head(todo)
<1>1. /\ Turn /\ src' = src /\ archive' = archive /\ phase' \in {"write", "failed"}
  BY EntrywardTurns
<1>2. e \in archive.selected
  BY <1>1, TurnIsFresh
<1>3. MemberOf(e) # 0 => e.t \notin Hooked
  <2>1. e.o \in Ids
    BY <1>2, SourcesAssumption DEF ArchiveInv, Sound
  <2>2. MemberOf(e) # 0 => e.t \in Kinds
    BY <2>1, CatalogAssumption DEF MemberOf
  <2>3. QED
    BY <2>2, KindsApart
<1>4. CASE SkipUnavailable
  <2>1. CASE e.t \in Hooked
    BY <1>4, <2>1, HookedUnavailable
  <2>2. CASE e.t \notin Hooked
    <3>1. /\ rendered' = rendered \cup {} /\ skipped' = skipped \cup {e}
          /\ failed' = failed \cup {} /\ unavailable' = unavailable \cup {e}
          /\ handled' = handled
      BY <1>4 DEF SkipUnavailable
    <3> HIDE DEF e
    <3>2. e = Head(todo)
      BY DEF e
    <3>3. QED
      BY <1>1, <2>2, <3>1, <3>2, OneSettled
  <2>3. QED
    BY <2>1, <2>2
<1>5. CASE DataHook
  BY <1>5, HookedWritten
<1>6. CASE SkipUnwritten
  <2>1. /\ rendered' = rendered \cup {} /\ skipped' = skipped \cup {e}
        /\ failed' = failed \cup {} /\ unavailable' = unavailable \cup {}
        /\ handled' = handled /\ (e.t = "materialized-view-data" \/ MemberOf(e) # 0)
    BY <1>6 DEF SkipUnwritten
  <2>2. e.t \notin Hooked
    BY <1>3, <2>1 DEF Hooked
  <2> HIDE DEF e
  <2>3. e = Head(todo)
    BY DEF e
  <2>4. {} \cup {e} \cup {} = {e} /\ {} \cap {e} = {} /\ {} \subseteq {e} /\ {e} # {}
    OBVIOUS
  <2>5. QED
    BY <1>1, <2>1, <2>2, <2>3, <2>4, OneSettled
<1>7. CASE SkipSilent
  <2>1. /\ rendered' = rendered \cup {} /\ skipped' = skipped \cup {e}
        /\ failed' = failed \cup {} /\ unavailable' = unavailable \cup {}
        /\ handled' = handled /\ OutcomeOf(e) = "nothing" /\ e.t \notin Hooked
    BY <1>7 DEF SkipSilent, Renders
  <2> HIDE DEF e
  <2>2. e = Head(todo)
    BY DEF e
  <2>3. {} \cup {e} \cup {} = {e} /\ {} \cap {e} = {} /\ {} \subseteq {e} /\ {e} # {}
    OBVIOUS
  <2>4. QED
    BY <1>1, <2>1, <2>2, <2>3, OneSettled
<1>8. CASE SkipOmitted
  <2> DEFINE U == Unavailable(e)
  <2>1. /\ rendered' = rendered \cup {} /\ skipped' = skipped \cup {e}
        /\ failed' = failed \cup {} /\ unavailable' = unavailable \cup U
        /\ handled' = handled /\ OutcomeOf(e) = "omitted" /\ e.t \notin Hooked
    BY <1>8 DEF SkipOmitted, Renders
  <2>2. U \subseteq {e} /\ ({e} # U => e.t = "ownership")
    <3>1. U \in {{}, {e}}
      BY DEF Unavailable
    <3>2. U = {} => e.t = "ownership"
      BY <2>1, OmittedIsUnavailable
    <3>3. QED
      BY <3>1, <3>2
  <2> HIDE DEF e, U
  <2>3. e = Head(todo)
    BY DEF e
  <2>4. QED
    BY <1>1, <2>1, <2>2, <2>3, OneSettled
<1>9. CASE Write
  <2>1. /\ rendered' = rendered \cup {e} /\ skipped' = skipped \cup {}
        /\ failed' = failed \cup {} /\ unavailable' = unavailable \cup {}
        /\ handled' = handled /\ ~ LacksDependency(e) /\ e.t \notin Hooked
    BY <1>9 DEF Write, Renders
  <2> HIDE DEF e
  <2>2. e = Head(todo)
    BY DEF e
  <2>3. QED
    BY <1>1, <2>1, <2>2, OneSettled
<1>10. CASE RenderFails
  <2>1. /\ rendered' = rendered \cup {} /\ skipped' = skipped \cup {}
        /\ failed' = failed \cup {e} /\ unavailable' = unavailable \cup {}
        /\ handled' = handled /\ e.t \notin Hooked
    BY <1>10 DEF RenderFails, Renders
  <2> HIDE DEF e
  <2>2. e = Head(todo)
    BY DEF e
  <2>3. {} \cup {} \cup {e} = {e} /\ {} \cap {} = {} /\ {} \subseteq {}
    OBVIOUS
  <2>4. QED
    BY <1>1, <2>1, <2>2, <2>3, OneSettled
<1>11. QED
  BY <1>4, <1>5, <1>6, <1>7, <1>8, <1>9, <1>10 DEF Entryward

(* Every step keeps the accounts.                                          *)
LEMMA AccountNext ==
  ASSUME ArchiveInv, TodoInv, Typed, RefuseInv, AccountInv, [Next]_vars
  PROVE  AccountInv'
<1>1. CASE Entryward
  BY <1>1, AccountTurn
<1>2. CASE Plan
  <2>1. /\ phase = "plan" /\ phase' \in {"preflight", "refused"}
        /\ UNCHANGED <<rendered, skipped, unavailable, warned, handled, granted>>
    BY <1>2 DEF Plan, accounts
  <2>2. /\ rendered = {} /\ skipped = {} /\ unavailable = {} /\ warned = {} /\ handled = {}
        /\ granted = {}
    BY <2>1 DEF AccountInv, Begun
  <2>3. QED
    BY <2>1, <2>2 DEF AccountInv, Begun
<1>3. CASE Check
  <2>1. /\ phase = "preflight" /\ phase' \in {"refused", "reported", "write"}
        /\ archive' = archive /\ Passed' = Passed
        /\ UNCHANGED <<rendered, skipped, failed, unavailable, warned, handled, granted>>
    BY <1>3 DEF Check, accounts, Passed
  <2>2. /\ rendered = {} /\ skipped = {} /\ unavailable = {} /\ warned = {} /\ handled = {}
        /\ granted = {} /\ failed = {} /\ Passed = {}
    BY <2>1 DEF AccountInv, RefuseInv, TodoInv, Begun
  <2>3. Settled' = {} /\ Passed' = {} /\ {e \in archive.selected : e.t \in handled} = {}
    BY <2>1, <2>2 DEF Settled
  <2>4. QED
    BY <2>1, <2>2, <2>3 DEF AccountInv, Begun
<1>4. CASE DropNext \/ Finish \/ Cancel \/ UNCHANGED vars
  <2>1. /\ phase' = phase \/ (phase \in Begun /\ phase' \in Begun)
        /\ src' = src /\ archive' = archive /\ todo' = todo
        /\ UNCHANGED <<rendered, skipped, failed, unavailable, warned, handled, granted>>
    BY <1>4 DEF DropNext, Finish, Cancel, vars, accounts, Begun
  <2>2. /\ Passed' = Passed /\ Settled' = Settled
        /\ \A x : LacksDependency(x)' <=> LacksDependency(x)
        /\ \A x : OutcomeOf(x)' = OutcomeOf(x)
    BY <2>1 DEF Passed, Settled, LacksDependency, OutcomeOf, opt
  <2>3. QED
    BY <2>1, <2>2 DEF AccountInv
<1>5. QED
  BY <1>1, <1>2, <1>3, <1>4 DEF Next, Entryward

(* When the list is empty every selected entry is in an account.           *)
LEMMA AllAccounted ==
  ASSUME ArchiveInv, TodoInv, Typed, RefuseInv, AccountInv PROVE EntriesAccounted
<1>1. rendered \cap skipped = {}
  BY DEF AccountInv
<1>2. ASSUME phase = "done" PROVE rendered \cup skipped = archive.selected /\ failed = {}
  <2>1. failed = {} /\ todo = <<>> /\ phase \in Begun
    BY <1>2 DEF RefuseInv, TodoInv, Begun
  <2>2. Passed = archive.selected
    BY <2>1 DEF Passed, ToSet
  <2>3. Settled = rendered \cup skipped
    BY <2>1 DEF Settled
  <2>4. archive.selected \subseteq Settled
    BY <2>1, <2>2 DEF AccountInv
  <2>5. QED
    BY <2>1, <2>3, <2>4 DEF Typed
<1>3. ASSUME NEW d \in archive.edges, d.hard, d.to \in skipped, d.from \in rendered
      PROVE  OutcomeOf(d.to) = "nothing" \/ MemberOf(d.to) # 0
  <2>1. d.to \in archive.selected
    BY <1>3 DEF Typed
  <2>2. d.to \notin unavailable
    BY <1>3, <2>1 DEF AccountInv
  <2>3. \/ d.to.t \in Kinds \cup {"column"}
        \/ d.from.t = "sequence-state" /\ d.to.t = "table-data"
    BY <1>3 DEF ArchiveInv, Sound
  <2>4. d.to.t \notin Hooked
    BY <1>3, <2>2 DEF AccountInv
  <2>5. d.to.t \notin {"materialized-view-data", "ownership"}
    BY <2>3 DEF Kinds
  <2>6. QED
    BY <1>3, <2>2, <2>5 DEF AccountInv
<1>4. QED
  BY <1>1, <1>2, <1>3 DEF EntriesAccounted

-----------------------------------------------------------------------------
(* The inductive invariant.                                                *)
DumpInv == ArchiveInv /\ TodoInv /\ Typed /\ FrameInv /\ RefuseInv /\ AccountInv

(* It holds of a dump that has not begun.                                  *)
LEMMA InvInit == ASSUME Init PROVE DumpInv
<1>1. /\ src \in Sources /\ phase = "plan" /\ drops = <<>> /\ todo = <<>>
      /\ archive = [db |-> {}, es |-> {}, edges |-> {}, selected |-> {}]
      /\ rendered = {} /\ skipped = {} /\ failed = {} /\ unavailable = {} /\ warned = {}
      /\ handled = {} /\ granted = {} /\ tx = None /\ ran = {}
  BY DEF Init
<1>2. archive.db = {} /\ archive.es = {} /\ archive.edges = {} /\ archive.selected = {}
  BY <1>1
<1>3. ArchiveInv
  <2>1. IsFiniteSet({})
    BY FS_EmptySet
  <2>2. QED
    BY <1>1, <1>2, <2>1 DEF ArchiveInv, Sound
<1>4. TodoInv
  BY <1>1 DEF TodoInv, Begun
<1>5. Typed
  BY TypedInit
<1>6. FrameInv
  BY <1>1 DEF FrameInv, Begun
<1>7. RefuseInv
  BY <1>1 DEF RefuseInv, Begun
<1>8. AccountInv
  BY <1>1, <1>2 DEF AccountInv, Begun
<1>9. QED
  BY <1>3, <1>4, <1>5, <1>6, <1>7, <1>8 DEF DumpInv

(* Every step keeps it.                                                    *)
LEMMA InvNext == ASSUME DumpInv, [Next]_vars PROVE DumpInv'
<1>1. ArchiveInv' /\ TodoInv'
  BY TodoNext DEF DumpInv
<1>2. Typed'
  BY TypedNext DEF DumpInv
<1>3. FrameInv'
  BY FrameNext DEF DumpInv
<1>4. RefuseInv'
  BY RefuseNext DEF DumpInv
<1>5. AccountInv'
  BY AccountNext DEF DumpInv
<1>6. QED
  BY <1>1, <1>2, <1>3, <1>4, <1>5 DEF DumpInv

(* It holds throughout every dump.                                         *)
THEOREM Invariance == Spec => []DumpInv
<1>1. Init => DumpInv
  BY InvInit
<1>2. DumpInv /\ [Next]_vars => DumpInv'
  BY InvNext
<1>3. QED
  BY <1>1, <1>2, PTL DEF Spec

(* The types of PlainDump.                                                 *)
THEOREM TypeCorrect == Spec => []TypeOK
<1>1. DumpInv => TypeOK
  BY TypedIsTypeOK DEF DumpInv
<1>2. QED
  BY <1>1, Invariance, PTL

(* PlainSqlRenderer.ts: of a complete dump every selected entry was        *)
(* rendered or skipped, and nothing was written for an entry that cannot   *)
(* do without one left out.                                                *)
THEOREM EveryEntryAccounted == Spec => []EntriesAccounted
<1>1. DumpInv => EntriesAccounted
  BY AllAccounted DEF DumpInv
<1>2. QED
  BY <1>1, Invariance, PTL

(* DumpPreflightAnalyzer.ts: the renderer refuses nothing that preflight   *)
(* let pass, but for what preflight does not look at.                      *)
THEOREM RefusedBeforehand == Spec => []RefusedUpFront
<1>1. DumpInv => RefusedUpFront
  BY RefusedBefore DEF DumpInv
<1>2. QED
  BY <1>1, Invariance, PTL

(* PlainSqlRenderer.ts: every statement is in the transaction of the mode, *)
(* a tablespace in none, and a complete document leaves none open.         *)
THEOREM StatementsFramed == Spec => []TransactionsFramed
<1>1. DumpInv => TransactionsFramed
  BY FramedThroughout DEF DumpInv
<1>2. QED
  BY <1>1, Invariance, PTL
=============================================================================
