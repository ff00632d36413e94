-------------------------- MODULE PlainReplayProofs --------------------------
(***************************************************************************)
(* Proofs about the replay of a plain dump, for every catalog, source and  *)
(* set of options: what a failing statement fails for, and what a complete *)
(* dump leaves on the server.                                              *)
(***************************************************************************)
EXTENDS PlainDumpProofs

(* What the filter takes, and with what those depend on.                   *)
Explicit ==
  {e \in archive.es : ~HardExcluded(e, opt) /\ PassesFilter(e, archive.db, opt.filter)}
Wanted == WithDependencies(Explicit, archive.es, archive.edges, opt)

(* The archive of a source that was planned.                               *)
Planful == src \in Sources /\ archive = Archive

(* Its parts by name, and what is true of the objects of a source.         *)
LEMMA PartsOfArchive ==
  ASSUME Planful
  PROVE  /\ archive.db = Introspected(objs, opt.filter)
         /\ archive.es = Entries(archive.db, opt.include)
         /\ archive.edges = Edges(archive.es, archive.db)
         /\ archive.selected = Selected(archive.es, archive.edges, archive.db, opt)
         /\ Sound(src, archive)
<1>1. Sound(src, archive)
  BY ArchiveIsSound DEF Planful
<1> DEFINE db == Introspected(objs, opt.filter)
           es == Entries(db, opt.include)
           edges == Edges(es, db)
           selected == Selected(es, edges, db, opt)
           A == [db |-> db, es |-> es, edges |-> edges, selected |-> selected]
<1>2. archive = A
  BY DEF Planful, Archive
<1>3. A.db = db /\ A.es = es /\ A.edges = edges /\ A.selected = selected
  OBVIOUS
<1> HIDE DEF A
<1>4. archive.db = db /\ archive.es = es /\ archive.edges = edges /\ archive.selected = selected
  BY <1>2, <1>3
<1>5. QED
  BY <1>1, <1>4 DEF db, es, edges, selected

LEMMA SourceFacts ==
  ASSUME Planful
  PROVE  /\ objs \subseteq Ids /\ archive.db \subseteq objs /\ IsFiniteSet(objs)
         /\ \A o \in objs : /\ \A u \in Uses(o) : u.to \in objs /\ UsesFit(o, u)
                            /\ Schema(o) # 0 => Schema(o) \in objs
                            /\ On(o) # 0 => On(o) \in objs
                            /\ Ext(o) # 0 => Ext(o) \in objs /\ Kind(Ext(o)) = "extension"
         /\ 0 \notin Ids
<1>1. objs \subseteq Ids /\ archive.db \subseteq objs
  BY PartsOfArchive, SourcesAssumption DEF Planful, objs, Sound
<1>2. IsFiniteSet(objs) /\ 0 \notin Ids
  BY <1>1, CatalogAssumption, FS_Subset
<1>3. ASSUME NEW o \in objs
      PROVE  /\ \A u \in Uses(o) : u.to \in objs /\ UsesFit(o, u)
             /\ Schema(o) # 0 => Schema(o) \in objs
             /\ On(o) # 0 => On(o) \in objs
             /\ Ext(o) # 0 => Ext(o) \in objs /\ Kind(Ext(o)) = "extension"
  <2>1. /\ {u.to : u \in Uses(o)} \subseteq objs
        /\ {Schema(o), On(o), Ext(o)} \ {0} \subseteq objs
    BY <1>3, SourcesAssumption DEF Planful, objs
  <2>2. o \in Ids
    BY <1>1
  <2>3. \A u \in Uses(o) : UsesFit(o, u)
    BY <2>2, ReferencesAssumption
  <2>4. Ext(o) # 0 => Kind(Ext(o)) = "extension"
    BY <2>2, CatalogAssumption
  <2>5. QED
    BY <2>1, <2>3, <2>4
<1>4. QED
  BY <1>1, <1>2, <1>3

(* Nothing excluded is wanted; everything else wanted is selected, but the *)
(* members of an extension that is wanted itself.                          *)
LEMMA WantedIs ==
  ASSUME Planful
  PROVE  /\ Explicit \subseteq Wanted /\ Wanted \subseteq archive.es
         /\ \A d \in archive.edges :
              d.hard /\ d.from \in Wanted /\ ~HardExcluded(d.to, opt) => d.to \in Wanted
         /\ \A e \in Wanted : ~HardExcluded(e, opt)
         /\ archive.selected =
              {e \in Wanted : MemberOf(e) # 0 => Entry("extension", MemberOf(e)) \notin Wanted}
<1> DEFINE steps == Followed(archive.edges, opt)
           X == {e \in archive.es : ~HardExcluded(e, opt)}
<1>1. IsFiniteSet(archive.es) /\ Within(archive.es, steps)
  <2>1. IsFiniteSet(archive.es)
    BY PartsOfArchive, SourceFacts, EntriesAreFinite
  <2>2. \A d \in archive.edges : d.to \in archive.es
    BY PartsOfArchive DEF Sound
  <2>3. QED
    BY <2>1, <2>2 DEF Within, Followed
<1>2. Explicit \in SUBSET archive.es /\ Explicit \subseteq X
  BY DEF Explicit
<1>3. Wanted = Closing(archive.es, steps)[Explicit]
  BY DEF Wanted, WithDependencies
<1>4. Closed(X, steps)
  BY <1>1 DEF Closed, Followed, Within
<1> HIDE DEF X, steps
<1>5. /\ Explicit \subseteq Wanted /\ Wanted \subseteq archive.es
      /\ Closed(Wanted, steps) /\ Wanted \subseteq X
  BY <1>1, <1>2, <1>3, <1>4, ClosureIsClosed
<1>6. \A d \in archive.edges :
        d.hard /\ d.from \in Wanted /\ ~HardExcluded(d.to, opt) => d.to \in Wanted
  BY <1>5 DEF Closed, steps, Followed
<1>7. \A e \in Wanted : ~HardExcluded(e, opt)
  BY <1>5 DEF X
<1>8. archive.selected =
        {e \in Wanted : MemberOf(e) # 0 => Entry("extension", MemberOf(e)) \notin Wanted}
  BY PartsOfArchive DEF Selected, Wanted, Explicit
<1>9. QED
  BY <1>5, <1>6, <1>7, <1>8
(* A hard edge between two entries.                                        *)
Linked(e, x) == \E d \in archive.edges : d.hard /\ d.from = e /\ d.to = x

(* What the builder finds for an entry is linked, and with a member its    *)
(* extension; a member is linked to its extension.                         *)
LEMMA EdgesMade ==
  ASSUME Planful, NEW e \in archive.es
  PROVE  /\ \A x \in HardTargets(e, archive.db) \cap archive.es : x # e =>
              /\ Linked(e, x)
              /\ MemberOf(x) # 0 => Linked(e, Entry("extension", MemberOf(x)))
         /\ MemberOf(e) # 0 => Linked(e, Entry("extension", MemberOf(e)))
<1> DEFINE es == archive.es
           db == archive.db
           Hard == UNION {{[from |-> y, to |-> x, hard |-> TRUE]
                             : x \in (HardTargets(y, db) \cap es) \ {y}} : y \in es}
           Soft == UNION {{[from |-> y, to |-> x, hard |-> FALSE]
                             : x \in Preferences(y) \cap es} : y \in es}
           Edge(x) == [from |-> e, to |-> x, hard |-> TRUE]
<1>1. archive.edges = WithExtensions(Hard \cup Soft) \cup MemberEdges(es)
  <2>1. archive.edges = Edges(es, db)
    BY PartsOfArchive
  <2>2. QED
    BY <2>1 DEF Edges
<1>2. \A x : Edge(x).hard /\ Edge(x).from = e /\ Edge(x).to = x
  OBVIOUS
<1>3. ASSUME NEW x \in HardTargets(e, db) \cap es, x # e
      PROVE  /\ Edge(x) \in archive.edges
             /\ MemberOf(x) # 0 => Edge(Entry("extension", MemberOf(x))) \in archive.edges
  <2>1. Edge(x) \in Hard
    <3> DEFINE Of(y) == {[from |-> y, to |-> z, hard |-> TRUE]
                           : z \in (HardTargets(y, db) \cap es) \ {y}}
    <3>1. x \in (HardTargets(e, db) \cap es) \ {e}
      BY <1>3
    <3>2. Edge(x) \in Of(e)
      BY <3>1
    <3> HIDE DEF Of, Edge
    <3>3. Edge(x) \in UNION {Of(y) : y \in es}
      BY <3>2
    <3>4. QED
      BY <3>3 DEF Of
  <2>2. Edge(x) \in Hard \cup Soft
    BY <2>1
  <2> HIDE DEF Hard, Soft
  <2>3. Edge(x) \in WithExtensions(Hard \cup Soft)
    BY <2>2 DEF WithExtensions
  <2>4. ASSUME MemberOf(x) # 0
        PROVE  Edge(Entry("extension", MemberOf(x))) \in WithExtensions(Hard \cup Soft)
    <3>1. Edge(x) \in {y \in Hard \cup Soft : MemberOf(y.to) # 0}
      BY <1>2, <2>2, <2>4
    <3>2. Edge(x).from = e /\ Edge(x).to = x
      BY <1>2
    <3> DEFINE d == Edge(x)
    <3> HIDE DEF d
    <3>3. d \in {y \in Hard \cup Soft : MemberOf(y.to) # 0} /\ d.from = e /\ d.to = x
      BY <3>1, <3>2 DEF d
    <3>4. [from |-> d.from, to |-> Entry("extension", MemberOf(d.to)), hard |-> TRUE]
            \in WithExtensions(Hard \cup Soft)
      BY <3>3 DEF WithExtensions
    <3>5. QED
      BY <3>3, <3>4
  <2>5. QED
    BY <1>1, <2>3, <2>4
<1>4. ASSUME MemberOf(e) # 0 PROVE Edge(Entry("extension", MemberOf(e))) \in archive.edges
  <2>1. Edge(Entry("extension", MemberOf(e))) \in MemberEdges(es)
    BY <1>4 DEF MemberEdges
  <2>2. QED
    BY <1>1, <2>1
<1> HIDE DEF Edge
<1>5. \A x : Edge(x) \in archive.edges => Linked(e, x)
  BY <1>2 DEF Linked
<1>6. QED
  BY <1>3, <1>4, <1>5

(* An object and its own entry, and the entry whose statement brings it:   *)
(* its own, or that of the extension that keeps it.  An unmarked member    *)
(* has an entry like any other object, and a language of an extension none.*)
Keeper(y) == IF Unmarked(y) THEN 0 ELSE Ext(y)
HasEntry(y) == Kind(y) = "procedural-language" => Ext(y) = 0
Provider(y) == IF Keeper(y) = 0 THEN ObjectEntry(y) ELSE Entry("extension", Keeper(y))

LEMMA KeeperIs ==
  \A y : /\ Keeper(y) # 0 => Keeper(y) = Ext(y) /\ ~ Unmarked(y)
         /\ Keeper(y) = 0 => Ext(y) = 0 \/ Unmarked(y)
         /\ Ext(y) = 0 => Keeper(y) = 0
         /\ Kind(y) \in MarkedKinds => Keeper(y) = Ext(y) /\ ~ Unmarked(y)
         /\ Unmarked(y) => Ext(y) # 0 /\ Kind(y) # "procedural-language"
         /\ Keeper(y) = 0 \/ Unmarked(y) => HasEntry(y)
BY DEF Keeper, Unmarked, HasEntry

LEMMA OwnEntry ==
  ASSUME Planful, NEW y \in objs
  PROVE  /\ ObjectEntry(y).t = Kind(y) /\ ObjectEntry(y).o = y
         /\ HasEntry(y) \/ Keeper(y) = 0 => MemberOf(ObjectEntry(y)) = Keeper(y)
         /\ Kind(y) \in Kinds
         /\ Keeper(y) # 0 => /\ Keeper(y) \in objs /\ Kind(Keeper(y)) = "extension"
                          /\ Keeper(Keeper(y)) = 0 /\ Keeper(y) \in archive.db
                          /\ Entry("extension", Keeper(y)) = ObjectEntry(Keeper(y))
         /\ MemberOf(Provider(y)) = 0
         /\ Provider(y).o \in objs /\ Provider(y).t = Kind(Provider(y).o)
         /\ Provider(y) = ObjectEntry(Provider(y).o)
<1>1. \A o : ObjectEntry(o).t = Kind(o) /\ ObjectEntry(o).o = o
  BY DEF ObjectEntry, Entry
<1>2. \A o : HasEntry(o) \/ Keeper(o) = 0 => MemberOf(ObjectEntry(o)) = Keeper(o)
  BY <1>1 DEF MemberOf, HasEntry, Keeper, Unmarked, MarkedKinds
<1>3. Kind(y) \in Kinds
  BY SourceFacts, CatalogAssumption
<1>4. ASSUME Keeper(y) # 0
      PROVE  /\ Keeper(y) \in objs /\ Kind(Keeper(y)) = "extension"
             /\ Keeper(Keeper(y)) = 0 /\ Keeper(y) \in archive.db
             /\ Entry("extension", Keeper(y)) = ObjectEntry(Keeper(y))
  <2>1. /\ Keeper(y) \in objs /\ Kind(Keeper(y)) = "extension"
        /\ Keeper(y) \in Ids /\ objs \subseteq Ids
    BY <1>4, SourceFacts, KeeperIs
  <2>2. Keeper(Keeper(y)) = 0
    BY <2>1, ReferencesAssumption, KeeperIs
  <2>3. Keeper(y) \in archive.db
    BY <2>1, KindsKept, PartsOfArchive
  <2>4. Entry("extension", Keeper(y)) = ObjectEntry(Keeper(y))
    BY <2>1 DEF ObjectEntry
  <2>5. QED
    BY <2>1, <2>2, <2>3, <2>4
<1>5. QED
  BY <1>1, <1>2, <1>3, <1>4 DEF Provider

(* Only the languages of extensions have no entry of their own.            *)
LEMMA HasOwnEntry ==
  ASSUME Planful, NEW y \in objs, ObjectEntry(y) \in archive.es
  PROVE  HasEntry(y)
<1>1. archive.es = Entries(archive.db, opt.include) /\ archive.db \subseteq Ids
  BY PartsOfArchive, SourceFacts
<1>2. ObjectEntry(y).t \in Kinds /\ ObjectEntry(y).o = y
  BY OwnEntry
<1>3. y \in Planned(archive.db, opt.include)
  BY <1>1, <1>2, EntryShape
<1>4. QED
  BY <1>3 DEF Planned, HasEntry

(* Whatever has an edge to an object has one to the entry that brings it.  *)
LEMMA ProviderLinked ==
  ASSUME Planful, NEW e \in archive.es, NEW y \in objs,
         ObjectEntry(y) \in HardTargets(e, archive.db) \cap archive.es, ObjectEntry(y) # e
  PROVE  Linked(e, Provider(y))
BY EdgesMade, OwnEntry, HasOwnEntry DEF Provider

(* If an object's entry is wanted, the entry that brings it is selected.   *)
LEMMA ProviderSelected ==
  ASSUME Planful, NEW y \in objs, ObjectEntry(y) \in Wanted, ~HardExcluded(Provider(y), opt)
  PROVE  Provider(y) \in archive.selected
<1>1. CASE Keeper(y) = 0
  BY <1>1, WantedIs, OwnEntry DEF Provider
<1>2. CASE Keeper(y) # 0
  <2>1. ObjectEntry(y) \in archive.es
    BY WantedIs
  <2>2. Provider(y) = Entry("extension", Keeper(y)) /\ MemberOf(ObjectEntry(y)) = Keeper(y)
    BY <1>2, <2>1, OwnEntry, HasOwnEntry DEF Provider
  <2>3. Linked(ObjectEntry(y), Provider(y))
    BY <1>2, <2>1, <2>2, EdgesMade
  <2>4. Provider(y) \in Wanted
    BY <2>3, WantedIs DEF Linked
  <2>5. QED
    BY <2>4, WantedIs, OwnEntry
<1>3. QED
  BY <1>1, <1>2
-----------------------------------------------------------------------------
(* An introspected object of a kind asked for has its entries, but for the *)
(* keys of partitions, which come with their parent's.                     *)
LEMMA EntriesMade ==
  ASSUME Planful, NEW o \in archive.db, Kind(o) \in OptionalKinds => Kind(o) \in opt.include,
         Kind(o) \in {"constraint", "foreign-key"} => "child" \notin Marks(o), HasEntry(o)
  PROVE  /\ ObjectEntry(o) \in archive.es
         /\ \A t \in SatelliteTypes(o, archive.db) : Entry(t, o) \in archive.es
<1>1. archive.es = Entries(archive.db, opt.include)
  BY PartsOfArchive
<1>2. o \in Planned(archive.db, opt.include)
  BY DEF Planned, HasEntry
<1>3. ObjectEntry(o) \in archive.es
  BY <1>1, <1>2, EntryOrigin
<1>4. ASSUME NEW t \in SatelliteTypes(o, archive.db) PROVE Entry(t, o) \in archive.es
  <2>1. Entry(t, o) \in EntriesOf(o, archive.db)
    BY DEF EntriesOf
  <2> DEFINE x == Entry(t, o)
  <2> HIDE DEF x
  <2>2. x \in Described(archive.db, opt.include)
    BY <1>2, <2>1 DEF Described, x
  <2>3. x \in archive.es
    BY <1>1, <2>2 DEF Entries
  <2>4. QED
    BY <2>3 DEF x
<1>5. QED
  BY <1>3, <1>4

(* An entry of its own belongs to an object that has one.                  *)
LEMMA OwnEntryMade ==
  ASSUME Planful, NEW e \in archive.es
  PROVE  /\ e.o \in archive.db /\ e.o \in objs /\ e \in EntrySpace
         /\ e.t \in Kinds \/ e.t = Kind(e.o) =>
              /\ e = ObjectEntry(e.o) /\ e.t = Kind(e.o)
              /\ HasEntry(e.o) /\ MemberOf(e) = Keeper(e.o)
              /\ Kind(e.o) \in OptionalKinds => Kind(e.o) \in opt.include
              /\ Kind(e.o) \in {"constraint", "foreign-key"} => "child" \notin Marks(e.o)
<1>1. e.o \in archive.db /\ e.o \in objs /\ e \in EntrySpace
  BY PartsOfArchive, SourceFacts DEF Sound
<1>2. ASSUME e.t \in Kinds \/ e.t = Kind(e.o)
      PROVE  e = ObjectEntry(e.o) /\ e.o \in Planned(archive.db, opt.include)
  <2>1. e.t \in Kinds
    BY <1>1, <1>2, OwnEntry
  <2>2. archive.es = Entries(archive.db, opt.include) /\ archive.db \subseteq Ids
    BY PartsOfArchive, SourceFacts
  <2>3. QED
    BY <2>1, <2>2, EntryShape
<1>3. QED
  BY <1>1, <1>2, OwnEntry DEF Planned, HasEntry

(* What an entry of another type is about.                                 *)
LEMMA SatelliteOf ==
  ASSUME Planful, NEW e \in archive.es, e.t \notin Kinds
  PROVE  /\ e.t = "column" => Kind(e.o) = "table"
         /\ e.t = "table-data" => Kind(e.o) = "table"
         /\ e.t = "sequence-ownership" => Kind(e.o) = "sequence"
         /\ e.t = "sequence-state" => Kind(e.o) = "sequence"
         /\ e.t = "materialized-view-data" => Kind(e.o) = "materialized-view"
         /\ e.t \in {"large-object-data", "large-object-metadata"} => Kind(e.o) = "large-object"
         /\ e.t = "comment" => Kind(e.o) \in CommentedKinds
         /\ e.t = "ownership" => Kind(e.o) \in OwnedKinds
         /\ e.t = "acl" => Kind(e.o) \in GrantedKinds
         /\ e.t \in Satellites
<1>1. archive.es = Entries(archive.db, opt.include) /\ archive.db \subseteq Ids
  BY PartsOfArchive, SourceFacts
<1>2. \A o, t : Entry(t, o).t = t /\ Entry(t, o).o = o
  BY DEF Entry
<1>3. \A o \in archive.db : ObjectEntry(o).t \in Kinds
  BY <1>1, CatalogAssumption DEF ObjectEntry, Entry
<1>4. CASE \E o \in Planned(archive.db, opt.include) : e = ObjectEntry(o)
  BY <1>3, <1>4 DEF Planned
<1>5. CASE \E o \in Planned(archive.db, opt.include) :
             \E t \in SatelliteTypes(o, archive.db) : e = Entry(t, o)
  <2>1. PICK o \in Planned(archive.db, opt.include) :
               \E t \in SatelliteTypes(o, archive.db) : e = Entry(t, o)
    BY <1>5
  <2>2. e.o = o /\ e.t \in SatelliteTypes(o, archive.db)
    BY <1>2, <2>1
  <2>3. e.t \in SatelliteTypes(e.o, archive.db)
    BY <2>2
  <2>4. QED
    BY <2>3 DEF SatelliteTypes, Satellites
<1>6. CASE \E o \in archive.db : e \in MetadataEntries(o)
  <2>1. PICK o \in archive.db : e \in MetadataEntries(o)
    BY <1>6
  <2>2. \/ Kind(o) \in CommentedKinds /\ e = Entry("comment", o)
        \/ Kind(o) \in OwnedKinds /\ e = Entry("ownership", o)
        \/ Kind(o) \in GrantedKinds /\ \E r : e = [t |-> "acl", o |-> o, g |-> r]
    BY <2>1 DEF MetadataEntries
  <2>3. \/ Kind(e.o) \in CommentedKinds /\ e.t = "comment"
        \/ Kind(e.o) \in OwnedKinds /\ e.t = "ownership"
        \/ Kind(e.o) \in GrantedKinds /\ e.t = "acl"
    BY <1>2, <2>2
  <2>4. QED
    BY <2>3 DEF Satellites
<1>7. QED
  BY <1>1, <1>4, <1>5, <1>6, EntryOrigin

(* The tables that are kept are those the filter takes; with a key, an     *)
(* index, a trigger, a rule or a policy its table is kept.                 *)
LEMMA KeptOnTables ==
  ASSUME Planful, NEW o \in archive.db
  PROVE  LET Taken(t) == SchemaSelected(Schema(t), opt.filter) /\ TableSelected(t, opt.filter)
         IN /\ Kind(o) \notin {"database", "security-label"}
            /\ Kind(o) = "table" => Taken(o)
            /\ Kind(o) \in Attached /\ Kind(On(o)) = "table" => Taken(On(o))
            /\ Kind(o) = "foreign-key" =>
                 UsesOf(o, {"object"}) \subseteq archive.db
<1> DEFINE f == opt.filter
           tables == TablesKept(objs, f)
           relations == tables \cup ViewsKept(objs, f)
           types == TypesKept(objs, f)
           keys == KeysKept(objs, tables \cup types)
           indexes == IndexesKept(objs, relations)
           Within2(x) == x \in SchemasKept(objs, f) \/ x \in relations \/ x \in types
             \/ x \in SequencesKept(objs, f) \/ x \in RoutinesKept(objs, f)
             \/ x \in AggregatesKept(objs, f) \/ x \in keys \/ x \in indexes
             \/ x \in TriggersKept(objs, relations) \/ x \in RulesKept(objs, relations)
             \/ x \in PoliciesKept(objs, tables) \/ x \in AdvancedKept(objs)
<1>1. \A x : x \in archive.db <=> Within2(x)
  <2>1. archive.db = Introspected(objs, f)
    BY PartsOfArchive
  <2> HIDE DEF tables, types
  <2>2. QED
    BY <2>1 DEF Introspected, tables, types
<1>2. Within2(o)
  BY <1>1
<1>3. Kind(o) \notin {"database", "security-label"}
  BY <1>2 DEF SchemasKept, TablesKept, ViewsKept, TypesKept, SequencesKept, RoutinesKept,
      AggregatesKept, KeysKept, IndexesKept, TriggersKept, RulesKept, PoliciesKept,
      AdvancedKept, AdvancedKinds, InSelectedSchema
<1>4. Kind(o) = "table" => o \in tables
  BY <1>2 DEF SchemasKept, TablesKept, ViewsKept, TypesKept, SequencesKept, RoutinesKept,
      AggregatesKept, KeysKept, IndexesKept, TriggersKept, RulesKept, PoliciesKept,
      AdvancedKept, AdvancedKinds, InSelectedSchema
<1>5. Kind(o) \in Attached /\ Kind(On(o)) = "table" => On(o) \in tables
  BY <1>2 DEF SchemasKept, TablesKept, ViewsKept, TypesKept, SequencesKept, RoutinesKept,
      AggregatesKept, KeysKept, IndexesKept, TriggersKept, RulesKept, PoliciesKept,
      AdvancedKept, AdvancedKinds, InSelectedSchema, Attached
<1>6. Kind(o) = "foreign-key" => UsesOf(o, {"object"}) \subseteq tables \cup types
  BY <1>2 DEF SchemasKept, TablesKept, ViewsKept, TypesKept, SequencesKept, RoutinesKept,
      AggregatesKept, KeysKept, IndexesKept, TriggersKept, RulesKept, PoliciesKept,
      AdvancedKept, AdvancedKinds, InSelectedSchema
<1>7. \A t \in tables : SchemaSelected(Schema(t), f) /\ TableSelected(t, f)
  BY DEF TablesKept, InSelectedSchema
<1>8. QED
  BY <1>1, <1>3, <1>4, <1>5, <1>6, <1>7

(* So every entry about a table that was kept, and every one of what is on *)
(* it, is wanted unless the mode or the sections exclude it.               *)
LEMMA WantedOnTables ==
  ASSUME Planful, NEW e \in archive.es, ~HardExcluded(e, opt),
         \/ Kind(e.o) = "table"
         \/ e.t = Kind(e.o) /\ Kind(e.o) \in Attached /\ Kind(On(e.o)) = "table"
  PROVE  e \in Wanted
<1>1. e.o \in archive.db /\ e.o \in objs /\ e.o \in Ids
  BY OwnEntryMade, SourceFacts
<1>2. CASE Kind(e.o) = "table"
  <2>1. SchemaSelected(Schema(e.o), opt.filter) /\ TableSelected(e.o, opt.filter)
    BY <1>1, <1>2, KeptOnTables
  <2>2. FiledUnder(e.o) = Schema(e.o) /\ TablesOf(e, archive.db) = {e.o}
    <3>1. e.t # "sequence-ownership"
      BY <1>2, SatelliteOf DEF Kinds
    <3>2. On(e.o) = 0
      BY <1>1, <1>2, ReferencesAssumption DEF Attached
    <3>3. QED
      BY <1>2, <3>1, <3>2 DEF FiledUnder, TablesOf
  <2>3. PassesFilter(e, archive.db, opt.filter)
    BY <2>1, <2>2 DEF PassesFilter, TableSelected
  <2>4. QED
    BY <2>3, WantedIs DEF Explicit
<1>3. CASE e.t = Kind(e.o) /\ Kind(e.o) \in Attached /\ Kind(On(e.o)) = "table"
  <2>1. SchemaSelected(Schema(On(e.o)), opt.filter) /\ TableSelected(On(e.o), opt.filter)
    BY <1>1, <1>3, KeptOnTables
  <2>2. On(e.o) # 0 /\ Schema(e.o) = Schema(On(e.o))
    BY <1>1, <1>3, ReferencesAssumption, CatalogAssumption
  <2>3. FiledUnder(e.o) = Schema(e.o) /\ TablesOf(e, archive.db) = {On(e.o)}
    BY <1>3, <2>2 DEF FiledUnder, TablesOf, Attached
  <2>4. PassesFilter(e, archive.db, opt.filter)
    BY <2>1, <2>2, <2>3 DEF PassesFilter, TableSelected
  <2>5. QED
    BY <2>4, WantedIs DEF Explicit
<1>4. QED
  BY <1>2, <1>3
-----------------------------------------------------------------------------
(* Once planned, the archive is that of the source, and of the entries to  *)
(* come none waits that could come earlier.                                *)
SortInv ==
  phase \notin {"plan", "refused"} =>
      archive = Archive /\ InOrder(todo, archive.edges, src.naming)

LEMMA InOrderTail ==
  ASSUME NEW S, NEW s \in Seq(S), s # <<>>, NEW edges, NEW naming, InOrder(s, edges, naming)
  PROVE  InOrder(Tail(s), edges, naming)
<1> DEFINE r == Tail(s)
<1>1. /\ Len(s) \in Nat \ {0} /\ Len(r) = Len(s) - 1
      /\ \A i \in 1..Len(r) : i + 1 \in 1..Len(s) /\ r[i] = s[i + 1]
  BY Behead
<1> HIDE DEF r
<1>2. ASSUME NEW i \in 1..Len(r), NEW j \in 1..Len(r), i < j, ReadyAt(r, i, j, edges)
      PROVE  Earlier(r[i], r[j], naming)
  <2>1. /\ i + 1 \in 1..Len(s) /\ j + 1 \in 1..Len(s) /\ i + 1 < j + 1
        /\ r[i] = s[i + 1] /\ r[j] = s[j + 1]
    BY <1>1, <1>2
  <2>2. ReadyAt(s, i + 1, j + 1, edges)
    <3> SUFFICES ASSUME NEW d \in edges, d.from = s[j + 1], NEW k \in (i + 1)..Len(s)
                 PROVE  s[k] # d.to
      BY DEF ReadyAt
    <3>1. k - 1 \in i..Len(r) /\ k - 1 \in 1..Len(r) /\ (k - 1) + 1 = k
      BY <1>1
    <3>2. r[k - 1] # d.to
      BY <1>2, <2>1, <3>1 DEF ReadyAt
    <3>3. QED
      BY <1>1, <3>1, <3>2
  <2>3. QED
    BY <2>1, <2>2 DEF InOrder
<1>3. InOrder(r, edges, naming)
  BY <1>2 DEF InOrder
<1>4. QED
  BY <1>3 DEF r

LEMMA SortNext ==
  ASSUME ArchiveInv, TodoInv, SortInv, [Next]_vars PROVE SortInv'
<1>1. src' = src => (Archive)' = Archive
  BY DEF Archive, objs, opt
<1>2. CASE Plan
  <2>1. src' = src /\ phase = "plan" /\ src \in Sources
    BY <1>2 DEF Plan, ArchiveInv
  <2>2. CASE CatalogsReadable(objs, opt.filter, opt.session)
    <3>1. /\ archive' = Archive
          /\ todo' = Ordered(archive'.selected, archive'.edges, src.naming)
      BY <1>2, <2>2 DEF Plan
    <3> DEFINE S == archive'.selected
               E == archive'.edges
               n == src.naming
    <3>2. S \subseteq EntrySpace /\ IsFiniteSet(S) /\ n \in {"asc", "desc"}
      BY <2>1, <3>1, ArchiveIsSound, SourcesAssumption DEF Sound
    <3>3. todo' = Ordered(S, E, n)
      BY <3>1
    <3> HIDE DEF S, E, n
    <3>4. InOrder(todo', E, n)
      BY <3>2, <3>3, OrderedIsArranged DEF Arranged
    <3>5. QED
      BY <1>1, <2>1, <3>1, <3>4 DEF SortInv, E, n
  <2>3. CASE ~ CatalogsReadable(objs, opt.filter, opt.session)
    BY <1>2, <2>3 DEF Plan, SortInv
  <2>4. QED
    BY <2>2, <2>3
<1>3. CASE Check
  <2>1. src' = src /\ archive' = archive /\ todo' = todo /\ phase = "preflight"
    BY <1>3 DEF Check
  <2>2. QED
    BY <1>1, <2>1 DEF SortInv
<1>4. CASE Entryward
  <2>1. Turn /\ src' = src /\ archive' = archive
    BY <1>4, EntrywardTurns
  <2>2. phase = "write" /\ todo # <<>> /\ todo' = Tail(todo) /\ todo \in Seq(archive.selected)
    BY <2>1 DEF Turn, TodoInv
  <2>3. InOrder(todo', archive.edges, src.naming)
    BY <2>2, InOrderTail DEF SortInv
  <2>4. QED
    BY <1>1, <2>1, <2>2, <2>3 DEF SortInv
<1>5. CASE DropNext \/ Finish \/ Cancel \/ UNCHANGED vars
  <2>1. /\ src' = src /\ archive' = archive /\ todo' = todo
        /\ phase \in {"plan", "refused"} => phase' = phase
    BY <1>5 DEF DropNext, Finish, Cancel, vars
  <2>2. QED
    BY <1>1, <2>1 DEF SortInv
<1>6. QED
  BY <1>2, <1>3, <1>4, <1>5 DEF Next, Entryward

(* A set of entries that holds the targets of its edges, each due before   *)
(* the i-th entry by section and priority, is behind it.                   *)
DueBefore(x, e) ==
  \/ SectionOf(x) < SectionOf(e)
  \/ SectionOf(x) = SectionOf(e) /\ Priority(x) < Priority(e)

LEMMA FirstThingsFirst ==
  ASSUME ArchiveInv, todo \in Seq(archive.selected), Ordering,
         InOrder(todo, archive.edges, src.naming),
         NEW i \in 1..Len(todo),
         NEW L, L \subseteq archive.selected, \A x \in L : DueBefore(x, todo[i]),
         \A d \in archive.edges : d.from \in L /\ d.to \in archive.selected => d.to \in L
  PROVE  \A j \in i..Len(todo) : todo[j] \notin L
<1> DEFINE J == {j \in i..Len(todo) : todo[j] \in L}
<1> SUFFICES ASSUME J # {} PROVE FALSE
  OBVIOUS
<1>1. Len(todo) \in Nat /\ \A j \in 1..Len(todo) : todo[j] \in archive.selected
  OBVIOUS
<1>2. archive.selected \subseteq EntrySpace
  BY DEF ArchiveInv, Sound
<1>3. J \subseteq Nat
  BY <1>1
<1>4. PICK m \in J : \A k \in J : m <= k
  <2> HIDE DEF J
  <2>1. QED
    BY <1>3, LeastNumber
<1>5. m \in 1..Len(todo) /\ todo[m] \in L /\ DueBefore(todo[m], todo[i])
  BY <1>1
<1>6. /\ SectionOf(todo[m]) \in 0..2 /\ SectionOf(todo[i]) \in 0..2
      /\ Priority(todo[m]) \in Nat /\ Priority(todo[i]) \in Nat
  <2>1. todo[m].t \in Types /\ todo[i].t \in Types
    BY <1>1, <1>2, <1>5 DEF EntrySpace
  <2>2. \A n \in 0..120 : n \in Nat
    OBVIOUS
  <2>3. QED
    BY <2>1, <2>2, PriorityIsNumber
<1>7. i < m
  BY <1>1, <1>5, <1>6 DEF DueBefore
<1>8. ReadyAt(todo, i, m, archive.edges)
  <2> SUFFICES ASSUME NEW d \in archive.edges, d.from = todo[m],
                      NEW k \in i..Len(todo), todo[k] = d.to
               PROVE  FALSE
    BY DEF ReadyAt
  <2>1. k \in 1..Len(todo) /\ d.to \in archive.selected
    BY <1>1
  <2>2. d.to \in L
    BY <1>5, <2>1
  <2>3. d.to \notin Passed
    BY <2>1 DEF Passed, ToSet
  <2>4. PICK j \in 1..(m - 1) : todo[j] = d.to
    BY <1>5, <2>1, <2>3 DEF Ordering, Behindhand
  <2>5. j \in 1..Len(todo) /\ j < m
    BY <1>1, <1>5
  <2>6. j = k
    BY <2>1, <2>4, <2>5 DEF Ordering, Distinct
  <2>7. j \in J /\ ~ (m <= j)
    BY <1>5, <2>2, <2>4, <2>5, <2>6
  <2>8. QED
    BY <1>4, <2>7
<1>9. Earlier(todo[i], todo[m], src.naming)
  BY <1>5, <1>7, <1>8 DEF InOrder
<1>10. QED
  BY <1>5, <1>6, <1>9 DEF Earlier, DueBefore
-----------------------------------------------------------------------------
(* What omitted entries take with them is warned of.                       *)
WarnedInv == unavailable \subseteq warned

(* What the statement of an object's own entry brings, and what is on the  *)
(* server of the entries written: what they make, unless they failed.      *)
MadeBy(o) ==
  {x \in Parts(o, objs) : opt.target = "old" /\ Kind(o) = "table" => Kind(x) # "sequence"}

Holding(e) ==
  /\ e.t = Kind(e.o) => Objects(MadeBy(e.o)) \subseteq server
  /\ e.t = "table-data" /\ "foreign" \notin Marks(e.o) => Fact("rows", e.o) \in server

WrittenInv == \A e \in rendered : Failed(e) \/ Holding(e)

(* The schema public is there, unless the dump drops it.                   *)
PublicInv == ~ opt.clean => Objects(Publics(objs)) \subseteq server

(* In the middle of the document, the drops over.                          *)
Replaying ==
  /\ Planful /\ DumpInv /\ SortInv /\ WarnedInv /\ WrittenInv /\ PublicInv
  /\ phase = "write" /\ drops = <<>> /\ todo # <<>>

(* Parts, and parts of parts.                                              *)
LEMMA PartOf ==
  ASSUME NEW z \in objs
  PROVE  /\ z \in Parts(z, objs)
         /\ \A v \in DirectParts(z, objs) : v \in objs /\ v \in Parts(z, objs)
         /\ \A v \in DirectParts(z, objs) : \A w \in DirectParts(v, objs) :
              w \in objs /\ w \in Parts(z, objs)
         /\ \A x \in Parts(z, objs) :
              \/ x = z \/ x \in DirectParts(z, objs)
              \/ \E v \in DirectParts(z, objs) : x \in DirectParts(v, objs)
<1> DEFINE Of(x) == {x} \cup DirectParts(x, objs)
<1>1. Parts(z, objs) = {z} \cup UNION {Of(x) : x \in DirectParts(z, objs)}
  BY DEF Parts
<1>2. \A x : DirectParts(x, objs) \subseteq objs
  BY DEF DirectParts
<1> HIDE DEF Of
<1>3. \A x \in Parts(z, objs) : x = z \/ \E v \in DirectParts(z, objs) : x \in Of(v)
  BY <1>1
<1>4. \A v \in DirectParts(z, objs) : Of(v) \subseteq Parts(z, objs)
  BY <1>1
<1>5. \A v, x : x \in Of(v) <=> x = v \/ x \in DirectParts(v, objs)
  BY DEF Of
<1>6. z \in Parts(z, objs)
  BY <1>1
<1>7. QED
  BY <1>2, <1>3, <1>4, <1>5, <1>6

(* What comes with an object that is not absent is asked for, and its      *)
(* statement was neither omitted nor did it fail.                          *)
LEMMA SharesFate ==
  ASSUME Planful, NEW z \in objs, NEW x \in Parts(z, objs), ~ Absent(x)
  PROVE  /\ Kind(z) \in OptionalKinds => Kind(z) \in opt.include
         /\ z \in archive.db
         /\ ~ HardExcluded(ObjectEntry(z), opt)
         /\ ObjectEntry(z) \notin warned \cap skipped
         /\ ~ Failed(ObjectEntry(z))
BY SourceFacts DEF Absent, NotAsked

(* An entry that had its turn was written, or there is an account of it.   *)
LEMMA HadItsTurn ==
  ASSUME Replaying, NEW e \in Passed
  PROVE  /\ e \in rendered \/ e \in skipped
         /\ e \in skipped => \/ e \in warned \cap skipped
                             \/ OutcomeOf(e) = "nothing" \/ MemberOf(e) # 0
                             \/ e.t \in {"materialized-view-data", "ownership"}
<1>1. DumpInv /\ WarnedInv /\ phase = "write"
  BY DEF Replaying
<1>2. failed = {} /\ phase \in Begun
  BY <1>1 DEF DumpInv, RefuseInv, Begun
<1>3. e \in rendered \/ e \in skipped
  BY <1>1, <1>2 DEF DumpInv, AccountInv, Settled
<1>4. e \in skipped => \/ e \in warned \cap skipped
                       \/ OutcomeOf(e) = "nothing" \/ MemberOf(e) # 0
                       \/ e.t \in {"materialized-view-data", "ownership"}
  BY <1>1 DEF DumpInv, AccountInv, WarnedInv
<1>5. QED
  BY <1>3, <1>4

(* So what it brings is there, or absent with reason.                      *)
Brings(p, y) ==
  /\ p \in objs /\ Keeper(p) = 0 /\ y \in Parts(p, objs)
  /\ OutcomeOf(ObjectEntry(p)) # "nothing"
  /\ opt.target = "old" /\ Kind(p) = "table" => Kind(y) # "sequence"

LEMMA Brought ==
  ASSUME Replaying, NEW p, NEW y, Brings(p, y), ObjectEntry(p) \in Passed
  PROVE  Absent(y) \/ Fact("object", y) \in server
<1> SUFFICES ASSUME ~ Absent(y) PROVE Fact("object", y) \in server
  OBVIOUS
<1> DEFINE e == ObjectEntry(p)
<1>1. p \in objs /\ y \in Parts(p, objs) /\ Planful /\ OutcomeOf(e) # "nothing"
  BY DEF Brings, Replaying
<1>2. e.t = Kind(p) /\ e.o = p /\ MemberOf(e) = 0 /\ e.t \in Kinds
  BY <1>1, OwnEntry DEF Brings
<1>3. e \notin warned \cap skipped /\ ~ Failed(e)
  BY <1>1, SharesFate
<1>4. e.t \notin {"materialized-view-data", "ownership"}
  BY <1>2 DEF Kinds
<1> HIDE DEF e
<1>5. e \in rendered
  BY <1>1, <1>2, <1>3, <1>4, HadItsTurn DEF e
<1>6. Objects(MadeBy(p)) \subseteq server
  BY <1>2, <1>3, <1>5 DEF Replaying, WrittenInv, Holding
<1>7. y \in MadeBy(p)
  BY <1>1 DEF MadeBy, Brings
<1>8. QED
  BY <1>6, <1>7 DEF Objects

(* The objects whose own entry has no statement.                           *)
LEMMA WithoutStatement ==
  ASSUME Planful, NEW y \in objs, OutcomeOf(ObjectEntry(y)) = "nothing"
  PROVE  \/ Kind(y) = "schema" /\ "public" \in Marks(y)
         \/ Kind(y) = "sequence" /\ IdentitySequence(y, archive.db, opt)
         \/ Kind(y) = "constraint" /\ Kind(On(y)) = "domain"
         \/ Kind(y) = "index" /\ "invalid" \notin Marks(y) /\ BackingIndex(y, archive.es)
<1> DEFINE e == ObjectEntry(y)
<1>1. e.t = Kind(y) /\ e.o = y /\ e.t \in Kinds
  BY OwnEntry
<1> HIDE DEF e
<1>2. Nothing(e, archive.es, archive.db, opt)
  BY DEF OutcomeOf, Outcome, e
<1>3. QED
  BY <1>1, <1>2 DEF Nothing, Kinds

(* What a wanted entry is linked to is selected, or rather what brings it. *)
LEMMA LinkedSelected ==
  ASSUME Planful, NEW c \in Wanted, NEW y \in archive.db,
         Kind(y) \in OptionalKinds => Kind(y) \in opt.include,
         ~ HardExcluded(ObjectEntry(y), opt), ~ HardExcluded(Provider(y), opt),
         ObjectEntry(y) \in HardTargets(c, archive.db), ObjectEntry(y) # c,
         Kind(y) \in {"constraint", "foreign-key"} => "child" \notin Marks(y), HasEntry(y)
  PROVE  /\ ObjectEntry(y) \in Wanted
         /\ Provider(y) \in archive.selected
         /\ Linked(c, Provider(y))
<1>1. y \in objs
  BY SourceFacts
<1>2. ObjectEntry(y) \in archive.es /\ c \in archive.es
  BY EntriesMade, WantedIs
<1>3. Linked(c, ObjectEntry(y)) /\ Linked(c, Provider(y))
  BY <1>1, <1>2, EdgesMade, ProviderLinked
<1>4. ObjectEntry(y) \in Wanted
  BY <1>3, WantedIs DEF Linked
<1>5. QED
  BY <1>1, <1>3, <1>4, ProviderSelected

(* What brings an object is asked for when something of it is not absent.  *)
LEMMA ProviderAsked ==
  ASSUME Planful, NEW y \in objs, NEW x, x = y \/ x \in DirectParts(y, objs), ~ Absent(x)
  PROVE  /\ y \in archive.db /\ ~ HardExcluded(ObjectEntry(y), opt)
         /\ Kind(y) \in OptionalKinds => Kind(y) \in opt.include
         /\ ~ HardExcluded(Provider(y), opt)
         /\ Provider(y).o \in objs /\ x \in Parts(Provider(y).o, objs)
<1>1. /\ y \in archive.db /\ ~ HardExcluded(ObjectEntry(y), opt)
      /\ Kind(y) \in OptionalKinds => Kind(y) \in opt.include
      /\ x \in Parts(y, objs)
  BY PartOf, SharesFate
<1>2. CASE Keeper(y) = 0
  BY <1>1, <1>2, OwnEntry DEF Provider
<1>3. CASE Keeper(y) # 0
  <2>1. Keeper(y) \in objs /\ Provider(y) = ObjectEntry(Keeper(y)) /\ Provider(y).o = Keeper(y)
    BY <1>3, OwnEntry DEF Provider, Entry
  <2>2. x \in Parts(Keeper(y), objs)
    <3>1. y \in DirectParts(Keeper(y), objs)
      BY <1>3, KeeperIs DEF DirectParts
    <3>2. QED
      BY <2>1, <3>1, PartOf
  <2>3. QED
    BY <1>1, <2>1, <2>2, SharesFate
<1>4. QED
  BY <1>2, <1>3

LEMMA LinkedProvider ==
  ASSUME Planful, NEW c \in Wanted, NEW y \in objs, ~ Absent(y),
         ObjectEntry(y) \in HardTargets(c, archive.db), ObjectEntry(y) # c,
         Kind(y) \in {"constraint", "foreign-key"} => "child" \notin Marks(y), HasEntry(y)
  PROVE  /\ ObjectEntry(y) \in Wanted
         /\ Provider(y) \in archive.selected
         /\ Linked(c, Provider(y))
BY ProviderAsked, LinkedSelected

(* An object is on the server once the entry that brings it had its turn.  *)
LEMMA ProviderBrings ==
  ASSUME Replaying, NEW y \in objs, Provider(y) \in Passed,
         Keeper(y) # 0 \/ OutcomeOf(ObjectEntry(y)) # "nothing"
  PROVE  Absent(y) \/ Fact("object", y) \in server
<1> DEFINE p == Provider(y).o
<1>1. Planful
  BY DEF Replaying
<1>2. p \in objs /\ Provider(y) = ObjectEntry(p) /\ Keeper(p) = 0
  BY <1>1, OwnEntry DEF Provider, Entry
<1>3. CASE Keeper(y) = 0
  <2>1. p = y
    BY <1>1, <1>3, OwnEntry DEF Provider
  <2>2. Kind(y) = "table" => Kind(y) # "sequence"
    OBVIOUS
  <2>3. Brings(y, y)
    BY <1>2, <1>3, <2>1, <2>2, PartOf DEF Brings
  <2>4. QED
    BY <1>2, <2>1, <2>3, Brought
<1>4. CASE Keeper(y) # 0
  <2>1. p = Keeper(y) /\ Kind(p) = "extension"
    BY <1>1, <1>4, OwnEntry DEF Provider, Entry
  <2>2. y \in Parts(p, objs)
    BY <1>2, <2>1, PartOf, <1>4, KeeperIs DEF DirectParts
  <2>3. OutcomeOf(ObjectEntry(p)) # "nothing"
    BY <1>1, <1>2, <2>1, WithoutStatement
  <2>4. Brings(p, y)
    BY <1>2, <2>1, <2>2, <2>3 DEF Brings
  <2>5. QED
    BY <1>2, <2>4, Brought
<1>5. QED
  BY <1>3, <1>4
-----------------------------------------------------------------------------
(* What the key that makes an object is, and the table that owns a         *)
(* sequence.                                                               *)
LEMMA MadeByKey ==
  ASSUME Planful, NEW o \in objs, NEW x \in UsesOf(o, {"part"})
  PROVE  /\ x \in objs /\ Kind(x) \in {"constraint", "foreign-key"} /\ Kind(On(x)) = "table"
         /\ Kind(o) \in {"constraint", "foreign-key", "index"}
         /\ Kind(o) = "index" => Kind(x) = "constraint" /\ On(x) = On(o)
         /\ Kind(o) # "index" => /\ "child" \in Marks(o) /\ Kind(x) = Kind(o)
                                 /\ "child" \notin Marks(x)
<1>1. PICK u \in Uses(o) : u.how = "part" /\ u.to = x
  BY DEF UsesOf
<1>2. UsesFit(o, u) /\ x \in objs
  BY <1>1, SourceFacts
<1>3. "part" \in RecordedUses(o)
  BY <1>1, <1>2 DEF UsesFit
<1>4. Kind(o) \in {"constraint", "foreign-key", "index"}
  BY <1>3 DEF RecordedUses, Mapped
<1>5. QED
  BY <1>1, <1>2, <1>4 DEF UsesFit

LEMMA OwnedByTable ==
  ASSUME Planful, NEW o \in objs, NEW t \in UsesOf(o, {"owned"})
  PROVE  /\ t \in objs /\ Kind(t) = "table" /\ Schema(t) = Schema(o)
         /\ Kind(o) = "sequence"
         /\ "identity" \in Marks(t) => Keeper(t) = Keeper(o)
<1>1. PICK u \in Uses(o) : u.how = "owned" /\ u.to = t
  BY DEF UsesOf
<1>2. UsesFit(o, u) /\ t \in objs
  BY <1>1, SourceFacts
<1>3. "owned" \in RecordedUses(o)
  BY <1>1, <1>2 DEF UsesFit
<1>4. Kind(o) = "sequence"
  BY <1>3 DEF RecordedUses, Mapped
<1>5. QED
  BY <1>1, <1>2, <1>4, KeeperIs DEF UsesFit, MarkedKinds

(* A table that was kept is wanted with its columns and rows, and so is    *)
(* everything on it.                                                       *)
LEMMA TableWanted ==
  ASSUME Planful, NEW t \in archive.db, Kind(t) = "table"
  PROVE  /\ ObjectEntry(t) \in archive.es /\ Entry("column", t) \in archive.es
         /\ "partitioned" \notin Marks(t) => Entry("table-data", t) \in archive.es
         /\ \A ty : Entry(ty, t) \in archive.es /\ ~ HardExcluded(Entry(ty, t), opt) =>
              Entry(ty, t) \in Wanted
<1>1. Kind(t) \notin OptionalKinds \cup {"constraint", "foreign-key"}
  BY DEF OptionalKinds
<1>2. /\ ObjectEntry(t) \in archive.es
      /\ \A ty \in SatelliteTypes(t, archive.db) : Entry(ty, t) \in archive.es
  BY <1>1, EntriesMade DEF HasEntry
<1>3. "column" \in SatelliteTypes(t, archive.db)
  BY DEF SatelliteTypes
<1>4. "partitioned" \notin Marks(t) => "table-data" \in SatelliteTypes(t, archive.db)
  BY DEF SatelliteTypes
<1>5. \A ty : Entry(ty, t).o = t
  BY DEF Entry
<1>6. QED
  BY <1>2, <1>3, <1>4, <1>5, WantedOnTables

(* At the entry at hand, what it is linked to is behind, and what is in an *)
(* earlier section or due before it.                                       *)
LEMMA AtTurn ==
  ASSUME Replaying
  PROVE  /\ Head(todo) \in archive.selected /\ Head(todo) \in Wanted
         /\ Head(todo) \in archive.es /\ Head(todo).o \in objs
         /\ \A x \in archive.selected : Linked(Head(todo), x) => x \in Passed
         /\ \A x \in archive.selected : SectionOf(x) < SectionOf(Head(todo)) => x \in Passed
<1>1. /\ todo \in Seq(archive.selected) /\ todo # <<>> /\ Planful /\ Ordering
  BY DEF Replaying, DumpInv, TodoInv
<1>2. Head(todo) = todo[1] /\ Head(todo) \in archive.selected /\ Len(todo) \in Nat \ {0}
  BY <1>1, Behead
<1>3. \A x \in archive.selected : Linked(Head(todo), x) => x \in Passed
  <2> SUFFICES ASSUME NEW d \in archive.edges, d.from = Head(todo), d.to \in archive.selected
               PROVE  d.to \in Passed
    BY DEF Linked
  <2>1. 1 \in 1..Len(todo)
    BY <1>2
  <2>2. ~ \E j \in 1..(1 - 1) : todo[j] = d.to
    OBVIOUS
  <2>3. QED
    BY <1>1, <1>2, <2>1, <2>2 DEF Ordering, Behindhand
<1>4. \A x \in archive.selected : SectionOf(x) < SectionOf(Head(todo)) => x \in Passed
  <2> SUFFICES ASSUME NEW x \in archive.selected, SectionOf(x) < SectionOf(Head(todo)),
                      NEW i \in 1..Len(todo), todo[i] = x
               PROVE  FALSE
    BY DEF Passed, ToSet
  <2>1. 1 \in 1..Len(todo) /\ (1 < i \/ i = 1)
    BY <1>2
  <2>2. SectionOf(todo[1]) <= SectionOf(x)
    BY <1>1, <1>2, <2>1, KindsApart DEF Ordering, BySection
  <2>3. SectionOf(x) \in 0..2 /\ SectionOf(todo[1]) \in 0..2
    BY KindsApart
  <2>4. QED
    BY <1>2, <2>2, <2>3
<1>5. Head(todo) \in Wanted
  BY <1>1, <1>2, WantedIs
<1>6. QED
  BY <1>1, <1>2, <1>3, <1>4, <1>5, WantedIs, OwnEntryMade
-----------------------------------------------------------------------------
(* A fact that is there, or whose absence is explained.                    *)
Accountable(y) ==
  \/ Absent(y) \/ Fact("object", y) \in server
  \/ opt.clean /\ "public" \in Marks(y)

LEMMA PublicIsThere ==
  ASSUME Replaying, NEW y \in objs, Kind(y) = "schema", "public" \in Marks(y)
  PROVE  Accountable(y)
<1>1. y \in Publics(objs)
  BY DEF Publics
<1>2. Fact("object", y) \in Objects(Publics(objs))
  BY <1>1 DEF Objects
<1>3. QED
  BY <1>2 DEF Replaying, PublicInv, Accountable

(* An object a wanted entry is linked to, once what brings it is behind.   *)
LEMMA LinkedIsThere ==
  ASSUME Replaying, NEW c \in Wanted, NEW y \in objs,
         ObjectEntry(y) \in HardTargets(c, archive.db), ObjectEntry(y) # c,
         Kind(y) \notin {"constraint", "foreign-key", "index"}, HasEntry(y),
         Keeper(y) # 0 \/ ~ (Kind(y) = "sequence" /\ IdentitySequence(y, archive.db, opt)),
         Provider(y) \in archive.selected /\ Linked(c, Provider(y)) => Provider(y) \in Passed
  PROVE  Accountable(y)
<1> SUFFICES ASSUME ~ Absent(y) PROVE Accountable(y)
  BY DEF Accountable
<1>1. Planful
  BY DEF Replaying
<1>2. Provider(y) \in Passed
  BY <1>1, LinkedProvider
<1>3. CASE Keeper(y) # 0 \/ OutcomeOf(ObjectEntry(y)) # "nothing"
  BY <1>2, <1>3, ProviderBrings DEF Accountable
<1>4. CASE Keeper(y) = 0 /\ OutcomeOf(ObjectEntry(y)) = "nothing"
  <2>1. Kind(y) = "schema" /\ "public" \in Marks(y)
    BY <1>1, <1>4, WithoutStatement
  <2>2. QED
    BY <2>1, PublicIsThere
<1>5. QED
  BY <1>3, <1>4

(* The same for the entry at hand.                                         *)
LEMMA AtHandIsThere ==
  ASSUME Replaying, NEW y \in objs,
         ObjectEntry(y) \in HardTargets(Head(todo), archive.db), ObjectEntry(y) # Head(todo),
         Kind(y) \notin {"constraint", "foreign-key", "index"}, HasEntry(y),
         Keeper(y) # 0 \/ ~ (Kind(y) = "sequence" /\ IdentitySequence(y, archive.db, opt))
  PROVE  Accountable(y)
BY LinkedIsThere, AtTurn

(* An edge leads to an extension or to what the builder finds.             *)
LEMMA EdgeOrigin ==
  ASSUME Planful, NEW d \in archive.edges
  PROVE  /\ d.from \in archive.es
         /\ \/ d.to.t = "extension"
            \/ d.to \in HardTargets(d.from, archive.db) \cup Preferences(d.from)
<1> DEFINE es == archive.es
           db == archive.db
           Hard(e) == {[from |-> e, to |-> x, hard |-> TRUE]
                         : x \in (HardTargets(e, db) \cap es) \ {e}}
           Soft(e) == {[from |-> e, to |-> x, hard |-> FALSE]
                         : x \in Preferences(e) \cap es}
           hard == UNION {Hard(e) : e \in es}
           soft == UNION {Soft(e) : e \in es}
           V == hard \cup soft
<1>1. archive.edges = WithExtensions(V) \cup MemberEdges(es)
  <2>1. archive.edges = Edges(es, db)
    BY PartsOfArchive
  <2>2. QED
    BY <2>1 DEF Edges
<1>2. \A e, x : x \in Hard(e) => x.from = e /\ x.to \in HardTargets(e, db)
  OBVIOUS
<1>3. \A e, x : x \in Soft(e) => x.from = e /\ x.to \in Preferences(e)
  OBVIOUS
<1> HIDE DEF Hard, Soft
<1>4. \A x \in V : x.to \in HardTargets(x.from, db) \cup Preferences(x.from)
  BY <1>2, <1>3
<1> HIDE DEF V
<1> DEFINE ExtEntry(o) == Entry("extension", o)
<1>5. \A o : ExtEntry(o).t = "extension"
  BY DEF Entry
<1> HIDE DEF ExtEntry
<1>6. \A x \in WithExtensions(V) : x \in V \/ \E o : x.to = ExtEntry(o)
  BY DEF WithExtensions, ExtEntry
<1>7. \A x \in MemberEdges(es) : \E o : x.to = ExtEntry(o)
  BY DEF MemberEdges, ExtEntry
<1>8. d.from \in archive.es
  BY PartsOfArchive DEF Sound
<1>9. QED
  BY <1>1, <1>4, <1>5, <1>6, <1>7, <1>8

(* What comes before every table is behind when a table is at hand:        *)
(* schemas, extensions and types have edges to each other alone.           *)
EarlyKinds == {"schema", "extension", "enum", "domain"}

LEMMA EarlyTargets ==
  ASSUME Planful, NEW d \in archive.edges, d.from.t \in EarlyKinds
  PROVE  d.to.t \in EarlyKinds
<1> DEFINE e == d.from
           db == archive.db
<1>1. /\ e \in archive.es
      /\ d.to.t = "extension" \/ d.to \in HardTargets(e, db) \cup Preferences(e)
  BY EdgeOrigin
<1>2. e.t = Kind(e.o) /\ e.o \in objs /\ Kind(e.o) \in EarlyKinds /\ e.t \in EarlyKinds
  <2>1. e.t \in Kinds
    BY DEF EarlyKinds, Kinds
  <2>2. QED
    BY <1>1, <2>1, OwnEntryMade
<1>3. On(e.o) = 0
  <2>1. e.o \in Ids
    BY <1>2, SourceFacts
  <2>2. QED
    BY <1>2, <2>1, ReferencesAssumption DEF EarlyKinds, Attached
<1> HIDE DEF e
<1>4. Preferences(e) = {}
  BY <1>2 DEF Preferences, EarlyKinds
<1>5. SemanticEdges(e, db) = {}
  BY <1>2 DEF SemanticEdges, EarlyKinds
<1>6. ParentEdges(e) = {}
  BY <1>2, <1>3 DEF ParentEdges, EarlyKinds
<1>7. ColumnEdges(e, db) = {}
  BY <1>2 DEF ColumnEdges, EarlyKinds
<1>8. Delivered(e.o) = {}
  BY <1>2 DEF Delivered, EarlyKinds
<1>9. CatalogEdges(e, db) = {}
  BY <1>7, <1>8 DEF CatalogEdges, ReferenceEdges
<1>10. \A x \in SchemaEdges(e) : x.t = "schema"
  BY DEF SchemaEdges, Entry
<1>11. QED
  BY <1>1, <1>4, <1>5, <1>6, <1>9, <1>10 DEF HardTargets, EarlyKinds

(* What is on a relation has edges to what comes before the data and to    *)
(* table rows, and so is behind when a comment is at hand.                 *)
LEMMA AttachedTargets ==
  ASSUME Planful, NEW d \in archive.edges, d.from.t \in Attached
  PROVE  SectionOf(d.to) < 2
<1> DEFINE e == d.from
           db == archive.db
           o == e.o
<1>1. /\ e \in archive.es
      /\ d.to.t = "extension" \/ d.to \in HardTargets(e, db) \cup Preferences(e)
  BY EdgeOrigin
<1>2. e.t = Kind(o) /\ o \in objs /\ Kind(o) \in Attached /\ e.t \in Attached
  <2>1. e.t \in Kinds
    BY DEF Attached, Kinds
  <2>2. QED
    BY <1>1, <2>1, OwnEntryMade
<1>3. Kind(On(o)) \in PreData /\ On(o) # 0
  <2>1. o \in Ids /\ 0 \notin Ids
    BY <1>2, SourceFacts
  <2>2. QED
    BY <1>2, <2>1, ReferencesAssumption DEF PreData
<1>4. \A x \in Referable : x \in PreData
  BY DEF Referable, PreData
<1> HIDE DEF e, o
<1>5. \A x : x.t \in PreData \cup Data => SectionOf(x) < 2
  BY DEF SectionOf
<1>6. \A ty, y : Entry(ty, y).t = ty /\ ObjectEntry(y).t = Kind(y)
  BY DEF Entry, ObjectEntry
<1>7. \A x \in Preferences(e) : x.t = "table-data"
  <2> DEFINE Of(S) == {Entry("table-data", t) : t \in S}
  <2>1. \A S : \A x \in Of(S) : x.t = "table-data"
    BY <1>6
  <2>2. \/ Preferences(e) = Of({On(e.o)} \cup UsesOf(e.o, {"object"}))
        \/ Preferences(e) = {Entry("table-data", On(e.o))}
        \/ Preferences(e) = {}
    BY DEF Preferences
  <2> HIDE DEF Of
  <2>3. QED
    BY <1>6, <2>1, <2>2
<1>8. SemanticEdges(e, db) = {}
  BY <1>2 DEF SemanticEdges, Attached
<1>9. \A x \in ParentEdges(e) : x.t \in PreData
  <2>1. ParentEdges(e) = {ObjectEntry(On(o))}
    BY <1>2, <1>3 DEF ParentEdges, Attached, o
  <2>2. QED
    BY <1>3, <1>6, <2>1
<1>10. \A x \in ColumnEdges(e, db) : x.t = "column"
  <2> DEFINE Of(S) == {Entry("column", t) : t \in S}
  <2>1. \A S : \A x \in Of(S) : x.t = "column"
    BY <1>6
  <2>2. \/ ColumnEdges(e, db) = Of({On(e.o)} \cup UsesOf(e.o, {"object"}))
        \/ ColumnEdges(e, db) = {Entry("column", On(e.o))}
        \/ ColumnEdges(e, db) = {}
    BY <1>2 DEF ColumnEdges, Attached
  <2> HIDE DEF Of
  <2>3. QED
    BY <1>6, <2>1, <2>2
<1>11. \A x \in ReferenceEdges(e) : x.t \in PreData
  <2> DEFINE Of(u) == Resolved(u)
  <2>1. \A u \in Delivered(o) : u \in Uses(o) /\ u.how \in Mapped
    BY <1>2 DEF Delivered, Attached
  <2>2. \A u \in Delivered(o) : Kind(u.to) \in PreData
    <3>1. \A u \in Uses(o) : u.how \in Mapped => Kind(u.to) \in Referable
      BY <1>2, SourceFacts DEF UsesFit
    <3>2. QED
      BY <1>4, <2>1, <3>1
  <2>3. \A u : \A x \in Of(u) : x = ObjectEntry(u.to)
    BY DEF Resolved
  <2>4. ReferenceEdges(e) = UNION {Of(u) : u \in Delivered(o)}
    BY DEF ReferenceEdges, o
  <2> HIDE DEF Of
  <2>5. QED
    BY <1>6, <2>2, <2>3, <2>4
<1>12. \A x \in SchemaEdges(e) : x.t = "schema"
  BY <1>6 DEF SchemaEdges
<1>13. {"schema", "extension", "column"} \subseteq PreData /\ "table-data" \in Data
  BY DEF PreData, Data
<1>14. d.to.t \in PreData \cup Data
  BY <1>1, <1>7, <1>8, <1>9, <1>10, <1>11, <1>12, <1>13 DEF HardTargets, CatalogEdges
<1>15. QED
  BY <1>5, <1>14

Listed ==
  /\ Planful /\ ArchiveInv
  /\ todo \in Seq(archive.selected) /\ Ordering /\ InOrder(todo, archive.edges, src.naming)

LEMMA EarlyBefore ==
  ASSUME Listed, NEW i \in 1..Len(todo), todo[i].t = "table"
  PROVE  \A j \in i..Len(todo) : todo[j].t \notin EarlyKinds
<1> DEFINE L == {x \in archive.selected : x.t \in EarlyKinds}
<1>1. todo \in Seq(archive.selected) /\ Planful
  BY DEF Listed
<1>2. \A x \in L : DueBefore(x, todo[i])
  <2>1. SectionOf(todo[i]) = 0 /\ Priority(todo[i]) = 80
    BY DEF SectionOf, PreData, Priority
  <2>2. \A x \in L : SectionOf(x) = 0
    BY DEF SectionOf, PreData, EarlyKinds
  <2>3. \A x \in L : Priority(x) \in {10, 20, 30, 40}
    BY DEF Priority, EarlyKinds
  <2>4. \A n \in {10, 20, 30, 40} : n < 80
    OBVIOUS
  <2>5. QED
    BY <2>1, <2>2, <2>3, <2>4 DEF DueBefore
<1>3. \A d \in archive.edges : d.from \in L /\ d.to \in archive.selected => d.to \in L
  BY <1>1, EarlyTargets
<1>4. \A j \in i..Len(todo) : todo[j] \notin L /\ todo[j] \in archive.selected
  <2>1. L \subseteq archive.selected
    OBVIOUS
  <2>2. \A j \in i..Len(todo) : j \in 1..Len(todo)
    BY <1>1
  <2> HIDE DEF L
  <2>3. QED
    BY <1>1, <1>2, <1>3, <2>1, <2>2, FirstThingsFirst DEF Listed
<1>5. QED
  BY <1>4

LEMMA AttachedBefore ==
  ASSUME Listed, NEW i \in 1..Len(todo), todo[i].t = "comment"
  PROVE  \A j \in i..Len(todo) : todo[j].t \notin Attached
<1> DEFINE L == {x \in archive.selected : x.t \in Attached \/ SectionOf(x) < 2}
<1>1. todo \in Seq(archive.selected) /\ Planful /\ SectionsAgree(archive.selected, archive.edges)
  BY DEF Listed, Ordering
<1>2. \A x \in L : DueBefore(x, todo[i])
  <2>1. SectionOf(todo[i]) = 2 /\ Priority(todo[i]) = 80
    BY DEF SectionOf, PreData, Data, Priority
  <2>2. \A x : x.t \in Attached => SectionOf(x) = 2
    BY DEF SectionOf, PreData, Data, Attached
  <2>3. \A x : x.t \in Attached => Priority(x) \in {10, 20, 30, 40, 50, 60}
    BY DEF Priority, Attached
  <2>4. \A n \in {10, 20, 30, 40, 50, 60} : n < 80
    OBVIOUS
  <2>5. QED
    BY <2>1, <2>2, <2>3, <2>4 DEF DueBefore
<1>3. \A d \in archive.edges : d.from \in L /\ d.to \in archive.selected => d.to \in L
  <2> SUFFICES ASSUME NEW d \in archive.edges, d.from \in L, d.to \in archive.selected
               PROVE  SectionOf(d.to) < 2
    OBVIOUS
  <2>1. CASE d.from.t \in Attached
    BY <1>1, <2>1, AttachedTargets
  <2>2. CASE SectionOf(d.from) < 2
    <3>1. SectionOf(d.to) <= SectionOf(d.from)
      BY <1>1 DEF SectionsAgree
    <3>2. SectionOf(d.to) \in 0..2 /\ SectionOf(d.from) \in 0..2
      BY KindsApart
    <3>3. QED
      BY <2>2, <3>1, <3>2
  <2>3. QED
    BY <2>1, <2>2
<1>4. \A j \in i..Len(todo) : todo[j] \notin L /\ todo[j] \in archive.selected
  <2>1. L \subseteq archive.selected
    OBVIOUS
  <2>2. \A j \in i..Len(todo) : j \in 1..Len(todo)
    BY <1>1
  <2> HIDE DEF L
  <2>3. QED
    BY <1>1, <1>2, <1>3, <2>1, <2>2, FirstThingsFirst DEF Listed
<1>5. QED
  BY <1>4

(* So when such an entry is at hand, the others had their turn.            *)
LEMMA BehindAtTurn ==
  ASSUME Replaying
  PROVE  /\ Listed
         /\ Head(todo).t = "table" =>
              \A x \in archive.selected : x.t \in EarlyKinds => x \in Passed
         /\ Head(todo).t = "comment" =>
              \A x \in archive.selected : x.t \in Attached => x \in Passed
<1>1. Listed
  BY DEF Replaying, DumpInv, TodoInv, SortInv, Listed
<1>2. todo # <<>> /\ todo \in Seq(archive.selected)
  BY DEF Replaying, DumpInv, TodoInv
<1>3. Head(todo) = todo[1] /\ Len(todo) \in Nat \ {0} /\ 1 \in 1..Len(todo)
  BY <1>2, Behead
<1>4. \A x \in archive.selected \ Passed : \E j \in 1..Len(todo) : todo[j] = x
  BY DEF Passed, ToSet
<1>5. QED
  BY <1>1, <1>3, <1>4, EarlyBefore, AttachedBefore
-----------------------------------------------------------------------------
(* What an identity column makes is known as such.                         *)
LEMMA IdentityKnown ==
  ASSUME Planful, NEW q, IdentitySequence(q, archive.db, opt)
  PROVE  /\ IdentityMade(q) /\ opt.target # "old"
         /\ \E t \in archive.db : t \in UsesOf(q, {"owned"}) /\ "identity" \in Marks(t)
BY DEF IdentitySequence, IdentityMade, OwnerTable

(* What an object needs, but for a need without an edge, its own entry is  *)
(* linked to, or for the type of a column that of the columns.             *)
LEMMA NeedLinked ==
  ASSUME Planful, NEW e \in archive.es, e.t = Kind(e.o),
         NEW y \in Needed(e.o), ~ Unlinked(e.o, y)
  PROVE  /\ y \in objs /\ Kind(y) \in Referable /\ ~ IdentityMade(y)
         /\ Kind(e.o) \notin {"domain", "sequence", "constraint", "index"}
         /\ Kind(e.o) = "foreign-key" => Kind(y) = "table"
         /\ HasEntry(y)
         /\ \/ ObjectEntry(y) \in HardTargets(e, archive.db)
            \/ Kind(e.o) = "table" /\ Kind(y) \in {"enum", "domain"} /\ y \in UsesOf(e.o, {"type"})
<1> DEFINE o == e.o
<1>1. o \in objs
  BY OwnEntryMade
<1>2. PICK u \in Uses(o) : u.to = y /\ u.how \notin {"owned", "part"}
  BY DEF Needed
<1>3. y \in objs /\ UsesFit(o, u)
  BY <1>1, <1>2, SourceFacts
<1>4. /\ u.how \notin {"columns", "rowtype", "text", "key"}
      /\ ~ (u.how = "routine" /\ Kind(y) = "procedure")
      /\ Kind(o) \notin {"domain", "extension", "procedural-language", "foreign-data-wrapper"}
      /\ ~ IdentityMade(y) /\ HasEntry(y)
  BY <1>2 DEF Unlinked, HasEntry
<1>5. u.how \in RecordedUses(o)
  BY <1>3 DEF UsesFit
<1>6. Kind(y) \in Referable
  <2>1. u.how \in Mapped \/ u.how = "server"
    BY <1>2, <1>4, <1>5 DEF RecordedUses, Mapped
  <2>2. "foreign-server" \in Referable
    BY DEF Referable
  <2>3. QED
    BY <1>2, <1>3, <2>1, <2>2 DEF UsesFit
<1>7. Kind(o) \notin {"enum", "schema", "sequence", "constraint", "index"}
  BY <1>2, <1>4, <1>5 DEF RecordedUses
<1>8. Kind(o) = "foreign-key" => Kind(y) = "table"
  <2> SUFFICES ASSUME Kind(o) = "foreign-key" PROVE Kind(y) = "table"
    OBVIOUS
  <2>1. u.how = "object"
    BY <1>2, <1>4, <1>5 DEF RecordedUses
  <2>2. QED
    BY <1>2, <1>3, <2>1 DEF UsesFit
<1>9. CASE u \in Delivered(o)
  <2>1. ObjectEntry(y) \in Resolved(u)
    BY <1>2, <1>4 DEF Resolved
  <2>2. ObjectEntry(y) \in ReferenceEdges(e)
    <3> DEFINE Of(v) == Resolved(v)
    <3>1. ObjectEntry(y) \in UNION {Of(v) : v \in Delivered(o)}
      BY <1>9, <2>1
    <3>2. QED
      BY <3>1 DEF ReferenceEdges
  <2>3. ObjectEntry(y) \in HardTargets(e, archive.db)
    BY <2>2 DEF CatalogEdges, HardTargets
  <2>4. QED
    BY <1>3, <1>4, <1>6, <1>7, <1>8, <2>3
<1>10. CASE Kind(o) = "table" /\ u.how = "server"
  <2>1. y \in UsesOf(o, {"server"})
    BY <1>2, <1>10 DEF UsesOf
  <2>2. ObjectEntry(y) \in SemanticEdges(e, archive.db)
    BY <1>10, <2>1 DEF SemanticEdges
  <2>3. ObjectEntry(y) \in HardTargets(e, archive.db)
    BY <2>2 DEF HardTargets
  <2>4. QED
    BY <1>3, <1>4, <1>6, <1>7, <1>8, <2>3
<1>11. CASE Kind(o) = "table" /\ u.how = "type"
  <2>1. y \in UsesOf(o, {"type"})
    BY <1>2, <1>11 DEF UsesOf
  <2>2. Kind(y) \in {"enum", "domain"}
    BY <1>2, <1>3, <1>11 DEF UsesFit
  <2>3. QED
    BY <1>3, <1>4, <1>6, <1>7, <1>8, <1>11, <2>1, <2>2
<1>12. u \in Delivered(o) \/ (Kind(o) = "table" /\ u.how \in {"server", "type"})
  <2>1. CASE Kind(o) = "table"
    <3>1. u.how \in {"object", "server", "type"}
      BY <1>4, <1>5, <2>1 DEF RecordedUses
    <3>2. u.how = "object" => u \in Delivered(o)
      BY <1>2, <2>1 DEF Delivered
    <3>3. QED
      BY <2>1, <3>1, <3>2
  <2>2. CASE Kind(o) # "table"
    <3>1. u.how \in Mapped
      BY <1>2, <1>4, <1>5, <1>7, <2>2 DEF RecordedUses, Mapped
    <3>2. Delivered(o) = {v \in Uses(o) : v.how \in Mapped}
      BY <1>4, <1>7, <2>2 DEF Delivered
    <3>3. QED
      BY <1>2, <3>1, <3>2
  <2>3. QED
    BY <2>1, <2>2
<1>13. QED
  BY <1>9, <1>10, <1>11, <1>12

(* What an object needs is there when its statement comes, or explained.   *)
LEMMA NeededIsThere ==
  ASSUME Replaying, NEW e, e = Head(todo), e.t = Kind(e.o),
         NEW y \in Needed(e.o), y # e.o
  PROVE  Unlinked(e.o, y) \/ Accountable(y)
<1> DEFINE o == e.o
<1> SUFFICES ASSUME ~ Unlinked(o, y) PROVE Accountable(y)
  OBVIOUS
<1>1. Planful /\ e \in Wanted /\ e \in archive.es /\ o \in objs
  BY AtTurn DEF Replaying
<1>2. /\ y \in objs /\ Kind(y) \in Referable /\ ~ IdentityMade(y) /\ HasEntry(y)
      /\ \/ ObjectEntry(y) \in HardTargets(e, archive.db)
         \/ Kind(o) = "table" /\ Kind(y) \in {"enum", "domain"} /\ y \in UsesOf(o, {"type"})
  BY <1>1, NeedLinked
<1>3. Kind(y) \notin {"constraint", "foreign-key", "index"}
  BY <1>2 DEF Referable
<1>4. ~ IdentitySequence(y, archive.db, opt)
  BY <1>1, <1>2, IdentityKnown
<1>5. ObjectEntry(y) # e /\ ObjectEntry(y).o = y
  BY <1>1, <1>2, OwnEntry
<1>6. CASE ObjectEntry(y) \in HardTargets(e, archive.db)
  BY <1>2, <1>3, <1>4, <1>5, <1>6, AtHandIsThere
<1>7. CASE Kind(o) = "table" /\ Kind(y) \in {"enum", "domain"} /\ y \in UsesOf(o, {"type"})
  <2> DEFINE c == Entry("column", o)
  <2>1. c.t = "column" /\ c.o = o
    BY DEF Entry
  <2>2. o \in archive.db
    BY <1>1, OwnEntryMade
  <2>3. ~ HardExcluded(c, opt)
    <3>1. SectionOf(c) = 0 /\ SectionOf(e) = 0
      BY <1>7, <2>1 DEF SectionOf, PreData
    <3>2. ~ HardExcluded(e, opt)
      BY <1>1, WantedIs
    <3>3. QED
      BY <3>1, <3>2 DEF HardExcluded
  <2>4. c \in Wanted
    BY <1>1, <1>7, <2>2, <2>3, TableWanted
  <2>5. ObjectEntry(y) \in HardTargets(c, archive.db)
    <3>1. ObjectEntry(y) \in SemanticEdges(c, archive.db)
      BY <1>7, <2>1 DEF SemanticEdges
    <3>2. QED
      BY <3>1 DEF HardTargets
  <2>6. Provider(y) \in archive.selected => Provider(y) \in Passed
    <3>1. Provider(y).t \in EarlyKinds
      BY <1>1, <1>2, <1>7, OwnEntry DEF Provider, EarlyKinds
    <3>2. Head(todo).t = "table"
      BY <1>7
    <3>3. QED
      BY <3>1, <3>2, BehindAtTurn
  <2>7. ObjectEntry(y) # c
    BY <1>1, <1>2, <1>5, <1>7, <2>1, OwnEntry
  <2> HIDE DEF c
  <2>8. QED
    BY <1>2, <1>3, <1>4, <2>4, <2>5, <2>6, <2>7, LinkedIsThere
<1>8. QED
  BY <1>2, <1>6, <1>7

(* What is missing when the statement of an object's own entry comes.      *)
LEMMA OwnMissing ==
  ASSUME Replaying, NEW e, e = Head(todo), e.t = Kind(e.o),
         NEW x \in Needs(e, archive.db, opt) \ server
  PROVE  Unlinked(e.o, x.o) \/ Absent(x.o) \/ (opt.clean /\ "public" \in Marks(x.o))
<1> DEFINE o == e.o
           N == (Needed(o) \cup {FiledUnder(o), On(o)}) \ {0, o}
           Q == {q \in OwnedSequences(o, archive.db) : ~ IdentitySequence(q, archive.db, opt)}
<1>1. Planful /\ e \in Wanted /\ e \in archive.es /\ o \in objs /\ o \in Ids
  <2>1. Planful /\ e \in Wanted /\ e \in archive.es /\ o \in objs
    BY AtTurn DEF Replaying
  <2>2. QED
    BY <2>1, SourceFacts
<1>2. /\ x \in Objects(N) \/ (e.t = "table" /\ x \in Objects(Q))
      /\ x \notin server
  <2>1. e.t # "sequence-ownership"
    BY <1>1, OwnEntry DEF Kinds
  <2> HIDE DEF N, Q
  <2>2. Needs(e, archive.db, opt) = Objects(N) \cup (IF e.t = "table" THEN Objects(Q) ELSE {})
    BY <2>1 DEF Needs, N, Q
  <2>3. QED
    BY <2>2
<1>3. PICK y : /\ x = Fact("object", y)
               /\ y \in N \/ (e.t = "table" /\ y \in Q)
  <2> HIDE DEF N, Q
  <2>1. QED
    BY <1>2 DEF Objects
<1>4. x.o = y /\ Fact("object", y) \notin server
  BY <1>2, <1>3, FactsAbout
<1>5. CASE y \in Needed(o) /\ y # o
  BY <1>4, <1>5, NeededIsThere DEF Accountable
<1>6. ASSUME y \in objs, y # o, ObjectEntry(y) \in HardTargets(e, archive.db),
             Kind(y) \notin {"constraint", "foreign-key", "index"}, HasEntry(y),
             ~ (Kind(y) = "sequence" /\ IdentitySequence(y, archive.db, opt))
      PROVE  Accountable(y)
  <2>1. ObjectEntry(y) # e
    BY <1>1, <1>6, OwnEntry
  <2>2. QED
    BY <1>6, <2>1, AtHandIsThere
<1>7. CASE y = FiledUnder(o) /\ y \notin {0, o}
  <2>1. y = Schema(o) /\ Kind(o) # "schema"
    BY <1>7 DEF FiledUnder
  <2>2. y \in objs /\ Kind(y) = "schema"
    BY <1>1, <1>7, <2>1, SourceFacts, CatalogAssumption
  <2>3. ObjectEntry(y) \in HardTargets(e, archive.db)
    BY <1>7, <2>1, <2>2 DEF SchemaEdges, HardTargets, ObjectEntry
  <2>4. Accountable(y)
    BY <1>6, <1>7, <2>2, <2>3 DEF HasEntry
  <2>5. QED
    BY <1>4, <2>4 DEF Accountable
<1>8. CASE y = On(o) /\ y \notin {0, o}
  <2>1. Kind(o) \in Attached
    BY <1>1, <1>8, ReferencesAssumption
  <2>2. y \in objs /\ Kind(y) \in {"table", "view", "materialized-view", "domain"}
    BY <1>1, <1>8, <2>1, SourceFacts, ReferencesAssumption
  <2>3. ObjectEntry(y) \in HardTargets(e, archive.db)
    <3>1. ParentEdges(e) = {ObjectEntry(On(o))}
      BY <1>8, <2>1 DEF ParentEdges, Attached
    <3>2. QED
      BY <1>8, <3>1 DEF HardTargets
  <2>4. Accountable(y)
    BY <1>6, <1>8, <2>2, <2>3 DEF HasEntry
  <2>5. QED
    BY <1>4, <2>4 DEF Accountable
<1>9. CASE e.t = "table" /\ y \in Q
  <2>1. y \in OwnedSequences(o, archive.db) /\ ~ IdentitySequence(y, archive.db, opt)
    BY <1>9
  <2>2. y \in archive.db /\ Kind(y) = "sequence"
    BY <2>1 DEF OwnedSequences
  <2>3. y \in objs /\ y # o
    BY <1>1, <1>9, <2>2, SourceFacts
  <2>4. ObjectEntry(y) \in HardTargets(e, archive.db)
    <3>1. SemanticEdges(e, archive.db)
            = {ObjectEntry(q) : q \in OwnedSequences(o, archive.db) \cup UsesOf(o, {"server"})}
      BY <1>9 DEF SemanticEdges
    <3>2. QED
      BY <2>1, <3>1 DEF HardTargets
  <2>5. Accountable(y)
    BY <1>6, <2>1, <2>2, <2>3, <2>4 DEF HasEntry
  <2>6. QED
    BY <1>4, <2>5 DEF Accountable
<1>10. QED
  BY <1>3, <1>5, <1>7, <1>8, <1>9
-----------------------------------------------------------------------------
(* What is on a table and of which anything is not absent is selected.     *)
LEMMA AttachedSelected ==
  ASSUME Planful, NEW m \in objs, Kind(m) \in Attached, Kind(On(m)) = "table",
         Kind(m) \in {"constraint", "foreign-key"} => "child" \notin Marks(m),
         NEW y \in Parts(m, objs), ~ Absent(y)
  PROVE  /\ m \in archive.db /\ Keeper(m) = 0
         /\ ObjectEntry(m) \in archive.selected
<1> DEFINE k == ObjectEntry(m)
<1>1. m \in archive.db /\ ~ HardExcluded(k, opt)
  BY SharesFate
<1>2. k.t = Kind(m) /\ k.o = m /\ MemberOf(k) = Keeper(m)
  BY <1>1, OwnEntry DEF HasEntry, Attached
<1>3. Keeper(m) = 0
  BY SourceFacts, ReferencesAssumption, KeeperIs
<1>4. k \in archive.es
  BY <1>1, EntriesMade DEF HasEntry, OptionalKinds, Attached
<1> HIDE DEF k
<1>5. k \in Wanted
  BY <1>1, <1>2, <1>4, WantedOnTables
<1>6. k \in archive.selected
  BY <1>2, <1>3, <1>5, WantedIs
<1>7. QED
  BY <1>1, <1>3, <1>6 DEF k

(* A key makes its index and its partitions' before a comment comes.       *)
LEMMA KeyBrings ==
  ASSUME Replaying, Head(todo).t = "comment", NEW m \in objs, NEW y \in Parts(m, objs),
         Kind(m) \in {"constraint", "foreign-key"}, "child" \notin Marks(m),
         Kind(On(m)) = "table", ~ Absent(y)
  PROVE  Fact("object", y) \in server
<1>1. Planful /\ Kind(m) \in Attached
  BY DEF Replaying, Attached
<1>2. Keeper(m) = 0 /\ ObjectEntry(m) \in archive.selected
  BY <1>1, AttachedSelected
<1>3. ObjectEntry(m).t \in Attached
  BY <1>1, OwnEntry
<1>4. OutcomeOf(ObjectEntry(m)) # "nothing"
  BY <1>1, WithoutStatement
<1>5. Brings(m, y)
  BY <1>2, <1>4 DEF Brings
<1>6. ObjectEntry(m) \in Passed
  BY <1>2, <1>3, BehindAtTurn
<1>7. QED
  BY <1>5, <1>6, Brought

(* Every other entry is linked to that of its object.                      *)
LEMMA ObjectIsTarget ==
  ASSUME Planful, NEW e \in archive.es, e.t \notin Kinds
  PROVE  /\ ObjectEntry(e.o) \in HardTargets(e, archive.db)
         /\ ObjectEntry(e.o) # e /\ e.t # Kind(e.o)
<1>1. e.t \in Satellites /\ e.t # Kind(e.o) /\ e.o \in objs
  BY SatelliteOf, OwnEntryMade, OwnEntry
<1>2. ObjectEntry(e.o) # e
  BY <1>1, OwnEntry
<1>3. CASE e.t \in {"column", "large-object-data", "large-object-metadata"}
  <2>1. ObjectEntry(e.o) \in ParentEdges(e)
    BY <1>1, <1>3 DEF ParentEdges
  <2>2. QED
    BY <1>1, <1>2, <2>1 DEF HardTargets
<1>4. CASE e.t \notin {"column", "large-object-data", "large-object-metadata"}
  <2>1. ObjectEntry(e.o) \in SemanticEdges(e, archive.db)
    BY <1>1, <1>4 DEF SemanticEdges, Satellites
  <2>2. QED
    BY <1>1, <1>2, <2>1 DEF HardTargets
<1>5. QED
  BY <1>3, <1>4

(* So an entry that is about an object finds it there, or explained.       *)
LEMMA SatelliteIsThere ==
  ASSUME Replaying, NEW e \in archive.selected, e.t \notin Kinds, OutcomeOf(e) # "nothing",
         e = Head(todo) \/ (e.t \in Hooked /\ SectionOf(Head(todo)) = 1)
  PROVE  Accountable(e.o)
<1> DEFINE y == e.o
<1> SUFFICES ASSUME ~ Absent(y) PROVE Accountable(y)
  BY DEF Accountable
<1>1. /\ Planful /\ e \in Wanted /\ e \in archive.es /\ y \in archive.db /\ y \in objs
      /\ y \in Ids /\ 0 \notin Ids
  <2>1. Planful
    BY DEF Replaying
  <2>2. e \in Wanted /\ e \in archive.es
    BY <2>1, WantedIs
  <2>3. QED
    BY <2>1, <2>2, OwnEntryMade, SourceFacts
<1>2. CASE Kind(y) \in {"constraint", "foreign-key"} /\ "child" \in Marks(y)
  <2>1. e = Head(todo) /\ e.t = "comment"
    BY <1>1, <1>2, SatelliteOf DEF OwnedKinds, GrantedKinds, Hooked, Satellites
  <2>2. PICK m : m \in UsesOf(y, {"part"})
    BY <1>1, <1>2, ReferencesAssumption
  <2>3. /\ m \in objs /\ Kind(m) \in {"constraint", "foreign-key"} /\ Kind(On(m)) = "table"
        /\ "child" \notin Marks(m)
    BY <1>1, <1>2, <2>2, MadeByKey
  <2>4. y \in Parts(m, objs)
    <3>1. y \in DirectParts(m, objs)
      BY <1>1, <2>2 DEF DirectParts
    <3>2. QED
      BY <2>3, <3>1, PartOf
  <2>5. QED
    BY <2>1, <2>3, <2>4, KeyBrings DEF Accountable
<1>3. CASE ~ (Kind(y) \in {"constraint", "foreign-key"} /\ "child" \in Marks(y))
  <2>0. HasEntry(y)
    BY <1>1, SatelliteOf
       DEF HasEntry, Satellites, CommentedKinds, OwnedKinds, GrantedKinds
  <2>1. /\ ObjectEntry(y) \in Wanted /\ Provider(y) \in archive.selected
        /\ Linked(e, Provider(y))
    BY <1>1, <1>3, <2>0, ObjectIsTarget, LinkedProvider
  <2>2. Provider(y) \in Passed
    <3>1. CASE e = Head(todo)
      BY <2>1, <3>1, AtTurn
    <3>2. CASE e.t \in Hooked /\ SectionOf(Head(todo)) = 1
      <4>1. Kind(y) \in {"table", "large-object"}
        BY <1>1, <3>2, SatelliteOf DEF Hooked
      <4>2. Provider(y).t \in {"table", "large-object", "extension"}
        BY <1>1, <4>1, OwnEntry DEF Provider
      <4>3. SectionOf(Provider(y)) = 0
        BY <4>2 DEF SectionOf, PreData
      <4>4. QED
        BY <2>1, <3>2, <4>3, AtTurn
    <3>3. QED
      BY <3>1, <3>2
  <2>3. CASE Keeper(y) # 0 \/ OutcomeOf(ObjectEntry(y)) # "nothing"
    BY <1>1, <2>2, <2>3, ProviderBrings DEF Accountable
  <2>4. CASE Kind(y) = "schema" /\ "public" \in Marks(y)
    BY <1>1, <2>4, PublicIsThere
  <2>5. CASE /\ Keeper(y) = 0
             /\ Kind(y) = "sequence" /\ IdentitySequence(y, archive.db, opt)
    <3>1. e.t # "sequence-ownership"
      BY <2>5 DEF OutcomeOf, Outcome, Nothing
    <3>2. e = Head(todo) /\ SectionOf(e) \in {1, 2}
      BY <1>1, <2>5, <3>1, SatelliteOf DEF Hooked, Satellites, SectionOf, PreData, Data
    <3>3. PICK t \in archive.db : t \in UsesOf(y, {"owned"}) /\ "identity" \in Marks(t)
      BY <1>1, <2>5, IdentityKnown
    <3>4. Kind(t) = "table" /\ t \in objs /\ Keeper(t) = 0
      BY <1>1, <2>5, <3>3, OwnedByTable
    <3>5. y \in Parts(t, objs)
      <4>1. y \in DirectParts(t, objs)
        BY <1>1, <3>3 DEF DirectParts
      <4>2. QED
        BY <3>4, <4>1, PartOf
    <3>6. Brings(t, y)
      BY <1>1, <2>5, <3>4, <3>5, WithoutStatement, IdentityKnown DEF Brings
    <3>7. ObjectEntry(t) \in Wanted
      <4>1. ~ HardExcluded(ObjectEntry(t), opt)
        BY <1>1, <3>4, <3>5, SharesFate
      <4>2. QED
        BY <1>1, <3>3, <3>4, <4>1, TableWanted DEF ObjectEntry
    <3>8. ObjectEntry(t) \in archive.selected /\ SectionOf(ObjectEntry(t)) = 0
      BY <1>1, <3>4, <3>7, WantedIs, OwnEntry DEF SectionOf, PreData
    <3>9. ObjectEntry(t) \in Passed
      BY <3>2, <3>8, AtTurn
    <3>10. QED
      BY <3>6, <3>9, Brought DEF Accountable
  <2>6. CASE Kind(y) = "constraint" /\ Kind(On(y)) = "domain"
    <3> DEFINE D == On(y)
    <3>1. e = Head(todo) /\ e.t = "comment"
      BY <1>1, <2>6, SatelliteOf DEF OwnedKinds, GrantedKinds, Hooked, Satellites
    <3>2. D \in objs /\ Kind(D) = "domain" /\ D # 0 /\ y # D
      BY <1>1, <2>6, SourceFacts, ReferencesAssumption DEF Attached
    <3>3. y \in DirectParts(D, objs)
      BY <1>1, <3>2 DEF DirectParts
    <3>4. ObjectEntry(D) \in HardTargets(ObjectEntry(y), archive.db)
      <4>1. ObjectEntry(y).t = Kind(ObjectEntry(y).o) /\ ObjectEntry(y).o = y
        BY <1>1, OwnEntry
      <4>2. ObjectEntry(D) \in ParentEdges(ObjectEntry(y))
        BY <3>2, <4>1, <2>6 DEF ParentEdges
      <4>3. QED
        BY <4>2 DEF HardTargets
    <3>5. /\ D \in archive.db /\ ~ HardExcluded(ObjectEntry(D), opt)
          /\ ~ HardExcluded(Provider(D), opt)
          /\ Provider(D).o \in objs /\ y \in Parts(Provider(D).o, objs)
      BY <1>1, <3>2, <3>3, ProviderAsked
    <3>6. Provider(D) \in archive.selected
      <4>1. ObjectEntry(D) # ObjectEntry(y)
        BY <1>1, <3>2, OwnEntry
      <4>2. QED
        BY <1>1, <2>1, <3>2, <3>4, <3>5, <4>1, LinkedSelected DEF HasEntry, OptionalKinds
    <3> HIDE DEF D
    <3>7. /\ Provider(D).t \in {"domain", "extension"} /\ Provider(D).t = Kind(Provider(D).o)
          /\ Provider(D) = ObjectEntry(Provider(D).o) /\ Keeper(Provider(D).o) = 0
      BY <1>1, <3>2, OwnEntry DEF Provider
    <3>8. Provider(D) \in Passed
      <4>1. SectionOf(Provider(D)) = 0 /\ SectionOf(e) = 2
        BY <3>1, <3>7 DEF SectionOf, PreData, Data
      <4>2. QED
        BY <3>1, <3>6, <4>1, AtTurn
    <3>9. OutcomeOf(ObjectEntry(Provider(D).o)) # "nothing"
      BY <1>1, <3>5, <3>7, WithoutStatement
    <3>10. Brings(Provider(D).o, y)
      BY <3>5, <3>7, <3>9 DEF Brings
    <3>11. QED
      BY <3>7, <3>8, <3>10, Brought DEF Accountable
  <2>7. CASE Kind(y) = "index" /\ BackingIndex(y, archive.es)
    <3>1. e = Head(todo) /\ e.t = "comment"
      <4>1. e.t # "ownership"
        BY <2>7 DEF OutcomeOf, Outcome, Nothing
      <4>2. QED
        BY <1>1, <2>7, <4>1, SatelliteOf DEF OwnedKinds, GrantedKinds, Hooked, Satellites
    <3>2. PICK c : c \in UsesOf(y, {"part"})
      BY <1>1, <2>7, ReferencesAssumption DEF BackingIndex
    <3>3. c \in objs /\ Kind(c) = "constraint" /\ Kind(On(c)) = "table"
      BY <1>1, <2>7, <3>2, MadeByKey
    <3>4. y \in DirectParts(c, objs)
      BY <1>1, <3>2 DEF DirectParts
    <3>5. CASE "child" \notin Marks(c)
      <4>1. y \in Parts(c, objs)
        BY <3>3, <3>4, PartOf
      <4>2. QED
        BY <3>1, <3>3, <3>5, <4>1, KeyBrings DEF Accountable
    <3>6. CASE "child" \in Marks(c)
      <4>1. PICK m : m \in UsesOf(c, {"part"})
        BY <1>1, <3>3, <3>6, SourceFacts, ReferencesAssumption
      <4>2. /\ m \in objs /\ Kind(m) = "constraint" /\ Kind(On(m)) = "table"
            /\ "child" \notin Marks(m)
        BY <1>1, <3>3, <4>1, MadeByKey
      <4>3. c \in DirectParts(m, objs)
        BY <3>3, <4>1 DEF DirectParts
      <4>4. y \in Parts(m, objs)
        BY <3>4, <4>2, <4>3, PartOf
      <4>5. QED
        BY <3>1, <4>2, <4>4, KeyBrings DEF Accountable
    <3>7. QED
      BY <3>5, <3>6
  <2>8. QED
    BY <1>1, <2>3, <2>4, <2>5, <2>6, <2>7, WithoutStatement
<1>4. QED
  BY <1>2, <1>3

(* The table of an owned sequence comes before the data.                   *)
LEMMA OwnerIsThere ==
  ASSUME Replaying, NEW e, e = Head(todo), e.t = "sequence-ownership",
         NEW t \in OwnerTable(e.o, archive.db)
  PROVE  Accountable(t)
<1> SUFFICES ASSUME ~ Absent(t) PROVE Accountable(t)
  BY DEF Accountable
<1>1. Planful /\ e \in Wanted /\ e \in archive.es /\ e.o \in objs
  BY AtTurn DEF Replaying
<1>2. t \in archive.db /\ t \in UsesOf(e.o, {"owned"})
  BY DEF OwnerTable
<1>3. Kind(t) = "table" /\ t \in objs
  BY <1>1, <1>2, OwnedByTable
<1> DEFINE c == Entry("column", t)
<1>4. c.t = "column" /\ c.o = t /\ c \in archive.es
  BY <1>1, <1>2, <1>3, TableWanted DEF Entry
<1>5. ~ HardExcluded(ObjectEntry(t), opt)
  BY <1>1, <1>3, PartOf, SharesFate
<1>6. ~ HardExcluded(c, opt)
  <2>1. SectionOf(c) = 0
    BY <1>4 DEF SectionOf, PreData
  <2>2. SectionOf(ObjectEntry(t)) = 0
    BY <1>1, <1>3, OwnEntry DEF SectionOf, PreData
  <2>3. QED
    BY <1>5, <2>1, <2>2 DEF HardExcluded
<1>7. c \in Wanted
  BY <1>1, <1>2, <1>3, <1>4, <1>6, TableWanted
<1>8. ObjectEntry(t) \in HardTargets(c, archive.db) /\ ObjectEntry(t) # c
  BY <1>1, <1>4, ObjectIsTarget DEF Kinds
<1> HIDE DEF c
<1>9. Provider(t) \in archive.selected
  BY <1>1, <1>3, <1>7, <1>8, LinkedProvider DEF HasEntry
<1>10. Provider(t) \in Passed
  <2>1. Provider(t).t \in {"table", "extension"}
    BY <1>1, <1>3, OwnEntry DEF Provider
  <2>2. SectionOf(Provider(t)) = 0 /\ SectionOf(e) = 2
    BY <2>1 DEF SectionOf, PreData, Data
  <2>3. QED
    BY <1>9, <2>2, AtTurn
<1>11. OutcomeOf(ObjectEntry(t)) # "nothing"
  BY <1>1, <1>3, WithoutStatement
<1>12. QED
  BY <1>3, <1>10, <1>11, ProviderBrings DEF Accountable

(* What a statement misses is explained.                                   *)
LEMMA MissingKnown ==
  ASSUME Replaying, NEW e \in archive.selected, OutcomeOf(e) # "nothing",
         e = Head(todo) \/ (e.t \in Hooked /\ SectionOf(Head(todo)) = 1),
         NEW x \in Needs(e, archive.db, opt) \ server
  PROVE  \/ Absent(x.o) \/ Unlinked(e.o, x.o)
         \/ opt.clean /\ "public" \in Marks(x.o)
<1>1. Planful /\ e \in archive.es
  BY WantedIs DEF Replaying
<1>2. CASE e.t \in Kinds
  <2>1. e.t = Kind(e.o) /\ e = Head(todo)
    BY <1>1, <1>2, OwnEntryMade, KindsApart
  <2>2. QED
    BY <2>1, OwnMissing
<1>3. CASE e.t \notin Kinds
  <2>1. e.t # Kind(e.o) /\ Accountable(e.o)
    BY <1>1, <1>3, ObjectIsTarget, SatelliteIsThere
  <2>2. CASE e.t = "sequence-ownership"
    <3>1. e = Head(todo)
      BY <2>2 DEF Hooked
    <3>2. Needs(e, archive.db, opt) = Objects({e.o} \cup OwnerTable(e.o, archive.db))
      BY <2>1, <2>2 DEF Needs
    <3>3. PICK y \in {e.o} \cup OwnerTable(e.o, archive.db) : x = Fact("object", y)
      BY <3>2 DEF Objects
    <3>4. x.o = y /\ Fact("object", y) \notin server
      BY <3>3, FactsAbout
    <3>5. Accountable(y)
      BY <2>1, <2>2, <3>1, <3>3, OwnerIsThere
    <3>6. QED
      BY <3>4, <3>5 DEF Accountable
  <2>3. CASE e.t # "sequence-ownership"
    <3>1. Needs(e, archive.db, opt) = {Fact("object", e.o)}
      BY <2>1, <2>3 DEF Needs
    <3>2. x = Fact("object", e.o) /\ x.o = e.o
      BY <3>1, FactsAbout
    <3>3. QED
      BY <2>1, <3>2 DEF Accountable
  <2>4. QED
    BY <2>2, <2>3
<1>4. QED
  BY <1>2, <1>3
-----------------------------------------------------------------------------
(* Once the drops are over: an object whose statement is still to come is  *)
(* not on the server, and with an extension none of the members that come  *)
(* with it alone, unless its own DROP failed.  Not so the index of a       *)
(* partition's key, which the key makes, and what an extension makes       *)
(* though its statement is written as well.                                *)
DropFailed(e) == \E q \in ran : q.drop /\ q.e = e /\ Failing(q)

Coming(e) ==
  /\ e.t = Kind(e.o) /\ OutcomeOf(e) = "written" /\ MemberOf(e) = 0
  /\ ~ PartitionKeyIndex(e.o) /\ ~ Unmarked(e.o)

ComesWith(e) == {e.o} \cup {m \in Members(e.o, objs) : ~ Unmarked(m)}

NotYetInv ==
  \A e \in archive.selected \ rendered :
     Coming(e) => DropFailed(e) \/ \A m \in ComesWith(e) : Fact("object", m) \notin server

(* Foreign keys and triggers of tables come last, and rows with their own  *)
(* entries, or belong to what is outside the dump.                         *)
TableGuards ==
  {g \in objs : Kind(g) \in {"foreign-key", "trigger"} /\ Kind(On(g)) = "table"}

GuardInv ==
  opt.mode # "data-only" =>
    \A g \in TableGuards : Fact("object", g) \in server =>
       Absent(g) \/ \A e \in ToSet(todo) : SectionOf(e) = 2

RowsInv ==
  opt.mode # "data-only" =>
    \A t \in objs : Kind(t) = "table" /\ Fact("rows", t) \in server =>
       Absent(t) \/ \E d \in rendered : d.t = "table-data" /\ d.o = t

(* The rows of a table that is part of the dump were written before a      *)
(* foreign key comes, or there is an account of them.                      *)
LEMMA RowsThere ==
  ASSUME Replaying, SectionOf(Head(todo)) = 2, NEW t \in archive.db, Kind(t) = "table",
         Marks(t) \cap {"partitioned", "foreign"} = {},
         ~ HardExcluded(Entry("table-data", t), opt)
  PROVE  RowsMissing(t) \/ Fact("rows", t) \in server
<1> DEFINE e == Entry("table-data", t)
<1>1. Planful
  BY DEF Replaying
<1>2. e.t = "table-data" /\ e.o = t
  BY DEF Entry
<1>3. e.t # Kind(e.o) /\ MemberOf(e) = 0
  BY <1>2 DEF MemberOf
<1>4. e \in Wanted
  BY <1>1, TableWanted
<1> HIDE DEF e
<1>5. e \in archive.selected
  BY <1>1, <1>3, <1>4, WantedIs
<1>6. SectionOf(e) = 1
  BY <1>2 DEF SectionOf, PreData, Data
<1>7. e \in Passed
  BY <1>5, <1>6, AtTurn
<1>8. OutcomeOf(e) # "nothing"
  BY <1>2 DEF OutcomeOf, Outcome, Nothing
<1>9. e \in rendered \/ e \in warned
  BY <1>2, <1>3, <1>7, <1>8, HadItsTurn
<1>10. e \in rendered => Failed(e) \/ Fact("rows", t) \in server
  <2>1. "foreign" \notin Marks(t)
    OBVIOUS
  <2>2. QED
    BY <1>2, <2>1 DEF Replaying, WrittenInv, Holding
<1>11. QED
  BY <1>9, <1>10 DEF RowsMissing, e

(* The tables of a foreign key of the dump are part of it.                 *)
LEMMA KeyTables ==
  ASSUME Planful, NEW k \in archive.db, Kind(k) = "foreign-key", NEW t \in UsesOf(k, {"object"})
  PROVE  t \in archive.db /\ Kind(t) = "table" /\ "foreign" \notin Marks(t)
<1>1. PICK u \in Uses(k) : u.how = "object" /\ u.to = t
  BY DEF UsesOf
<1>2. k \in objs /\ UsesFit(k, u)
  BY <1>1, SourceFacts
<1>3. t \in archive.db
  BY KeptOnTables
<1>4. QED
  BY <1>1, <1>2, <1>3 DEF UsesFit

(* Nothing but table rows and large objects is selected for data alone.    *)
LEMMA SelectedSection ==
  ASSUME Planful, NEW e \in archive.selected
  PROVE  /\ opt.mode = "data-only" => SectionOf(e) = 1
         /\ \A x : SectionOf(x) = 1 /\ (\E y \in Passed : SectionOf(y) = 1) =>
              ~ HardExcluded(x, opt)
<1>1. \A y \in archive.selected : ~ HardExcluded(y, opt)
  BY WantedIs
<1>2. Passed \subseteq archive.selected
  BY DEF Passed
<1>3. QED
  BY <1>1, <1>2 DEF HardExcluded

(* What is in a statement's way is explained.                              *)
LEMMA BlockingKnown ==
  ASSUME Replaying, NotYetInv, GuardInv, RowsInv,
         NEW e \in archive.selected, e \notin rendered,
         MemberOf(e) = 0, e.t \in Hooked \/ OutcomeOf(e) = "written",
         e = Head(todo) \/ (e.t \in Hooked /\ SectionOf(Head(todo)) = 1),
         NEW replica, replica = (IF e.t \in Hooked THEN opt.replica ELSE FALSE),
         NEW x \in Conflicts(e, objs, server, replica), NEW r, r.e = e
  PROVE  WriteBlockExplained(r, x)
<1>1. Planful /\ e \in archive.es /\ e.o \in objs /\ e.o \in archive.db
  <2>1. Planful /\ e \in archive.es
    BY WantedIs DEF Replaying
  <2>2. QED
    BY <2>1, OwnEntryMade
<1> DEFINE me == Fact("object", e.o)
<1>2. ASSUME e.t = Kind(e.o), x = me, me \in server PROVE WriteBlockExplained(r, x)
  <2>1. e.t \notin Hooked /\ OutcomeOf(e) = "written"
    BY <1>1, <1>2, OwnEntry, KindsApart
  <2>2. Coming(e) => DropFailed(e)
    BY <1>2 DEF NotYetInv, ComesWith
  <2>3. x.o = e.o /\ r.e.o = e.o /\ x.f = "object"
    BY <1>2, FactsAbout DEF Fact
  <2>4. \/ PartitionKeyIndex(x.o) \/ Unmarked(x.o)
        \/ \E q \in ran : q.drop /\ q.e = r.e /\ Failing(q)
    BY <1>2, <2>1, <2>2, <2>3 DEF Coming, DropFailed
  <2>5. QED
    BY <2>3, <2>4 DEF WriteBlockExplained
<1>3. CASE e.t = Kind(e.o) /\ e.t \notin {"foreign-key", "extension"}
  <2>1. e.t # "table-data" /\ e.t # "acl"
    BY <1>1, <1>3, OwnEntry DEF Kinds
  <2>2. Conflicts(e, objs, server, replica) = {me} \cap server
    BY <1>3, <2>1 DEF Conflicts
  <2>3. QED
    BY <1>2, <1>3, <2>2
<1>8. CASE e.t = Kind(e.o) /\ e.t = "extension"
  <2>1. Conflicts(e, objs, server, replica)
          = IF me \in server THEN {me} ELSE Objects(Members(e.o, objs)) \cap server
    BY <1>8 DEF Conflicts
  <2>2. CASE me \in server
    BY <1>2, <1>8, <2>1, <2>2
  <2>3. CASE me \notin server
    <3>1. PICK m \in Members(e.o, objs) : x = Fact("object", m)
      BY <2>1, <2>3 DEF Objects
    <3>2. x \in server /\ x.f = "object" /\ x.o = m
      BY <2>1, <2>3, <3>1, FactsAbout DEF Fact
    <3>3. e.t \notin Hooked /\ OutcomeOf(e) = "written"
      BY <1>8 DEF Hooked
    <3>4. e.o \in Ids /\ Ext(e.o) = 0
      BY <1>1, <1>8, SourceFacts, ReferencesAssumption
    <3>5. ~ PartitionKeyIndex(e.o)
      BY <1>1, <1>8, MadeByKey DEF PartitionKeyIndex
    <3>6. Coming(e)
      BY <1>8, <3>3, <3>4, <3>5 DEF Coming, Unmarked
    <3>7. Unmarked(m) \/ DropFailed(e)
      BY <3>1, <3>2, <3>6 DEF NotYetInv, ComesWith
    <3>8. QED
      BY <3>1, <3>2, <3>7 DEF WriteBlockExplained, DropFailed
  <2>4. QED
    BY <2>2, <2>3
<1>4. CASE e.t = Kind(e.o) /\ e.t = "foreign-key"
  <2> DEFINE rows == Fact("rows", On(e.o))
             wanting == {y \in {rows} \cap server :
                           \E t \in UsesOf(e.o, {"object"}) :
                              "partitioned" \notin Marks(t) /\ Fact("rows", t) \notin server}
  <2>1. Conflicts(e, objs, server, replica) = ({me} \cap server) \cup wanting
    BY <1>4 DEF Conflicts
  <2>2. CASE x = me /\ me \in server
    BY <1>2, <1>4, <2>2
  <2>3. CASE x \in wanting
    <3>1. PICK t \in UsesOf(e.o, {"object"}) :
                 "partitioned" \notin Marks(t) /\ Fact("rows", t) \notin server
      BY <2>3
    <3>2. x = rows /\ rows \in server
      BY <2>3
    <3>3. x.f = "rows" /\ x.o = On(e.o)
      BY <3>2, FactsAbout DEF Fact
    <3>4. On(e.o) \in objs /\ Kind(On(e.o)) = "table"
      <4>1. e.o \in Ids /\ 0 \notin Ids
        BY <1>1, SourceFacts
      <4>2. On(e.o) \in Ids /\ Kind(On(e.o)) = "table"
        <5>1. Kind(e.o) = "foreign-key"
          BY <1>4
        <5>2. On(e.o) \in Ids /\ Kind(On(e.o)) \in {"table", "domain"}
          BY <4>1, <5>1, ReferencesAssumption, SMTT(30) DEF Attached
        <5>3. Kind(On(e.o)) # "domain"
          BY <4>1, <5>1, ReferencesAssumption, SMTT(30) DEF Attached
        <5>4. QED
          BY <5>2, <5>3
      <4>3. QED
        BY <1>1, <4>1, <4>2, SourceFacts
    <3>5. SectionOf(e) = 2
      BY <1>4 DEF SectionOf, PreData, Data
    <3>6. opt.mode # "data-only"
      BY <1>1, <3>5, SelectedSection
    <3>7. CASE Absent(On(e.o))
      BY <3>3, <3>7 DEF WriteBlockExplained
    <3>8. CASE \E d \in rendered : d.t = "table-data" /\ d.o = On(e.o)
      <4> DEFINE dt == Entry("table-data", t)
      <4>1. PICK d \in archive.selected : d.t = "table-data"
        BY <3>8 DEF Replaying, DumpInv, Typed
      <4>2. SectionOf(d) = SectionOf(dt)
        BY <4>1 DEF SectionOf, Entry
      <4>3. ~ HardExcluded(d, opt)
        BY <1>1, <4>1, WantedIs
      <4>4. ~ HardExcluded(dt, opt)
        BY <4>2, <4>3 DEF HardExcluded
      <4>5. t \in archive.db /\ Kind(t) = "table" /\ "foreign" \notin Marks(t)
        BY <1>1, <1>4, KeyTables
      <4>6. e = Head(todo)
        BY <1>4 DEF Hooked
      <4>7. RowsMissing(t)
        BY <3>1, <3>5, <4>4, <4>5, <4>6, RowsThere
      <4>8. QED
        BY <3>3, <4>7 DEF WriteBlockExplained
    <3>9. QED
      BY <3>2, <3>4, <3>6, <3>7, <3>8 DEF RowsInv
  <2> HIDE DEF wanting
  <2>4. QED
    BY <2>1, <2>2, <2>3
<1>5. CASE e.t # Kind(e.o) /\ e.t = "table-data"
  <2>1. ~ opt.replica /\ replica = opt.replica
    <3>1. replica = opt.replica
      BY <1>5 DEF Hooked
    <3>2. Conflicts(e, objs, server, replica)
            = IF replica THEN {} ELSE Guards(e.o, objs) \cap server
      BY <1>5 DEF Conflicts
    <3>3. QED
      BY <3>1, <3>2
  <2>2. x \in Guards(e.o, objs) \cap server
    BY <1>5, <2>1 DEF Conflicts
  <2>3. PICK g \in objs : /\ Kind(g) \in {"foreign-key", "trigger"} /\ On(g) = e.o
                          /\ x = Fact("object", g)
    BY <2>2 DEF Guards, Objects
  <2>4. CASE opt.mode = "data-only"
    BY <2>1, <2>4 DEF WriteBlockExplained
  <2>5. CASE opt.mode # "data-only"
    <3>1. Kind(e.o) = "table"
      BY <1>1, <1>5, SatelliteOf DEF Kinds
    <3>2. g \in TableGuards
      BY <2>3, <3>1 DEF TableGuards
    <3>3. SectionOf(Head(todo)) = 1 /\ Head(todo) \in ToSet(todo)
      <4>1. SectionOf(e) = 1
        BY <1>5 DEF SectionOf, PreData, Data
      <4>2. todo # <<>> /\ todo \in Seq(archive.selected)
        BY DEF Replaying, DumpInv, TodoInv
      <4>3. QED
        BY <4>1, <4>2, Behead
    <3>4. Absent(g)
      BY <2>2, <2>3, <2>5, <3>2, <3>3 DEF GuardInv
    <3>5. x.f = "object" /\ x.o = g /\ g # e.o
      BY <2>3, <3>1, FactsAbout DEF Fact
    <3>6. QED
      BY <3>4, <3>5 DEF WriteBlockExplained
  <2>6. QED
    BY <2>4, <2>5
<1>6. CASE e.t # Kind(e.o) /\ e.t = "acl" /\ Kind(e.o) = "procedure"
  BY <1>6 DEF WriteBlockExplained
<1>7. CASE e.t # Kind(e.o) /\ e.t # "table-data" /\ ~ (e.t = "acl" /\ Kind(e.o) = "procedure")
  BY <1>7 DEF Conflicts
<1>9. QED
  BY <1>3, <1>4, <1>5, <1>6, <1>7, <1>8
-----------------------------------------------------------------------------
(* Explanations hold on: the archive stays, and accounts and statements    *)
(* only grow.                                                              *)
Steady ==
  /\ src' = src /\ archive' = archive
  /\ warned \subseteq warned' /\ skipped \subseteq skipped' /\ ran \subseteq ran'

Explained(r) ==
  /\ \A x \in r.missing : MissingExplained(r, x)
  /\ \A x \in r.blocking : BlockingExplained(r, x)
RanInv == \A r \in ran : Explained(r)

LEMMA AbsentStays ==
  ASSUME Steady
  PROVE  /\ objs' = objs /\ opt' = opt
         /\ \A e : Failed(e) => Failed(e)'
         /\ \A e : DropFailed(e) => DropFailed(e)'
         /\ \A x : Absent(x) => Absent(x)'
<1>1. objs' = objs /\ opt' = opt
  BY DEF Steady, objs, opt
<1>2. \A e : Failed(e) => Failed(e)'
  BY DEF Steady, Failed
<1>3. \A e : DropFailed(e) => DropFailed(e)'
  BY DEF Steady, DropFailed
<1>4. \A y : NotAsked(y) => NotAsked(y)'
  BY <1>1 DEF Steady, NotAsked
<1>5. \A x : Absent(x) => Absent(x)'
  <2> SUFFICES ASSUME NEW x, Absent(x) PROVE Absent(x)'
    OBVIOUS
  <2>1. PICK y \in {z \in Ids : x \in Parts(z, objs)} :
               \/ NotAsked(y)
               \/ ObjectEntry(y) \in warned \cap skipped
               \/ Failed(ObjectEntry(y))
    BY DEF Absent
  <2>2. y \in {z \in Ids : x \in Parts(z, objs')}
    BY <1>1, <2>1
  <2>3. \/ NotAsked(y)'
        \/ ObjectEntry(y) \in warned' \cap skipped'
        \/ Failed(ObjectEntry(y))'
    BY <1>2, <1>4, <2>1 DEF Steady
  <2>4. QED
    BY <2>2, <2>3 DEF Absent
<1>6. QED
  BY <1>1, <1>2, <1>3, <1>5

LEMMA ExplainedStays ==
  ASSUME Steady, NEW r, Explained(r) PROVE Explained(r)'
<1>1. objs' = objs /\ opt' = opt /\ archive' = archive
  BY AbsentStays DEF Steady
<1>2. ASSUME NEW x, MissingExplained(r, x) PROVE MissingExplained(r, x)'
  BY <1>1, <1>2, AbsentStays DEF MissingExplained
<1>3. \A t : RowsMissing(t) => RowsMissing(t)'
  BY AbsentStays DEF Steady, RowsMissing
<1>4. ASSUME NEW x, WriteBlockExplained(r, x) PROVE WriteBlockExplained(r, x)'
  <2>1. CASE opt.mode = "data-only" /\ ~ opt.replica
    BY <1>1, <2>1 DEF WriteBlockExplained
  <2>2. CASE /\ x.f = "object" /\ x.o \in {r.e.o} \cup Members(r.e.o, objs)
             /\ \/ PartitionKeyIndex(x.o) \/ Unmarked(x.o)
                \/ \E q \in ran : q.drop /\ q.e = r.e /\ Failing(q)
    <3>1. \/ PartitionKeyIndex(x.o) \/ Unmarked(x.o)
          \/ \E q \in ran' : q.drop /\ q.e = r.e /\ Failing(q)
      BY <2>2 DEF Steady
    <3>2. QED
      BY <1>1, <2>2, <3>1 DEF WriteBlockExplained
  <2>6. CASE r.e.t = "acl" /\ Kind(r.e.o) = "procedure"
    BY <2>6 DEF WriteBlockExplained
  <2>3. CASE x.f = "object" /\ x.o # r.e.o /\ Absent(x.o)
    BY <2>3, AbsentStays DEF WriteBlockExplained
  <2>4. CASE x.f = "rows" /\ (Absent(x.o) \/ \E t \in UsesOf(r.e.o, {"object"}) : RowsMissing(t))
    BY <1>3, <2>4, AbsentStays DEF WriteBlockExplained
  <2>5. QED
    BY <1>4, <2>1, <2>2, <2>3, <2>4, <2>6 DEF WriteBlockExplained
<1>5. ASSUME NEW x, DropBlockExplained(r, x) PROVE DropBlockExplained(r, x)'
  <2>1. Undropped(x.o) => Undropped(x.o)'
    BY <1>1 DEF Undropped
  <2>2. HeldUnlinked(x.o, r.e.o) => HeldUnlinked(x.o, r.e.o)'
    <3>1. SchemaFacts' = SchemaFacts
      BY <1>1 DEF SchemaFacts, GrantFacts
    <3>2. QED
      BY <1>1, <3>1 DEF HeldUnlinked
  <2>3. OwnerRefuses(x.o, r.e.o) => OwnerRefuses(x.o, r.e.o)'
    <3>1. SchemaFacts' = SchemaFacts
      BY <1>1 DEF SchemaFacts, GrantFacts
    <3>2. QED
      BY <1>1, <3>1 DEF OwnerRefuses
  <2>4. QED
    BY <1>5, <2>1, <2>2, <2>3, AbsentStays DEF DropBlockExplained
<1>6. QED
  BY <1>2, <1>4, <1>5 DEF Explained, BlockingExplained
-----------------------------------------------------------------------------
(* What an entry that is written is not.                                   *)
LEMMA WrittenIs ==
  ASSUME NEW e, OutcomeOf(e) = "written"
  PROVE  /\ ~ Nothing(e, archive.es, archive.db, opt) /\ ~ Incomplete(e) /\ ~ Unrenderable(e)
         /\ \A ft \in Unsupported(e, opt) : ~ ft.whole
BY DEF OutcomeOf, Outcome

(* An object with a statement of its own is made by nothing else: not      *)
(* directly,                                                               *)
LEMMA NotAPart ==
  ASSUME Planful, NEW e \in archive.es, Coming(e),
         NEW z \in archive.db, ObjectEntry(z) \in archive.es, e.o \in DirectParts(z, objs),
         opt.target = "old" /\ Kind(z) = "table" => Kind(e.o) # "sequence"
  PROVE  FALSE
<1> DEFINE o == e.o
<1>1. e.t = Kind(o) /\ MemberOf(e) = 0 /\ Ext(o) = 0 /\ o \in objs /\ o \in Ids /\ 0 \notin Ids
  BY OwnEntryMade, SourceFacts, KeeperIs DEF Coming
<1>2. ~ Nothing(e, archive.es, archive.db, opt) /\ ~ Incomplete(e)
  BY WrittenIs DEF Coming
<1>3. z \in objs /\ z # 0
  BY <1>1, SourceFacts
<1>4. CASE z \in UsesOf(o, {"part"})
  <2>1. Kind(o) \notin {"constraint", "foreign-key"}
    BY <1>1, <1>4, MadeByKey, OwnEntryMade
  <2>2. Kind(o) = "index" /\ Kind(z) = "constraint"
    BY <1>1, <1>4, <2>1, MadeByKey
  <2>3. Entry("constraint", z) \in archive.es
    BY <2>2 DEF ObjectEntry
  <2>4. BackingIndex(o, archive.es)
    BY <1>4, <2>3 DEF BackingIndex
  <2>5. QED
    BY <1>1, <1>2, <2>2, <2>4 DEF Nothing, Incomplete
<1>5. CASE Ext(o) = z
  BY <1>1, <1>3, <1>5
<1>6. CASE Kind(z) = "domain" /\ On(o) = z
  <2>1. Kind(o) = "constraint"
    BY <1>1, <1>3, <1>6, ReferencesAssumption
  <2>2. QED
    BY <1>1, <1>2, <1>6, <2>1 DEF Nothing
<1>7. CASE "identity" \in Marks(z) /\ z \in UsesOf(o, {"owned"})
  <2>1. Kind(o) = "sequence" /\ Kind(z) = "table"
    BY <1>1, <1>7, OwnedByTable
  <2>2. IdentitySequence(o, archive.db, opt)
    BY <1>7, <2>1 DEF IdentitySequence, OwnerTable
  <2>3. QED
    BY <1>1, <1>2, <2>1, <2>2 DEF Nothing
<1>8. QED
  BY <1>4, <1>5, <1>6, <1>7 DEF DirectParts

(* nor as a part of a part, but for the index of a partition's key.        *)
LEMMA NotAPartOfAPart ==
  ASSUME Planful, NEW e \in archive.es, Coming(e),
         NEW z \in objs, NEW v \in DirectParts(z, objs), e.o \in DirectParts(v, objs)
  PROVE  FALSE
<1> DEFINE o == e.o
<1>1. e.t = Kind(o) /\ MemberOf(e) = 0 /\ Ext(o) = 0 /\ o \in objs /\ o \in Ids /\ 0 \notin Ids
  BY OwnEntryMade, SourceFacts, KeeperIs DEF Coming
<1>2. ~ Nothing(e, archive.es, archive.db, opt) /\ ~ PartitionKeyIndex(o)
  BY WrittenIs DEF Coming
<1>3. v \in objs /\ v \in Ids /\ v # 0 /\ z \in Ids /\ z # 0
  BY <1>1, PartOf, SourceFacts
<1>4. CASE v \in UsesOf(o, {"part"})
  <2>1. Kind(o) = "index" /\ Kind(v) = "constraint" /\ Kind(On(v)) = "table"
    BY <1>1, <1>4, MadeByKey, OwnEntryMade
  <2>2. "child" \notin Marks(v)
    BY <1>2, <1>4 DEF PartitionKeyIndex
  <2>3. z \notin UsesOf(v, {"part"})
    BY <1>3, <2>1, <2>2, MadeByKey
  <2>4. Ext(v) = 0
    BY <1>3, <2>1, ReferencesAssumption DEF Attached
  <2>5. z \notin UsesOf(v, {"owned"})
    BY <1>3, <2>1, OwnedByTable
  <2>6. QED
    BY <1>3, <2>1, <2>3, <2>4, <2>5 DEF DirectParts
<1>5. CASE Ext(o) = v
  BY <1>1, <1>3, <1>5
<1>6. CASE Kind(v) = "domain" /\ On(o) = v
  <2>1. Kind(o) = "constraint"
    BY <1>1, <1>3, <1>6, ReferencesAssumption
  <2>2. QED
    BY <1>1, <1>2, <1>6, <2>1 DEF Nothing
<1>7. CASE "identity" \in Marks(v) /\ v \in UsesOf(o, {"owned"})
  <2>1. Kind(v) = "table" /\ Ext(v) = 0
    BY <1>1, <1>7, OwnedByTable, KeeperIs DEF MarkedKinds
  <2>2. z \notin UsesOf(v, {"part"}) /\ z \notin UsesOf(v, {"owned"})
    BY <1>3, <2>1, MadeByKey, OwnedByTable
  <2>3. On(v) = 0
    BY <1>3, <2>1, ReferencesAssumption DEF Attached
  <2>4. QED
    BY <1>3, <2>1, <2>2, <2>3 DEF DirectParts
<1>8. QED
  BY <1>4, <1>5, <1>6, <1>7 DEF DirectParts

LEMMA OnlyMaker ==
  ASSUME Planful, NEW e \in archive.es, Coming(e),
         NEW d \in archive.es, d.t = Kind(d.o), e.o \in MadeBy(d.o)
  PROVE  e = d
<1>1. d = ObjectEntry(d.o) /\ e = ObjectEntry(e.o) /\ d.o \in objs /\ d.o \in archive.db
  BY OwnEntryMade DEF Coming
<1>2. e.o \in Parts(d.o, objs)
      /\ (opt.target = "old" /\ Kind(d.o) = "table" => Kind(e.o) # "sequence")
  BY DEF MadeBy
<1>3. e.o \notin DirectParts(d.o, objs)
  BY <1>1, <1>2, NotAPart
<1>4. \A v \in DirectParts(d.o, objs) : e.o \notin DirectParts(v, objs)
  BY <1>1, NotAPartOfAPart
<1>5. QED
  BY <1>1, <1>2, <1>3, <1>4, PartOf

(* A member that has no statement of its own comes with its extension.     *)
LEMMA MemberMaker ==
  ASSUME Planful, NEW m \in objs, Ext(m) # 0, ~ Unmarked(m),
         NEW d \in archive.es, d.t = Kind(d.o), MemberOf(d) = 0, m \in MadeBy(d.o)
  PROVE  d.o = Ext(m)
<1> DEFINE z == d.o
<1>1. /\ d = ObjectEntry(z) /\ z \in objs /\ z \in Ids /\ 0 \notin Ids /\ Keeper(z) = 0
      /\ HasEntry(z) /\ m \in Ids /\ Kind(Ext(m)) = "extension"
  BY OwnEntryMade, SourceFacts
<1>2. m \in Parts(z, objs)
  BY DEF MadeBy
<1>3. Kind(m) \notin Attached
  BY <1>1, ReferencesAssumption
<1>4. ASSUME NEW v \in objs, m \in DirectParts(v, objs)
      PROVE  v = Ext(m) \/ (Kind(v) = "table" /\ Ext(v) = Ext(m))
  <2>1. v \notin UsesOf(m, {"part"})
    BY <1>1, <1>3, MadeByKey DEF Attached
  <2>2. On(m) # v
    BY <1>1, <1>3, <1>4, SourceFacts, ReferencesAssumption
  <2>3. CASE "identity" \in Marks(v) /\ v \in UsesOf(m, {"owned"})
    BY <1>1, <2>3, OwnedByTable, KeeperIs DEF MarkedKinds
  <2>4. QED
    BY <1>4, <2>1, <2>2, <2>3 DEF DirectParts
<1>5. m # z
  <2> SUFFICES ASSUME m = z PROVE FALSE
    OBVIOUS
  <2>1. QED
    BY <1>1, KeeperIs DEF Unmarked, HasEntry
<1>6. CASE m \in DirectParts(z, objs)
  <2>1. Kind(z) = "table" => Ext(z) = 0
    BY <1>1, KeeperIs DEF MarkedKinds
  <2>2. QED
    BY <1>1, <1>4, <1>6, <2>1
<1>7. ASSUME NEW v \in DirectParts(z, objs), m \in DirectParts(v, objs) PROVE z = Ext(m)
  <2>1. v \in objs /\ v \in Ids
    BY <1>1, PartOf, SourceFacts
  <2>2. \/ Kind(v) = "extension" /\ Ext(v) = 0
        \/ Kind(v) = "table" /\ Ext(v) = Ext(m)
    BY <1>1, <1>4, <1>7, <2>1, ReferencesAssumption
  <2>3. Kind(v) \notin Attached \cup {"sequence"} /\ On(v) = 0
    <3>1. Kind(v) \notin Attached \cup {"sequence"}
      BY <2>2 DEF Attached
    <3>2. QED
      BY <2>1, <3>1, ReferencesAssumption
  <2>4. z \notin UsesOf(v, {"part"}) /\ z \notin UsesOf(v, {"owned"})
    BY <2>1, <2>3, MadeByKey, OwnedByTable DEF Attached
  <2>5. Ext(v) = z
    BY <1>1, <1>7, <2>3, <2>4 DEF DirectParts
  <2>6. QED
    BY <1>1, <2>2, <2>5
<1>8. QED
  BY <1>1, <1>2, <1>5, <1>6, <1>7, PartOf

(* Foreign keys and triggers of tables are made by such, or are members.   *)
LEMMA GuardMaker ==
  ASSUME Planful, NEW g \in TableGuards, NEW z \in objs, g \in Parts(z, objs)
  PROVE  Kind(z) \in {"foreign-key", "trigger"}
<1>1. /\ g \in objs /\ g \in Ids /\ 0 \notin Ids /\ Kind(g) \in {"foreign-key", "trigger"}
      /\ Kind(On(g)) = "table"
  BY SourceFacts DEF TableGuards
<1>2. Ext(g) = 0
  BY <1>1, ReferencesAssumption DEF Attached
<1>3. ASSUME NEW v \in objs, g \in DirectParts(v, objs)
      PROVE  v \in UsesOf(g, {"part"}) /\ Kind(v) = "foreign-key" /\ "child" \notin Marks(v)
                /\ Kind(On(v)) = "table"
  <2>1. v # 0
    BY <1>1, <1>3, SourceFacts
  <2>2. v \notin UsesOf(g, {"owned"})
    BY <1>1, OwnedByTable
  <2>3. v \in UsesOf(g, {"part"})
    BY <1>1, <1>2, <1>3, <2>1, <2>2 DEF DirectParts
  <2>4. QED
    BY <1>1, <2>3, MadeByKey
<1>4. ASSUME NEW v \in DirectParts(z, objs), g \in DirectParts(v, objs) PROVE FALSE
  <2>1. v \in objs /\ v \in Ids /\ z # 0
    BY <1>1, PartOf, SourceFacts
  <2>2. Kind(v) = "foreign-key" /\ "child" \notin Marks(v) /\ Kind(On(v)) = "table"
    BY <1>3, <1>4, <2>1
  <2>3. z \notin UsesOf(v, {"part"}) /\ z \notin UsesOf(v, {"owned"})
    BY <2>1, <2>2, MadeByKey, OwnedByTable
  <2>4. Ext(v) = 0
    BY <2>1, <2>2, ReferencesAssumption DEF Attached
  <2>5. QED
    BY <2>1, <2>2, <2>3, <2>4 DEF DirectParts
<1>5. QED
  BY <1>1, <1>3, <1>4, PartOf
-----------------------------------------------------------------------------
(* What a statement creates: an object's own all that comes with it, rows  *)
(* their rows.                                                             *)
LEMMA OwnCreates ==
  ASSUME NEW e, e.t = Kind(e.o), Kind(e.o) \in Kinds
  PROVE  Creates(e, objs, opt) =
           Objects(MadeBy(e.o))
             \cup {Fact("public", x) : x \in {y \in MadeBy(e.o) : Kind(y) \in PublicByDefault}}
             \cup {Fact("owned", x) : x \in {y \in MadeBy(e.o) \ {e.o} :
                                              UsesOf(y, {"owned"}) # {}}}
<1> DEFINE made == {x \in Parts(e.o, objs) :
                       opt.target = "old" /\ e.t = "table" => Kind(x) # "sequence"}
           own(S) == Objects(S)
             \cup {Fact("public", x) : x \in {y \in S : Kind(y) \in PublicByDefault}}
             \cup {Fact("owned", x) : x \in {y \in S \ {e.o} : UsesOf(y, {"owned"}) # {}}}
<1>1. made = MadeBy(e.o)
  BY DEF MadeBy
<1>2. e.t \notin Satellites
  BY DEF Kinds, Satellites
<1>3. Creates(e, objs, opt) = own(made)
  <2> HIDE DEF own, made
  <2>1. QED
    BY <1>2 DEF Creates, Satellites, own, made
<1> HIDE DEF made
<1>4. QED
  BY <1>1, <1>3

LEMMA CreatesWhat ==
  ASSUME NEW e, Kind(e.o) \in Kinds
  PROVE  /\ e.t = Kind(e.o) => Objects(MadeBy(e.o)) \subseteq Creates(e, objs, opt)
         /\ e.t \in {"table-data", "large-object-data"} =>
              Fact("rows", e.o) \in Creates(e, objs, opt)
         /\ \A x \in Creates(e, objs, opt) :
              /\ x.f = "object" => e.t = Kind(e.o) /\ x.o \in MadeBy(e.o)
              /\ x.f = "rows" => e.t \in {"table-data", "large-object-data"} /\ x.o = e.o
<1>1. \A f, o : Fact(f, o).f = f /\ Fact(f, o).o = o
  BY DEF Fact
<1>2. CASE e.t = Kind(e.o)
  <2>1. e.t \notin {"table-data", "large-object-data"}
    BY <1>2 DEF Kinds
  <2>2. \A x \in Objects(MadeBy(e.o)) : x.f = "object" /\ x.o \in MadeBy(e.o)
    BY <1>1 DEF Objects
  <2>3. QED
    BY <1>1, <1>2, <2>1, <2>2, OwnCreates
<1>3. CASE e.t # Kind(e.o)
  <2>1. CASE e.t \in {"table-data", "large-object-data"}
    <3>1. Creates(e, objs, opt) = {Fact("rows", e.o)}
      BY <1>3, <2>1 DEF Creates
    <3>2. QED
      BY <1>1, <1>3, <2>1, <3>1
  <2>2. CASE e.t \notin {"table-data", "large-object-data"}
    <3>1. \A x \in Creates(e, objs, opt) : x.f \notin {"object", "rows"}
      BY <1>1, <1>3, <2>2 DEF Creates, Grant
    <3>2. QED
      BY <1>3, <2>2, <3>1
  <2>3. QED
    BY <2>1, <2>2
<1>4. QED
  BY <1>2, <1>3

(* A turn renders the entries R, and with them comes what they create and  *)
(* nothing else; what is there stays, but for what PUBLIC may use.         *)
Lasting == {"object", "rows", "state", "owned", "comment", "owner", "grant"}

Ripe(e) ==
  \/ e = Head(todo) /\ Renders(e) /\ OutcomeOf(e) = "written"
  \/ e.t \in Hooked /\ SectionOf(Head(todo)) = 1 /\ ~ (e.t \in handled)

Grown(R) ==
  /\ R \subseteq archive.selected /\ rendered' = rendered \cup R
  /\ \A e \in R : Ripe(e)
  /\ \A x : x.f \in Lasting /\ x \in server => x \in server'
  /\ \A x \in server' : x.f \in Lasting /\ x \notin server =>
       \E e \in R : x \in Creates(e, objs, opt)
  /\ \A e \in R : \/ Failed(e)' \/ Creates(e, objs, opt) \subseteq server'
                  \/ e.t \in Hooked /\ "foreign" \in Marks(e.o)

(* The statements a turn adds are those of such entries.                   *)
RunOf(r, e, replica) ==
  /\ r.e = e /\ ~ r.drop
  /\ r.missing = Needs(e, archive.db, opt) \ server
  /\ r.blocking = Conflicts(e, objs, server, replica)

Added ==
  \A r \in ran' \ ran : \E e \in archive.selected :
     /\ Ripe(e)
     /\ RunOf(r, e, IF e.t \in Hooked THEN opt.replica ELSE FALSE)

LEMMA WriteGrows ==
  ASSUME ArchiveInv, TodoInv, Write, NEW e, e = Head(todo)
  PROVE  Steady /\ Added /\ Grown({e})
<1> DEFINE run == Statement(e, FALSE, tx', Needs(e, archive.db, opt) \ server,
                            Conflicts(e, objs, server, FALSE))
<1>1. /\ rendered' = rendered \cup {e} /\ ran' = ran \cup {run}
      /\ warned \subseteq warned' /\ skipped' = skipped /\ src' = src /\ archive' = archive
      /\ server' = IF Failing(run) THEN server
                   ELSE (server \ Revokes(e, granted)) \cup Creates(e, objs, opt)
      /\ Renders(e) /\ OutcomeOf(e) = "written" /\ Turn
  BY DEF Write
<1>2. /\ run.e = e /\ ~ run.drop /\ run.missing = Needs(e, archive.db, opt) \ server
      /\ run.blocking = Conflicts(e, objs, server, FALSE)
  BY DEF Statement
<1>3. e \in archive.selected
  BY <1>1, AtHand
<1>4. e.t \notin Hooked
  BY <1>1 DEF Renders
<1> HIDE DEF run
<1>5. Steady
  BY <1>1 DEF Steady
<1>6. Ripe(e)
  BY <1>1 DEF Ripe
<1>7. Added
  BY <1>1, <1>2, <1>3, <1>4, <1>6 DEF Added, RunOf
<1>8. \A x \in Revokes(e, granted) : x.f \notin Lasting
  BY DEF Revokes, Fact, Lasting
<1>9. Failing(run) => Failed(e)'
  BY <1>1, <1>2 DEF Failed
<1>10. Failed(e)' \/ Creates(e, objs, opt) \subseteq server'
  BY <1>1, <1>9
<1>11. Grown({e})
  BY <1>1, <1>3, <1>6, <1>8, <1>10 DEF Grown
<1>12. QED
  BY <1>5, <1>7, <1>11

LEMMA HookGrows ==
  ASSUME ArchiveInv, TodoInv, DataHook, NEW t, t = Head(todo).t
  PROVE  /\ Steady /\ Added
         /\ Grown(IF t \in handled THEN {}
                  ELSE {e \in archive.selected : e.t = t /\ ~ LacksDependency(e)})
<1> DEFINE all == {e \in archive.selected : e.t = t}
           lacking == {e \in all : LacksDependency(e)}
           Load(e) == Statement(e, FALSE, tx', Needs(e, archive.db, opt) \ server,
                                Conflicts(e, objs, server, opt.replica))
           runs == {Load(e) : e \in Loadable(all \ lacking)}
           R == {e \in archive.selected : e.t = t /\ ~ LacksDependency(e)}
           Done == {Creates(r.e, objs, opt) : r \in {x \in runs : ~ Failing(x)}}
<1>1. /\ t \in Hooked /\ src' = src /\ archive' = archive /\ R = all \ lacking
      /\ SectionOf(Head(todo)) = 1
  BY KindsApart DEF DataHook
<1>2. CASE t \in handled
  <2>1. /\ rendered' = rendered /\ warned' = warned /\ skipped' = skipped
        /\ server' = server /\ ran' = ran
    BY <1>2 DEF DataHook, accounts
  <2>2. QED
    BY <1>1, <1>2, <2>1 DEF Steady, Added, Grown
<1>3. CASE t \notin handled
  <2>1. /\ rendered' = rendered \cup (all \ lacking) /\ warned' = warned \cup lacking
        /\ skipped' = skipped \cup lacking /\ ran' = ran \cup runs
        /\ server' = server \cup UNION Done
    BY <1>3 DEF DataHook
  <2>2. \A e : /\ Load(e).e = e /\ ~ Load(e).drop
               /\ Load(e).missing = Needs(e, archive.db, opt) \ server
               /\ Load(e).blocking = Conflicts(e, objs, server, opt.replica)
    BY DEF Statement
  <2> HIDE DEF Load
  <2>3. \A r \in runs : \E e \in R : r = Load(e) /\ "foreign" \notin Marks(e.o)
    BY <1>1 DEF Loadable
  <2>4. \A e \in R : "foreign" \notin Marks(e.o) => Load(e) \in runs
    BY <1>1 DEF Loadable
  <2>5. \A e \in R : e \in archive.selected /\ e.t \in Hooked /\ Ripe(e)
    BY <1>1, <1>3 DEF Ripe
  <2> HIDE DEF runs, R, all, lacking
  <2>6. Steady
    BY <1>1, <2>1 DEF Steady
  <2>7. Added
    <3> SUFFICES ASSUME NEW r \in ran' \ ran
                 PROVE  \E e \in archive.selected :
                           /\ Ripe(e)
                           /\ RunOf(r, e, IF e.t \in Hooked THEN opt.replica ELSE FALSE)
      BY DEF Added
    <3>1. PICK e \in R : r = Load(e)
      BY <2>1, <2>3
    <3>2. RunOf(r, e, opt.replica)
      BY <2>2, <3>1 DEF RunOf
    <3>3. QED
      BY <2>5, <3>1, <3>2
  <2>8. \A x \in UNION Done : \E e \in R : x \in Creates(e, objs, opt)
    <3> SUFFICES ASSUME NEW r \in runs, NEW x \in Creates(r.e, objs, opt)
                 PROVE  \E e \in R : x \in Creates(e, objs, opt)
      OBVIOUS
    <3>1. PICK e \in R : r = Load(e)
      BY <2>3
    <3>2. QED
      BY <2>2, <3>1
  <2>9. ASSUME NEW e \in R, "foreign" \notin Marks(e.o)
        PROVE  Failed(e)' \/ Creates(e, objs, opt) \subseteq server'
    <3>1. Load(e) \in runs /\ Load(e).e = e
      BY <2>2, <2>4, <2>9
    <3> DEFINE r == Load(e)
    <3> HIDE DEF r
    <3>2. r \in runs /\ r.e = e
      BY <3>1 DEF r
    <3>3. CASE Failing(r)
      BY <2>1, <3>2, <3>3 DEF Failed
    <3>4. CASE ~ Failing(r)
      <4>1. Creates(r.e, objs, opt) \in Done
        BY <3>2, <3>4
      <4> HIDE DEF Done
      <4>2. QED
        BY <2>1, <3>2, <4>1
    <3>5. QED
      BY <3>3, <3>4
  <2> HIDE DEF Done
  <2>10. rendered' = rendered \cup R
    BY <1>1, <2>1
  <2>11. R \subseteq archive.selected
    BY <2>5
  <2>12. Grown(R)
    BY <2>1, <2>5, <2>8, <2>9, <2>10, <2>11 DEF Grown
  <2>13. QED
    BY <1>3, <2>6, <2>7, <2>12 DEF R
<1>4. QED
  BY <1>2, <1>3

(* Every turn.                                                             *)
LEMMA TurnGrows ==
  ASSUME ArchiveInv, TodoInv, Entryward
  PROVE  Steady /\ Added /\ \E R : Grown(R)
<1>1. CASE Write
  BY <1>1, WriteGrows
<1>2. CASE DataHook
  BY <1>2, HookGrows
<1>3. CASE SkipUnavailable \/ SkipUnwritten \/ SkipSilent \/ SkipOmitted \/ RenderFails
  <2>1. /\ src' = src /\ archive' = archive /\ rendered' = rendered /\ server' = server
        /\ ran' = ran /\ warned \subseteq warned' /\ skipped \subseteq skipped'
    BY <1>3 DEF SkipUnavailable, SkipUnwritten, SkipSilent, SkipOmitted, RenderFails
  <2>2. Grown({})
    BY <2>1 DEF Grown
  <2>3. QED
    BY <2>1, <2>2 DEF Steady, Added
<1>4. QED
  BY <1>1, <1>2, <1>3 DEF Entryward

(* An entry whose turn it is, alone or with its like, is fit for both.     *)
LEMMA RipeIs ==
  ASSUME Replaying, Turn, archive' = archive, NEW e \in archive.selected, Ripe(e)
  PROVE  /\ e \notin rendered /\ MemberOf(e) = 0 /\ OutcomeOf(e) # "nothing"
         /\ e.t \in Hooked \/ OutcomeOf(e) = "written"
         /\ e = Head(todo) \/ (e.t \in Hooked /\ SectionOf(Head(todo)) = 1)
         /\ e \in archive.es /\ e.o \in objs
<1>1. Planful /\ e \in archive.es /\ e.o \in objs
  <2>1. Planful /\ e \in archive.es
    BY WantedIs DEF Replaying
  <2>2. QED
    BY <2>1, OwnEntryMade
<1>2. CASE e = Head(todo) /\ Renders(e) /\ OutcomeOf(e) = "written"
  <2>1. e \notin rendered
    BY <1>2, TurnIsFresh DEF Replaying, DumpInv, Settled, Renders
  <2>2. QED
    BY <1>1, <1>2, <2>1 DEF Renders
<1>3. CASE e.t \in Hooked /\ SectionOf(Head(todo)) = 1 /\ ~ (e.t \in handled)
  <2>1. e \notin rendered
    BY <1>3 DEF Replaying, DumpInv, AccountInv
  <2>2. e.t # Kind(e.o)
    BY <1>1, <1>3, OwnEntry, KindsApart
  <2>3. MemberOf(e) = 0
    BY <2>2 DEF MemberOf
  <2>4. ~ Nothing(e, archive.es, archive.db, opt)
    BY <1>3 DEF Nothing, Hooked
  <2>5. OutcomeOf(e) # "nothing"
    BY <2>4 DEF OutcomeOf, Outcome
  <2>6. QED
    BY <1>1, <1>3, <2>1, <2>3, <2>5
<1>4. QED
  BY <1>2, <1>3 DEF Ripe

(* So whatever a turn adds is explained.                                   *)
LEMMA TurnExplained ==
  ASSUME Replaying, NotYetInv, GuardInv, RowsInv, RanInv, Turn, Steady, Added
  PROVE  RanInv'
<1> SUFFICES ASSUME NEW r \in ran' PROVE Explained(r)'
  BY DEF RanInv
<1>1. CASE r \in ran
  BY <1>1, ExplainedStays DEF RanInv
<1>2. CASE r \notin ran
  <2>1. PICK e \in archive.selected :
           Ripe(e) /\ RunOf(r, e, IF e.t \in Hooked THEN opt.replica ELSE FALSE)
    BY <1>2 DEF Added
  <2> DEFINE replica == IF e.t \in Hooked THEN opt.replica ELSE FALSE
  <2>2. /\ e \notin rendered /\ MemberOf(e) = 0 /\ OutcomeOf(e) # "nothing"
        /\ e.t \in Hooked \/ OutcomeOf(e) = "written"
        /\ e = Head(todo) \/ (e.t \in Hooked /\ SectionOf(Head(todo)) = 1)
    BY <2>1, RipeIs DEF Steady
  <2>3. /\ r.e = e /\ ~ r.drop
        /\ r.missing = Needs(e, archive.db, opt) \ server
        /\ r.blocking = Conflicts(e, objs, server, replica)
    BY <2>1 DEF RunOf
  <2>4. \A x \in r.missing : MissingExplained(r, x)
    BY <2>2, <2>3, MissingKnown DEF MissingExplained
  <2> HIDE DEF replica
  <2>5. ASSUME NEW x \in r.blocking PROVE WriteBlockExplained(r, x)
    BY <2>2, <2>3, <2>5, BlockingKnown DEF replica
  <2>6. Explained(r)
    BY <2>3, <2>4, <2>5 DEF Explained, BlockingExplained
  <2>7. QED
    BY <2>6, ExplainedStays
<1>3. QED
  BY <1>1, <1>2

(* And the rest of the replay's invariant is kept.                         *)
LEMMA FactsLast == \A f, o : Fact(f, o).f = f /\ (f \in Lasting => Fact(f, o).f \in Lasting)
BY DEF Fact

LEMMA WrittenStays ==
  ASSUME Replaying, Turn, Steady, NEW R, Grown(R)
  PROVE  WrittenInv' /\ PublicInv'
<1>1. objs' = objs /\ opt' = opt
  BY AbsentStays
<1>2. ASSUME NEW e, Holding(e) PROVE Holding(e)'
  <2>1. MadeBy(e.o)' = MadeBy(e.o)
    BY <1>1 DEF MadeBy
  <2>2. \A o : Fact("object", o) \in server => Fact("object", o) \in server'
    BY FactsLast DEF Grown, Lasting
  <2>3. \A o : Fact("rows", o) \in server => Fact("rows", o) \in server'
    BY FactsLast DEF Grown, Lasting
  <2>4. Objects(MadeBy(e.o)) \subseteq server => Objects(MadeBy(e.o)) \subseteq server'
    BY <2>2 DEF Objects
  <2>5. QED
    BY <1>2, <2>1, <2>3, <2>4 DEF Holding
<1>3. ASSUME NEW e \in R PROVE (Failed(e) \/ Holding(e))'
  <2>1. e \in archive.selected /\ Ripe(e)
    BY DEF Grown
  <2>2. e.o \in objs /\ Kind(e.o) \in Kinds
    <3>1. e.o \in objs /\ Planful
      BY <2>1, RipeIs DEF Steady, Replaying
    <3>2. QED
      BY <3>1, OwnEntry
  <2>3. CASE Failed(e)'
    BY <2>3
  <2>4. CASE Creates(e, objs, opt) \subseteq server'
    <3>1. MadeBy(e.o)' = MadeBy(e.o)
      BY <1>1 DEF MadeBy
    <3>2. /\ e.t = Kind(e.o) => Objects(MadeBy(e.o)) \subseteq server'
          /\ e.t = "table-data" => Fact("rows", e.o) \in server'
      BY <2>2, <2>4, CreatesWhat
    <3>3. Holding(e)'
      BY <3>1, <3>2 DEF Holding
    <3>4. QED
      BY <3>3
  <2>5. CASE e.t \in Hooked /\ "foreign" \in Marks(e.o)
    <3>1. e.t # Kind(e.o)
      BY <2>2, <2>5, KindsApart
    <3>2. Holding(e)'
      BY <2>5, <3>1 DEF Holding
    <3>3. QED
      BY <3>2
  <2>6. QED
    BY <2>3, <2>4, <2>5 DEF Grown
<1>4. WrittenInv'
  <2> SUFFICES ASSUME NEW e \in rendered' PROVE (Failed(e) \/ Holding(e))'
    BY DEF WrittenInv
  <2>1. CASE e \in rendered
    <3>1. Failed(e) => Failed(e)'
      BY AbsentStays
    <3>2. QED
      BY <1>2, <2>1, <3>1 DEF Replaying, WrittenInv
  <2>2. CASE e \in R
    BY <1>3, <2>2
  <2>3. QED
    BY <2>1, <2>2 DEF Grown
<1>5. PublicInv'
  <2>1. Publics(objs)' = Publics(objs)
    BY <1>1 DEF Publics
  <2>2. \A o : Fact("object", o) \in server => Fact("object", o) \in server'
    BY FactsLast DEF Grown, Lasting
  <2>3. Objects(Publics(objs)) \subseteq server => Objects(Publics(objs)) \subseteq server'
    BY <2>2 DEF Objects
  <2>4. QED
    BY <1>1, <2>1, <2>3 DEF Replaying, PublicInv
<1>6. QED
  BY <1>4, <1>5

LEMMA OrderStays ==
  ASSUME Replaying, NotYetInv, GuardInv, RowsInv, Turn, Steady, NEW R, Grown(R)
  PROVE  NotYetInv' /\ GuardInv' /\ RowsInv'
<1>1. objs' = objs /\ opt' = opt /\ archive' = archive /\ Planful
  BY AbsentStays DEF Steady, Replaying
<1>2. \A e \in R : e \in archive.es /\ e.o \in objs /\ e \notin rendered /\ Kind(e.o) \in Kinds
                     /\ e \in archive.selected
                     /\ (e = Head(todo) \/ e.t \in Hooked) /\ MemberOf(e) = 0
  BY <1>1, RipeIs, OwnEntry DEF Grown
<1>3. NotYetInv'
  <2> SUFFICES ASSUME NEW e \in archive.selected \ rendered', Coming(e)',
                      NEW m \in ComesWith(e), Fact("object", m) \in server'
               PROVE  DropFailed(e)'
    BY <1>1 DEF NotYetInv, ComesWith
  <2>1. Coming(e) /\ e \in archive.selected \ rendered /\ e \in archive.es
    <3>1. Coming(e)
      BY <1>1 DEF Coming, OutcomeOf
    <3>2. QED
      BY <1>1, <3>1, WantedIs DEF Grown
  <2>2. CASE Fact("object", m) \in server
    BY <2>1, <2>2, AbsentStays DEF NotYetInv
  <2>3. CASE Fact("object", m) \notin server
    <3>1. PICK d \in R : Fact("object", m) \in Creates(d, objs, opt)
      BY <2>3, FactsLast DEF Grown, Lasting
    <3>2. d.t = Kind(d.o) /\ m \in MadeBy(d.o)
      BY <1>2, <3>1, CreatesWhat, FactsAbout, FactsLast
    <3>3. e = d
      <4>1. /\ e = ObjectEntry(e.o) /\ d = ObjectEntry(d.o) /\ e.o \in objs
            /\ 0 \notin Ids /\ objs \subseteq Ids
        BY <1>1, <1>2, <2>1, <3>2, OwnEntryMade, SourceFacts DEF Coming
      <4>2. CASE m = e.o
        BY <1>1, <1>2, <2>1, <3>2, <4>2, OnlyMaker
      <4>3. CASE m \in objs /\ Ext(m) = e.o /\ ~ Unmarked(m)
        <5>1. MemberOf(d) = 0
          BY <1>2
        <5>2. d.o = e.o
          BY <1>1, <1>2, <3>2, <4>1, <4>3, <5>1, MemberMaker
        <5>3. QED
          BY <4>1, <5>2
      <4>4. QED
        BY <4>2, <4>3 DEF ComesWith, Members
    <3>4. QED
      BY <3>3 DEF Grown
  <2>4. QED
    BY <2>2, <2>3
<1>4. GuardInv'
  <2> SUFFICES ASSUME opt.mode # "data-only", NEW g \in TableGuards,
                      Fact("object", g) \in server'
               PROVE  Absent(g)' \/ \A e \in ToSet(todo') : SectionOf(e) = 2
    BY <1>1 DEF GuardInv, TableGuards
  <2>1. todo \in Seq(archive.selected) /\ todo # <<>> /\ todo' = Tail(todo) /\ BySection(todo)
    BY DEF Turn, Replaying, DumpInv, TodoInv, Ordering
  <2>2. ToSet(todo') \subseteq ToSet(todo)
    BY <2>1, Behead
  <2>3. CASE Fact("object", g) \in server
    BY <2>2, <2>3, AbsentStays DEF GuardInv
  <2>4. CASE Fact("object", g) \notin server
    <3>1. PICK d \in R : Fact("object", g) \in Creates(d, objs, opt)
      BY <2>4, FactsLast DEF Grown, Lasting
    <3>2. d.t = Kind(d.o) /\ g \in MadeBy(d.o)
      BY <1>2, <3>1, CreatesWhat, FactsAbout, FactsLast
    <3>3. Kind(d.o) \in {"foreign-key", "trigger"}
      BY <1>1, <1>2, <3>2, GuardMaker DEF MadeBy
    <3>4. SectionOf(d) = 2 /\ d = Head(todo)
      BY <1>2, <3>2, <3>3 DEF SectionOf, PreData, Data, Hooked
    <3>5. ASSUME NEW e \in ToSet(todo) PROVE SectionOf(e) = 2
      <4>1. PICK i \in 1..Len(todo) : todo[i] = e
        BY <3>5 DEF ToSet
      <4>2. Head(todo) = todo[1] /\ Len(todo) \in Nat \ {0}
        BY <2>1, Behead
      <4>3. 1 \in 1..Len(todo) /\ (i = 1 \/ 1 < i)
        BY <4>2
      <4>4. i = 1 \/ SectionOf(todo[1]) <= SectionOf(todo[i])
        BY <2>1, <4>3 DEF BySection
      <4>5. SectionOf(e) \in 0..2
        BY KindsApart
      <4>6. QED
        BY <3>4, <4>1, <4>2, <4>4, <4>5
    <3>6. QED
      BY <2>2, <3>5
  <2>5. QED
    BY <2>3, <2>4
<1>5. RowsInv'
  <2> SUFFICES ASSUME opt.mode # "data-only", NEW t \in objs, Kind(t) = "table",
                      Fact("rows", t) \in server'
               PROVE  Absent(t)' \/ \E d \in rendered' : d.t = "table-data" /\ d.o = t
    BY <1>1 DEF RowsInv
  <2>1. CASE Fact("rows", t) \in server
    BY <2>1, AbsentStays DEF RowsInv, Grown
  <2>2. CASE Fact("rows", t) \notin server
    <3>1. PICK d \in R : Fact("rows", t) \in Creates(d, objs, opt)
      BY <2>2, FactsLast DEF Grown, Lasting
    <3>2. d.t \in {"table-data", "large-object-data"} /\ d.o = t
      BY <1>2, <3>1, CreatesWhat, FactsAbout, FactsLast
    <3>3. d.t # "large-object-data"
      BY <1>1, <1>2, <3>2, SatelliteOf DEF Kinds
    <3>4. QED
      BY <3>2, <3>3 DEF Grown
  <2>3. QED
    BY <2>1, <2>2
<1>6. QED
  BY <1>3, <1>4, <1>5
-----------------------------------------------------------------------------
(* What goes with an object: its parts, and the least that is closed under *)
(* what is dropped with what.                                              *)
LEMMA Going ==
  ASSUME Planful, NEW o \in objs, NEW facts
  PROVE  /\ o \in GoesWith(o, objs, facts) /\ GoesWith(o, objs, facts) \subseteq objs
         /\ Parts(o, objs) \subseteq GoesWith(o, objs, facts)
         /\ \A v \in GoesWith(o, objs, facts) :
              Dragged(v, objs, facts) \subseteq GoesWith(o, objs, facts)
         /\ \A X : o \in X /\ (\A v \in X \cap objs : Dragged(v, objs, facts) \subseteq X) =>
              GoesWith(o, objs, facts) \subseteq X
<1> DEFINE Step(x, y) == [from |-> x, to |-> y]
           Of(x) == {Step(x, y) : y \in Dragged(x, objs, facts)}
           steps == UNION {Of(x) : x \in objs}
           G == GoesWith(o, objs, facts)
<1>1. steps = Drags(objs, facts)
  BY DEF Drags
<1>2. \A x, y : Step(x, y).from = x /\ Step(x, y).to = y
  OBVIOUS
<1>3. \A x : Dragged(x, objs, facts) \subseteq objs
  BY DEF Dragged, DirectParts
<1> HIDE DEF Step
<1>4. \A d \in steps : d.from \in objs /\ d.to \in Dragged(d.from, objs, facts)
  BY <1>2
<1>5. \A x \in objs : \A y \in Dragged(x, objs, facts) : Step(x, y) \in steps
  OBVIOUS
<1> HIDE DEF steps
<1>6. IsFiniteSet(objs) /\ Within(objs, steps) /\ {o} \in SUBSET objs
  BY <1>3, <1>4, SourceFacts DEF Within
<1>7. G = Closing(objs, steps)[{o}]
  BY <1>1 DEF GoesWith
<1> HIDE DEF G
<1>8. /\ {o} \subseteq G /\ G \subseteq objs /\ Closed(G, steps)
      /\ \A X : {o} \subseteq X /\ Closed(X, steps) => G \subseteq X
  BY <1>6, <1>7, ClosureIsClosed
<1>9. \A v \in G : Dragged(v, objs, facts) \subseteq G
  BY <1>2, <1>5, <1>8 DEF Closed
<1>10. ASSUME NEW X, o \in X, \A v \in X \cap objs : Dragged(v, objs, facts) \subseteq X
       PROVE  G \subseteq X
  BY <1>4, <1>8, <1>10 DEF Closed
<1>11. \A v : DirectParts(v, objs) \subseteq Dragged(v, objs, facts)
  BY DEF Dragged
<1>12. Parts(o, objs) \subseteq G
  BY <1>8, <1>9, <1>11, PartOf
<1>13. QED
  BY <1>8, <1>9, <1>10, <1>12 DEF G

(* The more sequences belong to their tables, the more goes.               *)
LEMMA GoingMore ==
  ASSUME Planful, NEW o \in objs, NEW F, NEW G,
         \A q : Fact("owned", q) \in F => Fact("owned", q) \in G
  PROVE  GoesWith(o, objs, F) \subseteq GoesWith(o, objs, G)
<1> DEFINE X == GoesWith(o, objs, G)
<1>1. \A v : Dragged(v, objs, F) \subseteq Dragged(v, objs, G)
  BY DEF Dragged
<1>2. o \in X /\ \A v \in X : Dragged(v, objs, G) \subseteq X
  BY Going
<1> HIDE DEF X
<1>3. GoesWith(o, objs, F) \subseteq X
  BY <1>1, <1>2, Going
<1>4. QED
  BY <1>3 DEF X

(* With an object go its members, and what is on a relation or owned by    *)
(* one; of the objects a reference may lead to, sequences apart, only      *)
(* itself and its members.                                                 *)
LEMMA GoingReferred ==
  ASSUME Planful, NEW o \in objs, NEW facts, NEW y \in GoesWith(o, objs, facts),
         Kind(y) \notin Attached, Kind(y) # "sequence"
  PROVE  y = o \/ Ext(y) = o
<1> DEFINE X == {v \in objs : \/ v = o \/ Ext(v) = o
                              \/ Kind(v) \in Attached \cup {"sequence"}}
<1>1. ASSUME NEW v \in X, NEW w \in Dragged(v, objs, facts) PROVE w \in X
  <2>1. v \in objs /\ w \in objs /\ v \in Ids /\ w \in Ids /\ 0 \notin Ids
    BY <1>1, SourceFacts DEF Dragged, DirectParts
  <2>2. CASE v \in UsesOf(w, {"part"})
    BY <2>1, <2>2, MadeByKey DEF Attached
  <2>3. CASE Ext(w) = v
    <3>1. Kind(v) = "extension" /\ Ext(v) = 0
      BY <2>1, <2>3, SourceFacts, ReferencesAssumption
    <3>2. v = o
      BY <2>1, <3>1, SourceFacts DEF Attached
    <3>3. QED
      BY <2>1, <2>3, <3>2
  <2>4. CASE On(w) = v
    <3>1. Kind(w) \in Attached
      BY <2>1, <2>4, ReferencesAssumption
    <3>2. QED
      BY <2>1, <3>1
  <2>5. CASE v \in UsesOf(w, {"owned"})
    BY <2>1, <2>5, OwnedByTable
  <2>6. QED
    BY <1>1, <2>2, <2>3, <2>4, <2>5 DEF Dragged, DirectParts
<1>2. o \in X
  OBVIOUS
<1> HIDE DEF X
<1>3. GoesWith(o, objs, facts) \subseteq X
  BY <1>1, <1>2, Going
<1>4. QED
  BY <1>3 DEF X
-----------------------------------------------------------------------------
(* Which entries have a DROP: all but those made by others, and what an    *)
(* old target does not know.                                               *)
LEMMA DropMade ==
  ASSUME Planful, NEW o \in archive.db,
         ~ (Kind(o) = "sequence" /\ IdentitySequence(o, archive.db, opt)),
         ~ (Kind(o) \in LaterKinds /\ opt.target = "old"),
         ~ (Kind(o) = "constraint" /\ Kind(On(o)) = "domain"),
         ~ (Kind(o) = "index" /\ ("invalid" \in Marks(o) \/ BackingIndex(o, archive.es)))
  PROVE  HasDrop(ObjectEntry(o), archive.es, archive.db, opt)
<1>1. o \in objs /\ ObjectEntry(o).t = Kind(o) /\ ObjectEntry(o).o = o
  BY SourceFacts, OwnEntry
<1>2. Kind(o) \in Droppable
  BY <1>1, OwnEntry, KeptOnTables DEF Kinds, Droppable
<1>3. QED
  BY <1>1, <1>2 DEF HasDrop

LEMMA ComingHasDrop ==
  ASSUME Planful, NEW e \in archive.es, Coming(e)
  PROVE  HasDrop(e, archive.es, archive.db, opt)
<1>1. /\ e = ObjectEntry(e.o) /\ e.t = Kind(e.o) /\ e.o \in archive.db
      /\ ~ Nothing(e, archive.es, archive.db, opt) /\ ~ Incomplete(e)
      /\ \A ft \in Unsupported(e, opt) : ~ ft.whole
  BY OwnEntryMade, WrittenIs DEF Coming
<1>2. ~ (Kind(e.o) \in LaterKinds /\ opt.target = "old")
  <2> SUFFICES ASSUME e.t \in LaterKinds, opt.target = "old" PROVE FALSE
    BY <1>1
  <2> DEFINE ft == Lacking(TRUE, FALSE, FALSE)
  <2>1. Unsupported(e, opt) = {ft}
    BY DEF Unsupported, Features, LaterKinds
  <2>2. ft.whole
    BY DEF Lacking
  <2> HIDE DEF ft
  <2>3. QED
    BY <1>1, <2>1, <2>2
<1>3. ~ (Kind(e.o) = "sequence" /\ IdentitySequence(e.o, archive.db, opt))
  BY <1>1 DEF Nothing
<1>4. ~ (Kind(e.o) = "constraint" /\ Kind(On(e.o)) = "domain")
  BY <1>1 DEF Nothing
<1>5. ~ (Kind(e.o) = "index" /\ ("invalid" \in Marks(e.o) \/ BackingIndex(e.o, archive.es)))
  BY <1>1 DEF Nothing, Incomplete
<1>6. QED
  BY <1>1, <1>2, <1>3, <1>4, <1>5, DropMade

(* What a DROP that was written leaves: nothing of the object, unless it   *)
(* failed.                                                                 *)
Felled(e) ==
  HasDrop(e, archive.es, archive.db, opt) /\ MemberOf(e) = 0 =>
    \/ DropFailed(e)
    \/ \A x \in Parts(e.o, objs) : {Fact("object", x), Fact("rows", x)} \cap server = {}

(* Before the first statement that creates: the server as the dump finds   *)
(* it, or with all drops over.                                             *)
Fresh ==
  /\ rendered = {}
  /\ IF opt.clean THEN \A e \in archive.selected : Felled(e) ELSE server = Before

LEMMA FelledPart ==
  ASSUME Planful, NEW p \in objs, NEW x \in Parts(p, objs), ~ Absent(x), Keeper(p) = 0,
         Felled(ObjectEntry(p)),
         HasDrop(ObjectEntry(p), archive.es, archive.db, opt)
  PROVE  {Fact("object", x), Fact("rows", x)} \cap server = {}
<1>1. ObjectEntry(p).o = p /\ MemberOf(ObjectEntry(p)) = 0
  BY OwnEntry
<1>2. ~ DropFailed(ObjectEntry(p))
  <2>1. ~ Failed(ObjectEntry(p))
    BY SharesFate
  <2>2. QED
    BY <2>1 DEF Failed, DropFailed
<1>3. QED
  BY <1>1, <1>2 DEF Felled

(* A foreign key or trigger of a table, or the key of the partitioned      *)
(* table that makes it.                                                    *)
LEMMA GuardRoot ==
  ASSUME Planful, NEW g \in TableGuards
  PROVE  \E k \in TableGuards :
            g \in Parts(k, objs) /\ (Kind(k) = "foreign-key" => "child" \notin Marks(k))
<1>1. g \in objs /\ Kind(g) \in {"foreign-key", "trigger"} /\ g \in Ids
  BY SourceFacts DEF TableGuards
<1>2. CASE ~ (Kind(g) = "foreign-key" /\ "child" \in Marks(g))
  BY <1>1, <1>2, PartOf
<1>3. CASE Kind(g) = "foreign-key" /\ "child" \in Marks(g)
  <2>1. PICK m : m \in UsesOf(g, {"part"})
    BY <1>1, <1>3, ReferencesAssumption
  <2>2. /\ m \in objs /\ Kind(m) = "foreign-key" /\ Kind(On(m)) = "table"
        /\ "child" \notin Marks(m)
    BY <1>1, <1>3, <2>1, MadeByKey
  <2>3. g \in DirectParts(m, objs)
    BY <1>1, <2>1 DEF DirectParts
  <2>4. g \in Parts(m, objs) /\ m \in TableGuards
    BY <2>2, <2>3, PartOf DEF TableGuards
  <2>5. QED
    BY <2>2, <2>4
<1>4. QED
  BY <1>2, <1>3

LEMMA FreshIsReady ==
  ASSUME Planful, Fresh, Typed
  PROVE  NotYetInv /\ GuardInv /\ RowsInv
<1>1. CASE opt.clean
  <2>1. \A e \in archive.selected : Felled(e)
    BY <1>1 DEF Fresh
  <2>2. NotYetInv
    <3> SUFFICES ASSUME NEW e \in archive.selected, Coming(e)
                 PROVE  \/ DropFailed(e)
                        \/ \A m \in ComesWith(e) : Fact("object", m) \notin server
      BY DEF NotYetInv
    <3>1. e \in archive.es /\ e.o \in objs
      BY WantedIs, OwnEntryMade
    <3>2. HasDrop(e, archive.es, archive.db, opt) /\ MemberOf(e) = 0
      BY <3>1, ComingHasDrop DEF Coming
    <3>3. ComesWith(e) \subseteq Parts(e.o, objs)
      BY <3>1, PartOf DEF ComesWith, Members, DirectParts
    <3>4. QED
      BY <2>1, <3>2, <3>3 DEF Felled
  <2>3. GuardInv
    <3> SUFFICES ASSUME NEW g \in TableGuards, ~ Absent(g)
                 PROVE  Fact("object", g) \notin server
      BY DEF GuardInv
    <3>1. PICK k \in TableGuards :
             g \in Parts(k, objs) /\ (Kind(k) = "foreign-key" => "child" \notin Marks(k))
      BY GuardRoot
    <3>2. k \in objs /\ Kind(k) \in {"foreign-key", "trigger"} /\ Kind(On(k)) = "table"
      BY DEF TableGuards
    <3>3. k \in archive.db /\ Keeper(k) = 0 /\ ObjectEntry(k) \in archive.selected
      BY <3>1, <3>2, AttachedSelected DEF Attached
    <3>4. HasDrop(ObjectEntry(k), archive.es, archive.db, opt)
      BY <3>2, <3>3, DropMade DEF LaterKinds
    <3>5. QED
      BY <2>1, <3>1, <3>2, <3>3, <3>4, FelledPart
  <2>4. RowsInv
    <3> SUFFICES ASSUME NEW t \in objs, Kind(t) = "table", ~ Absent(t)
                 PROVE  Fact("rows", t) \notin server
      BY DEF RowsInv
    <3> DEFINE p == Provider(t).o
    <3>1. /\ t \in archive.db /\ ~ HardExcluded(ObjectEntry(t), opt)
          /\ ~ HardExcluded(Provider(t), opt) /\ p \in objs /\ t \in Parts(p, objs)
      BY ProviderAsked
    <3>2. ObjectEntry(t) \in Wanted
      BY <3>1, TableWanted DEF ObjectEntry
    <3>3. Provider(t) \in archive.selected
      BY <3>1, <3>2, ProviderSelected
    <3>4. Provider(t) = ObjectEntry(p) /\ Kind(p) \in {"table", "extension"} /\ Keeper(p) = 0
      BY OwnEntry DEF Provider
    <3>5. p \in archive.db
      BY <3>3, WantedIs, OwnEntryMade
    <3> HIDE DEF p
    <3>6. HasDrop(ObjectEntry(p), archive.es, archive.db, opt)
      BY <3>4, <3>5, DropMade DEF LaterKinds
    <3>7. QED
      BY <2>1, <3>1, <3>3, <3>4, <3>6, FelledPart
  <2>5. QED
    BY <2>2, <2>3, <2>4
<1>2. CASE ~ opt.clean
  <2>1. server = IF opt.mode = "data-only" THEN SchemaFacts ELSE Objects(Publics(objs))
    BY <1>2 DEF Fresh, Before
  <2>2. opt.mode # "data-only" =>
          \A x \in server : \E o \in Publics(objs) : x = Fact("object", o)
    BY <2>1 DEF Objects
  <2>3. opt.mode # "data-only" =>
          \A x \in server : x.f = "object" /\ Kind(x.o) = "schema" /\ "public" \in Marks(x.o)
    BY <2>2, FactsAbout, FactsLast DEF Publics
  <2>4. NotYetInv
    <3> SUFFICES ASSUME NEW e \in archive.selected, Coming(e), NEW m \in ComesWith(e)
                 PROVE  Fact("object", m) \notin server
      BY DEF NotYetInv
    <3>1. e \in archive.es /\ e.o \in objs
      BY WantedIs, OwnEntryMade
    <3>2. e.t = Kind(e.o) /\ e.t \in Kinds
      BY <3>1, OwnEntry DEF Coming
    <3>3. opt.mode # "data-only"
      <4>1. SectionOf(e) # 1
        BY <3>2, KindsApart
      <4>2. QED
        BY <4>1, SelectedSection
    <3>4. ~ Nothing(e, archive.es, archive.db, opt)
      BY WrittenIs DEF Coming
    <3>5. ~ (Kind(m) = "schema" /\ "public" \in Marks(m))
      <4>1. CASE m = e.o
        BY <3>2, <3>4, <4>1 DEF Nothing
      <4>2. CASE m \in objs /\ Ext(m) = e.o
        BY <3>1, <4>2, SourceFacts, ReferencesAssumption
      <4>3. QED
        BY <4>1, <4>2 DEF ComesWith, Members
    <3>6. QED
      BY <2>3, <3>3, <3>5, FactsAbout
  <2>5. GuardInv
    BY <2>3, FactsAbout DEF GuardInv, TableGuards
  <2>6. RowsInv
    BY <2>3, FactsLast DEF RowsInv
  <2>7. QED
    BY <2>4, <2>5, <2>6
<1>3. QED
  BY <1>1, <1>2
-----------------------------------------------------------------------------
(* The drops take the entries from the last to the first; nothing is       *)
(* written before they are over, and each leaves nothing or has failed.    *)
DropsInv ==
  phase \in Begun /\ drops # <<>> =>
     /\ opt.clean /\ Passed = {} /\ rendered = {}
     /\ Len(drops) \in 1..Len(todo)
     /\ \A i \in 1..Len(drops) : drops[i] = todo[Len(drops) + 1 - i]
     /\ \A i \in (Len(drops) + 1)..Len(todo) : Felled(todo[i])
     /\ server \subseteq SchemaFacts \cup DataFacts

Dropping ==
  /\ Planful /\ DumpInv /\ SortInv /\ DropsInv /\ phase = "write" /\ drops # <<>>

(* The entries after the one at hand had their DROP.                       *)
Dropped(c) == \E j \in (Len(drops) + 1)..Len(todo) : todo[j] = c

LEMMA AtDrop ==
  ASSUME Dropping
  PROVE  /\ Listed /\ Passed = {} /\ Len(drops) \in 1..Len(todo) /\ Len(todo) \in Nat
         /\ Head(drops) = todo[Len(drops)]
         /\ Head(drops) \in archive.selected /\ Head(drops) \in archive.es
         /\ Head(drops).o \in objs
<1>1. Listed
  BY DEF Dropping, DumpInv, TodoInv, SortInv, Listed
<1>2. /\ Passed = {} /\ Len(drops) \in 1..Len(todo)
      /\ \A i \in 1..Len(drops) : drops[i] = todo[Len(drops) + 1 - i]
  BY DEF Dropping, DropsInv, Begun
<1>3. drops \in Seq(archive.selected) /\ drops # <<>> /\ todo \in Seq(archive.selected)
  BY DEF Dropping, DumpInv, TodoInv
<1>4. Len(todo) \in Nat /\ Len(drops) \in Nat \ {0} /\ Head(drops) = drops[1]
  BY <1>3, Behead
<1>5. 1 \in 1..Len(drops) /\ Len(drops) + 1 - 1 = Len(drops)
  BY <1>4
<1>6. Head(drops) = todo[Len(drops)]
  BY <1>2, <1>4, <1>5
<1>7. Head(drops) \in archive.selected
  BY <1>3, <1>4, <1>5
<1>8. QED
  BY <1>1, <1>2, <1>4, <1>6, <1>7, WantedIs, OwnEntryMade DEF Dropping

(* They are those linked to it, those of later sections, and with a type   *)
(* or an extension at hand the tables.                                     *)
LEMMA DroppedBefore ==
  ASSUME Dropping, NEW e, e = Head(drops), NEW c \in archive.selected, c # e,
         \/ Linked(c, e) \/ SectionOf(e) < SectionOf(c)
         \/ c.t = "table" /\ e.t \in EarlyKinds
  PROVE  Dropped(c) /\ Felled(c)
<1> DEFINE k == Len(drops)
<1>1. /\ Listed /\ Passed = {} /\ k \in 1..Len(todo) /\ Len(todo) \in Nat /\ e = todo[k]
  BY AtDrop
<1>2. PICK j \in 1..Len(todo) : todo[j] = c
  BY <1>1 DEF Passed, ToSet
<1>3. k < j
  <2> SUFFICES ASSUME ~ (k < j) PROVE FALSE
    OBVIOUS
  <2>1. j < k /\ j # k /\ k \in j..Len(todo)
    BY <1>1, <1>2
  <2>2. CASE Linked(c, e)
    <3>1. PICK i \in 1..(j - 1) : todo[i] = e
      BY <1>1, <1>2, <2>2 DEF Linked, Listed, Ordering, Behindhand
    <3>2. i \in 1..Len(todo) /\ i # k
      BY <1>1, <1>2, <2>1, <3>1
    <3>3. QED
      BY <1>1, <3>1, <3>2 DEF Listed, Ordering, Distinct
  <2>3. CASE SectionOf(e) < SectionOf(c)
    <3>1. SectionOf(c) <= SectionOf(e)
      BY <1>1, <1>2, <2>1 DEF Listed, Ordering, BySection
    <3>2. SectionOf(c) \in 0..2 /\ SectionOf(e) \in 0..2
      BY KindsApart
    <3>3. QED
      BY <2>3, <3>1, <3>2
  <2>4. CASE c.t = "table" /\ e.t \in EarlyKinds
    BY <1>1, <1>2, <2>1, <2>4, EarlyBefore
  <2>5. QED
    BY <2>2, <2>3, <2>4
<1>4. j \in (k + 1)..Len(todo)
  BY <1>1, <1>2, <1>3
<1>5. Felled(c)
  BY <1>2, <1>4 DEF Dropping, DropsInv, Begun
<1>6. QED
  BY <1>2, <1>4, <1>5 DEF Dropped

(* An object is gone with the entry at hand only if that entry brings it,  *)
(* when it is one that others may hold on to, no sequence of a table and   *)
(* no member that is dropped by itself.                                    *)
LEMMA GoneIsProvided ==
  ASSUME Dropping, NEW e, e = Head(drops), e.t \in Kinds, MemberOf(e) = 0,
         NEW facts, NEW y \in GoesWith(e.o, objs, facts),
         Kind(y) \in Referable, Kind(y) = "sequence" \/ Unmarked(y) => y = e.o
  PROVE  y \in objs /\ Provider(y) = e
<1>1. Planful /\ e \in archive.es /\ e.o \in objs
  BY AtDrop DEF Dropping
<1>2. e = ObjectEntry(e.o) /\ Keeper(e.o) = 0
  BY <1>1, OwnEntryMade
<1>3. y \in objs
  BY <1>1, Going
<1>5. e.o # 0
  BY <1>1, SourceFacts
<1>4. y = e.o \/ Keeper(y) = e.o
  <2>1. Kind(y) \notin Attached
    BY DEF Referable, Attached
  <2>2. y = e.o \/ Ext(y) = e.o
    BY <1>1, <2>1, GoingReferred
  <2>3. QED
    BY <1>5, <2>2, KeeperIs
<1>6. CASE y = e.o
  BY <1>2, <1>3, <1>6 DEF Provider
<1>7. CASE Keeper(y) = e.o
  BY <1>1, <1>2, <1>3, <1>5, <1>7, OwnEntry DEF Provider
<1>8. QED
  BY <1>3, <1>4, <1>6, <1>7

(* The entry c drops x, and had its turn.                                  *)
LEMMA NotThere ==
  ASSUME Dropping, NEW e, e = Head(drops), NEW p \in archive.db, Keeper(p) = 0,
         NEW x \in Parts(p, objs), ~ Absent(x),
         HasDrop(ObjectEntry(p), archive.es, archive.db, opt),
         ObjectEntry(p) \in archive.selected, ObjectEntry(p) # e,
         \/ Linked(ObjectEntry(p), e) \/ SectionOf(e) < SectionOf(ObjectEntry(p))
         \/ ObjectEntry(p).t = "table" /\ e.t \in EarlyKinds
  PROVE  Fact("object", x) \notin server
<1>1. Planful /\ p \in objs
  BY SourceFacts DEF Dropping
<1>2. Felled(ObjectEntry(p))
  BY DroppedBefore
<1>3. QED
  BY <1>1, <1>2, FelledPart

(* What stands in the way of a DROP is explained.                          *)
LEMMA DropBlockKnown ==
  ASSUME Dropping, NEW e, e = Head(drops), e.t \in Kinds, MemberOf(e) = 0,
         NEW gone, gone = GoesWith(e.o, objs, server),
         NEW x \in Dependents(gone, objs, server)
  PROVE  x # e.o /\ (\/ Absent(x) \/ Undropped(x)
                      \/ HeldUnlinked(x, e.o) \/ OwnerRefuses(x, e.o))
<1>1. Planful /\ e \in archive.es /\ e.o \in objs /\ e = ObjectEntry(e.o) /\ Keeper(e.o) = 0
  <2>1. Planful /\ e \in archive.es
    BY AtDrop DEF Dropping
  <2>2. QED
    BY <2>1, OwnEntryMade
<1>2. /\ x \in objs /\ x \notin gone /\ Fact("object", x) \in server
      /\ (Holds(x) \cup Members(x, objs)) \cap gone # {}
  BY DEF Dependents
<1>3. x # e.o
  BY <1>1, <1>2, Going
<1> SUFFICES ASSUME ~ Absent(x), ~ Undropped(x), ~ HeldUnlinked(x, e.o),
                    ~ OwnerRefuses(x, e.o)
             PROVE  FALSE
  BY <1>3
<1>4. gone \subseteq GoesWith(e.o, objs, SchemaFacts)
  <2>1. server \subseteq SchemaFacts \cup DataFacts
    BY DEF Dropping, DropsInv, Begun
  <2>2. \A q : Fact("owned", q) \notin DataFacts
    BY FactsLast DEF DataFacts
  <2>3. QED
    BY <1>1, <2>1, <2>2, GoingMore
<1>13. ASSUME NEW y \in Members(x, objs) \cap gone PROVE FALSE
  <2>1. y \in objs /\ y \in Ids /\ Ext(y) = x /\ x # 0
    BY <1>1, <1>2, SourceFacts DEF Members
  <2>2. Kind(y) \notin Attached
    BY <2>1, ReferencesAssumption
  <2>3. ~ (y = e.o /\ Unmarked(e.o)) /\ ~ (Kind(y) = "sequence" /\ y # e.o)
    BY <1>4, <1>13 DEF OwnerRefuses
  <2>4. y # e.o
    BY <1>1, <2>1, <2>3, KeeperIs
  <2>5. Ext(y) = e.o
    BY <1>1, <1>13, <2>2, <2>3, <2>4, GoingReferred
  <2>6. QED
    BY <1>3, <2>1, <2>5
<1>5. PICK y \in Holds(x) \cap gone : TRUE
  BY <1>2, <1>13
<1>6. /\ ~ Unlinked(x, y) /\ ObjectEntry(y) \in archive.es
      /\ Kind(y) = "sequence" \/ Unmarked(y) => y = e.o
  BY <1>4, <1>5 DEF HeldUnlinked
<1>7. /\ x \in archive.db /\ ~ HardExcluded(ObjectEntry(x), opt) /\ x \in Ids /\ 0 \notin Ids
      /\ Kind(x) \in OptionalKinds => Kind(x) \in opt.include
      /\ x \in Parts(x, objs) /\ y # x
  BY <1>1, <1>2, <1>5, PartOf, SharesFate, SourceFacts
<1>8. /\ PassesFilter(ObjectEntry(x), archive.db, opt.filter) /\ Keeper(x) = 0
      /\ ~ Incomplete(ObjectEntry(x)) /\ ~ (Kind(x) \in LaterKinds /\ opt.target = "old")
      /\ HasEntry(x)
  BY KeeperIs DEF Undropped
<1> DEFINE c == ObjectEntry(x)
<1>9. c.t = Kind(x) /\ c.o = x /\ MemberOf(c) = 0 /\ c # e
  BY <1>1, <1>2, <1>3, <1>8, OwnEntry
<1>10. CASE Kind(x) = "foreign-key"
  <2>1. On(x) \in objs /\ Kind(On(x)) = "table" /\ On(x) # 0
    <3>1. On(x) \in Ids /\ Kind(On(x)) = "table"
      BY <1>7, <1>10, ReferencesAssumption DEF Attached
    <3>2. QED
      BY <1>1, <1>2, <1>7, <3>1, SourceFacts
  <2>2. x \in TableGuards
    BY <1>2, <1>10, <2>1 DEF TableGuards
  <2>3. PICK k \in TableGuards :
           x \in Parts(k, objs) /\ (Kind(k) = "foreign-key" => "child" \notin Marks(k))
    BY <1>1, <2>2, GuardRoot
  <2>4. k \in objs /\ Kind(k) \in {"foreign-key", "trigger"} /\ Kind(On(k)) = "table"
    BY DEF TableGuards
  <2>5. k \in archive.db /\ Keeper(k) = 0 /\ ObjectEntry(k) \in archive.selected
    BY <1>1, <2>3, <2>4, AttachedSelected DEF Attached
  <2>6. HasDrop(ObjectEntry(k), archive.es, archive.db, opt)
    BY <1>1, <2>4, <2>5, DropMade DEF LaterKinds
  <2>7. Kind(y) = "table" /\ y \in objs
    <3>1. y \in Needed(x)
      BY <1>5, <2>1 DEF Holds
    <3>2. PICK u \in Uses(x) : u.to = y /\ u.how \notin {"owned", "part"}
      BY <3>1 DEF Needed
    <3>3. y \in objs /\ UsesFit(x, u)
      BY <1>1, <1>2, <3>2, SourceFacts
    <3>4. u.how \in RecordedUses(x)
      BY <3>3 DEF UsesFit
    <3>5. u.how = "object"
      BY <1>6, <1>10, <3>2, <3>4 DEF RecordedUses, Unlinked
    <3>6. QED
      BY <1>10, <3>2, <3>3, <3>5 DEF UsesFit
  <2>8. e.t \in {"table", "extension"}
    <3>1. Provider(y) = e
      BY <1>5, <1>6, <2>7, GoneIsProvided DEF Referable
    <3>2. QED
      BY <1>1, <2>7, <3>1, OwnEntry DEF Provider
  <2>9. SectionOf(e) < SectionOf(ObjectEntry(k)) /\ ObjectEntry(k) # e
    <3>1. SectionOf(e) = 0
      BY <2>8 DEF SectionOf, PreData
    <3>2. ObjectEntry(k).t \in {"foreign-key", "trigger"}
      BY <1>1, <2>4, OwnEntry
    <3>3. SectionOf(ObjectEntry(k)) = 2
      BY <3>2 DEF SectionOf, PreData, Data
    <3>4. QED
      BY <3>1, <3>3
  <2>10. QED
    BY <1>2, <2>3, <2>5, <2>6, <2>9, NotThere
<1>11. CASE Kind(x) # "foreign-key"
  <2>1. Kind(x) \notin {"constraint", "index"}
    <3> SUFFICES ASSUME Kind(x) \in {"constraint", "index"} PROVE FALSE
      OBVIOUS
    <3>1. On(x) # 0
      BY <1>7, ReferencesAssumption DEF Attached
    <3>2. y \in Needed(x)
      BY <1>5, <3>1 DEF Holds
    <3>3. PICK u \in Uses(x) : u.to = y /\ u.how \notin {"owned", "part"}
      BY <3>2 DEF Needed
    <3>4. u.how \in RecordedUses(x)
      BY <1>1, <1>2, <3>3, SourceFacts DEF UsesFit
    <3>5. u.how = "text"
      BY <3>3, <3>4 DEF RecordedUses
    <3>6. QED
      BY <1>6, <3>3, <3>5 DEF Unlinked
  <2>2. c \in archive.es
    BY <1>1, <1>7, <1>8, <1>11, <2>1, EntriesMade
  <2>3. c \in archive.selected
    <3>1. c \in Wanted
      BY <1>1, <1>7, <1>8, <2>2, WantedIs DEF Explicit
    <3>2. QED
      BY <1>1, <1>9, <3>1, WantedIs
  <2>4. CASE Kind(x) = "sequence" /\ IdentitySequence(x, archive.db, opt)
    <3>1. y \notin Needed(x)
      BY <1>1, <1>6, <1>9, <2>2, <2>4, NeedLinked
    <3>2. y = Schema(x) /\ On(x) = 0
      BY <1>5, <3>1 DEF Holds
    <3>3. PICK t \in archive.db : t \in UsesOf(x, {"owned"}) /\ "identity" \in Marks(t)
      BY <1>1, <2>4, IdentityKnown
    <3>4. t \in objs /\ Kind(t) = "table" /\ Schema(t) = y /\ Keeper(t) = 0
      BY <1>1, <1>2, <1>8, <3>2, <3>3, OwnedByTable
    <3>5. x \in DirectParts(t, objs)
      BY <1>2, <3>3 DEF DirectParts
    <3>6. x \in Parts(t, objs)
      BY <3>4, <3>5, PartOf
    <3> DEFINE d == ObjectEntry(t)
    <3>7. d \in archive.es /\ d.t = "table" /\ d.o = t /\ MemberOf(d) = 0
      BY <1>1, <3>3, <3>4, TableWanted, OwnEntry
    <3>8. ~ HardExcluded(d, opt)
      BY <1>1, <3>4, <3>6, SharesFate
    <3>9. d \in archive.selected
      <4>1. d \in Wanted
        BY <1>1, <3>3, <3>4, <3>7, <3>8, TableWanted DEF ObjectEntry
      <4>2. QED
        BY <1>1, <3>7, <4>1, WantedIs
    <3>10. HasDrop(d, archive.es, archive.db, opt)
      BY <1>1, <3>3, <3>4, DropMade DEF LaterKinds
    <3>11. y \in objs /\ Kind(y) = "schema" /\ y # 0
      BY <1>1, <1>2, <1>5, <1>7, <3>2, Going, SourceFacts, CatalogAssumption
    <3>12. Provider(y) = e /\ e.t \in {"schema", "extension"}
      BY <1>1, <1>5, <1>6, <3>11, GoneIsProvided, OwnEntry DEF Referable, Provider
    <3>13. ObjectEntry(y) \in HardTargets(d, archive.db) /\ ObjectEntry(y) # d
      <4>1. FiledUnder(t) = y
        BY <3>4 DEF FiledUnder
      <4>2. ObjectEntry(y) \in SchemaEdges(d)
        BY <3>7, <3>11, <4>1 DEF SchemaEdges, ObjectEntry
      <4>3. QED
        BY <1>1, <3>4, <3>7, <3>11, <4>2, OwnEntry DEF HardTargets
    <3>14. Linked(d, e) /\ d # e
      BY <1>1, <1>6, <3>7, <3>11, <3>12, <3>13, ProviderLinked
    <3> HIDE DEF d
    <3>15. QED
      BY <1>2, <3>3, <3>4, <3>6, <3>9, <3>10, <3>14, NotThere DEF d
  <2>5. CASE ~ (Kind(x) = "sequence" /\ IdentitySequence(x, archive.db, opt))
    <3>1. HasDrop(c, archive.es, archive.db, opt)
      BY <1>1, <1>7, <1>8, <2>1, <2>5, DropMade
    <3>2. /\ y \in objs /\ Kind(y) \in Referable
          /\ \/ ObjectEntry(y) \in HardTargets(c, archive.db)
             \/ Kind(x) = "table" /\ Kind(y) \in {"enum", "domain"}
      <4>1. CASE y \in Needed(x)
        BY <1>1, <1>6, <1>9, <2>2, <4>1, NeedLinked
      <4>2. CASE y \notin Needed(x)
        <5>1. y = Schema(x) /\ On(x) = 0
          BY <1>5, <4>2 DEF Holds
        <5>2. y \in objs /\ y # 0 /\ Kind(y) = "schema"
          BY <1>1, <1>2, <1>5, <1>7, <5>1, Going, SourceFacts, CatalogAssumption
        <5>3. Kind(x) # "schema"
          BY <1>7, <5>1, <5>2, ReferencesAssumption
        <5>4. FiledUnder(x) = y
          BY <5>1, <5>3 DEF FiledUnder
        <5>5. ObjectEntry(y) \in SchemaEdges(c)
          BY <1>9, <5>2, <5>3, <5>4 DEF SchemaEdges, ObjectEntry
        <5>6. QED
          BY <5>2, <5>5 DEF HardTargets, Referable
      <4>3. QED
        BY <4>1, <4>2
    <3>3. Provider(y) = e
      BY <1>5, <1>6, <3>2, GoneIsProvided
    <3>4. ObjectEntry(y) # c
      BY <1>1, <1>7, <1>9, <3>2, OwnEntry
    <3>5. \/ Linked(c, e)
          \/ c.t = "table" /\ e.t \in EarlyKinds
      <4>1. CASE ObjectEntry(y) \in HardTargets(c, archive.db)
        BY <1>1, <1>6, <2>2, <3>2, <3>3, <3>4, <4>1, ProviderLinked
      <4>2. CASE Kind(x) = "table" /\ Kind(y) \in {"enum", "domain"}
        BY <1>1, <1>9, <3>2, <3>3, <4>2, OwnEntry DEF Provider, EarlyKinds
      <4>3. QED
        BY <3>2, <4>1, <4>2
    <3>6. QED
      BY <1>2, <1>7, <1>8, <1>9, <2>3, <3>1, <3>5, NotThere
  <2>6. QED
    BY <2>4, <2>5
<1>12. QED
  BY <1>10, <1>11
-----------------------------------------------------------------------------
(* The server before the dump, and when the statements that create begin.  *)
StartInv == phase \notin Begun => server = Before

ReadyInv ==
  phase \in Begun /\ drops = <<>> => Fresh \/ (NotYetInv /\ GuardInv /\ RowsInv)

(* The inductive invariant of the replay.                                  *)
ReplayInv ==
  /\ DumpInv /\ SortInv /\ WarnedInv /\ WrittenInv /\ PublicInv
  /\ StartInv /\ DropsInv /\ ReadyInv /\ RanInv

(* Facts of the server are facts of the source, and the facts of the       *)
(* source stay the same.                                                   *)
LEMMA SourceSteady ==
  ASSUME src' = src
  PROVE  /\ objs' = objs /\ opt' = opt /\ (SchemaFacts)' = SchemaFacts
         /\ (DataFacts)' = DataFacts /\ (Before)' = Before
<1>1. objs' = objs /\ opt' = opt
  BY DEF objs, opt
<1>2. (SchemaFacts)' = SchemaFacts
  BY <1>1 DEF SchemaFacts, GrantFacts
<1>3. (DataFacts)' = DataFacts
  BY <1>1 DEF DataFacts
<1>4. (Before)' = Before
  BY <1>1, <1>2, <1>3 DEF Before, Publics
<1>5. QED
  BY <1>1, <1>2, <1>3, <1>4

(* What a DROP left stays away.                                            *)
LEMMA FelledStays ==
  ASSUME Steady, server' \subseteq server, NEW e, Felled(e)
  PROVE  Felled(e)'
<1>1. objs' = objs /\ opt' = opt /\ archive' = archive
  BY AbsentStays DEF Steady
<1>2. HasDrop(e, archive.es, archive.db, opt)'
        => HasDrop(e, archive.es, archive.db, opt)
  BY <1>1
<1>3. CASE HasDrop(e, archive.es, archive.db, opt) /\ MemberOf(e) = 0
  <2>1. CASE DropFailed(e)
    BY <2>1, AbsentStays DEF Felled
  <2>2. CASE \A x \in Parts(e.o, objs) : {Fact("object", x), Fact("rows", x)} \cap server = {}
    <3>1. \A x \in Parts(e.o, objs') : {Fact("object", x), Fact("rows", x)} \cap server' = {}
      BY <1>1, <2>2
    <3>2. QED
      BY <3>1 DEF Felled
  <2>3. QED
    BY <1>3, <2>1, <2>2 DEF Felled
<1>4. QED
  BY <1>2, <1>3 DEF Felled

(* A DROP: it takes what goes with its object, or fails with reason.       *)
LEMMA DropDone ==
  ASSUME Dropping, RanInv, DropNext, NEW e, e = Head(drops)
  PROVE  /\ Steady /\ server' \subseteq server
         /\ RanInv' /\ Felled(e)'
<1> DEFINE gone == GoesWith(e.o, objs, server)
           there == Fact("object", e.o) \in server
           left == IF there THEN Dependents(gone, objs, server) ELSE {}
           foreign == IF "foreign" \in Marks(e.o) THEN {e.o} ELSE {}
           run == Statement(e, TRUE, tx, {}, Objects(left \cup foreign))
           mine == HasDrop(e, archive.es, archive.db, opt) /\ MemberOf(e) = 0
<1>1. /\ src' = src /\ archive' = archive /\ warned' = warned /\ skipped' = skipped
      /\ ~ mine => server' = server /\ ran' = ran
      /\ mine => /\ ran' = ran \cup {run}
                 /\ server' = IF Failing(run) THEN server ELSE {x \in server : x.o \notin gone}
  BY DEF DropNext, accounts
<1>2. run.e = e /\ run.drop /\ run.missing = {} /\ run.blocking = Objects(left \cup foreign)
  BY DEF Statement
<1> HIDE DEF run, left, gone
<1>3. Steady /\ server' \subseteq server
  BY <1>1 DEF Steady, mine
<1>4. Planful /\ e.o \in objs /\ e \in archive.es
  BY AtDrop DEF Dropping
<1>5. ASSUME mine PROVE Explained(run)
  <2>1. e.t \in Kinds /\ MemberOf(e) = 0
    BY <1>5 DEF HasDrop, Droppable, Kinds
  <2>2. ASSUME NEW x \in run.blocking PROVE DropBlockExplained(run, x)
    <3>1. PICK z \in left \cup foreign : x = Fact("object", z)
      BY <1>2, <2>2 DEF Objects
    <3>2. x.o = z
      BY <3>1, FactsAbout
    <3>3. CASE z \in left
      <4>1. z \in Dependents(gone, objs, server)
        BY <3>3 DEF left
      <4>2. z # e.o /\ (\/ Absent(z) \/ Undropped(z)
                         \/ HeldUnlinked(z, e.o) \/ OwnerRefuses(z, e.o))
        BY <2>1, <4>1, DropBlockKnown DEF gone
      <4>3. QED
        BY <1>2, <3>2, <4>2 DEF DropBlockExplained
    <3>4. CASE z \in foreign
      BY <1>2, <3>2, <3>4 DEF DropBlockExplained
    <3>5. QED
      BY <3>1, <3>3, <3>4
  <2>3. QED
    BY <1>2, <2>2 DEF Explained, BlockingExplained
<1>6. RanInv'
  <2> SUFFICES ASSUME NEW r \in ran' PROVE Explained(r)'
    BY DEF RanInv
  <2>1. r \in ran \/ (mine /\ r = run)
    BY <1>1
  <2>2. Explained(r)
    BY <1>5, <2>1 DEF RanInv
  <2>3. QED
    BY <1>3, <2>2, ExplainedStays
<1>7. Felled(e)'
  <2>1. objs' = objs /\ opt' = opt
    BY <1>3, AbsentStays
  <2>2. CASE ~ mine
    BY <1>1, <2>1, <2>2 DEF Felled
  <2>3. CASE mine /\ Failing(run)
    <3>1. DropFailed(e)'
      BY <1>1, <1>2, <2>3 DEF DropFailed
    <3>2. QED
      BY <3>1 DEF Felled
  <2>4. CASE mine /\ ~ Failing(run)
    <3>1. Parts(e.o, objs) \subseteq gone
      BY <1>4, Going DEF gone
    <3>2. \A x \in server' : x.o \notin gone
      BY <1>1, <2>4
    <3>3. \A x \in Parts(e.o, objs') :
             Fact("object", x) \notin server' /\ Fact("rows", x) \notin server'
      BY <2>1, <3>1, <3>2, FactsAbout
    <3>4. \A x \in Parts(e.o, objs') : {Fact("object", x), Fact("rows", x)} \cap server' = {}
      BY <3>3
    <3>5. QED
      BY <3>4 DEF Felled
  <2>5. QED
    BY <2>2, <2>3, <2>4
<1>8. QED
  BY <1>3, <1>6, <1>7

(* It keeps the invariant, and with the last one all is ready.             *)
LEMMA DropKeeps ==
  ASSUME ReplayInv, Planful, DropNext,
         NEW e, e = Head(drops), NEW k, k = Len(drops), NEW r, r = Tail(drops)
  PROVE  WarnedInv' /\ WrittenInv' /\ PublicInv' /\ StartInv' /\ DropsInv' /\ ReadyInv' /\ RanInv'
<1>1. /\ phase = "write" /\ phase' = "write" /\ drops # <<>> /\ drops' = r
      /\ src' = src /\ archive' = archive /\ todo' = todo
      /\ rendered' = rendered /\ warned' = warned /\ unavailable' = unavailable
  BY DEF DropNext, accounts
<1>2. Dropping /\ RanInv /\ WarnedInv
  BY <1>1 DEF ReplayInv, Dropping
<1>3. /\ Steady /\ server' \subseteq server /\ RanInv' /\ Felled(e)'
  BY <1>2, DropDone
<1>4. objs' = objs /\ opt' = opt /\ (SchemaFacts)' = SchemaFacts /\ (DataFacts)' = DataFacts
  BY <1>1, SourceSteady
<1>5. /\ opt.clean /\ Passed = {} /\ rendered = {} /\ k \in 1..Len(todo)
      /\ \A i \in 1..k : drops[i] = todo[k + 1 - i]
      /\ \A i \in (k + 1)..Len(todo) : Felled(todo[i])
      /\ server \subseteq SchemaFacts \cup DataFacts
  BY <1>1 DEF ReplayInv, DropsInv, Begun
<1>6. /\ Len(todo) \in Nat /\ k \in Nat /\ k # 0 /\ e = todo[k]
      /\ Len(r) = k - 1 /\ r \in Seq(archive.selected)
      /\ \A i \in 1..Len(r) : i + 1 \in 1..k /\ r[i] = drops[i + 1]
  BY <1>1, <1>2, AtDrop, Behead DEF Dropping, DumpInv, TodoInv
<1>7. Passed' = Passed
  BY <1>1 DEF Passed
<1>8. ASSUME NEW i \in k..Len(todo), NEW c, c = todo[i] PROVE Felled(c)'
  <2>1. i = k \/ i \in (k + 1)..Len(todo)
    BY <1>6
  <2>2. CASE i = k
    BY <1>3, <1>6, <1>8, <2>2
  <2>3. CASE i \in (k + 1)..Len(todo)
    BY <1>3, <1>5, <1>8, <2>3, FelledStays
  <2>4. QED
    BY <2>1, <2>2, <2>3
<1>9. ASSUME r # <<>> PROVE DropsInv'
  <2>1. Len(r) \in Nat /\ Len(r) # 0
    BY <1>6, <1>9
  <2>2. Len(r) \in 1..Len(todo)
    BY <1>5, <1>6, <2>1
  <2>3. \A i \in 1..Len(r) : r[i] = todo[Len(r) + 1 - i]
    <3> SUFFICES ASSUME NEW i \in 1..Len(r) PROVE r[i] = todo[Len(r) + 1 - i]
      OBVIOUS
    <3>1. i + 1 \in 1..k /\ r[i] = drops[i + 1]
      BY <1>6
    <3>2. drops[i + 1] = todo[k + 1 - (i + 1)]
      BY <1>5, <3>1
    <3>3. k + 1 - (i + 1) = Len(r) + 1 - i
      BY <1>6, <2>1
    <3>4. QED
      BY <3>1, <3>2, <3>3
  <2>4. \A i \in (Len(r) + 1)..Len(todo) : i \in k..Len(todo)
    BY <1>6, <2>1
  <2>5. \A i \in (Len(r) + 1)..Len(todo') : Felled(todo[i])'
    <3> SUFFICES ASSUME NEW i \in (Len(r) + 1)..Len(todo) PROVE Felled(todo[i])'
      BY <1>1
    <3>1. PICK c : c = todo[i]
      OBVIOUS
    <3>2. Felled(c)'
      BY <1>8, <2>4, <3>1
    <3>3. QED
      BY <1>1, <3>1, <3>2
  <2>6. server' \subseteq SchemaFacts \cup DataFacts
    BY <1>3, <1>5
  <2>7. QED
    BY <1>1, <1>4, <1>5, <1>7, <2>2, <2>3, <2>5, <2>6 DEF DropsInv
<1>10. ASSUME r = <<>> PROVE Fresh'
  <2>1. k = 1
    <3>1. Len(r) = 0
      BY <1>10
    <3>2. QED
      BY <1>6, <3>1
  <2>2. ASSUME NEW c \in archive.selected PROVE Felled(c)'
    <3>1. PICK i \in 1..Len(todo) : todo[i] = c
      BY <1>5 DEF Passed, ToSet
    <3>2. QED
      BY <1>8, <2>1, <3>1
  <2>3. \A c \in archive.selected : Felled(c)'
    BY <2>2
  <2>4. QED
    BY <1>1, <1>4, <1>5, <2>3 DEF Fresh
<1>11. DropsInv' /\ ReadyInv'
  BY <1>1, <1>9, <1>10 DEF DropsInv, ReadyInv
<1>12. WarnedInv' /\ WrittenInv' /\ PublicInv' /\ StartInv'
  BY <1>1, <1>2, <1>4, <1>5 DEF WarnedInv, WrittenInv, PublicInv, StartInv, Begun
<1>13. QED
  BY <1>3, <1>11, <1>12

(* Preflight over, every entry is still to come, and the server as before. *)
LEMMA CheckKeeps ==
  ASSUME ReplayInv, Planful, Check
  PROVE  WarnedInv' /\ WrittenInv' /\ PublicInv' /\ StartInv' /\ DropsInv' /\ ReadyInv' /\ RanInv'
<1>1. /\ phase = "preflight" /\ phase' \in {"refused", "reported", "write"}
      /\ phase' = "write" => drops' = IF opt.clean THEN Reverse(todo) ELSE <<>>
      /\ src' = src /\ archive' = archive /\ todo' = todo /\ server' = server /\ ran' = ran
      /\ rendered' = rendered /\ warned' = warned /\ unavailable' = unavailable
  BY DEF Check, accounts
<1>2. /\ server = Before /\ ran = {} /\ rendered = {} /\ Passed = {} /\ drops = <<>>
      /\ todo \in Seq(archive.selected) /\ WarnedInv /\ PublicInv
  BY <1>1 DEF ReplayInv, StartInv, DumpInv, FrameInv, AccountInv, TodoInv, Begun
<1>3. /\ objs' = objs /\ opt' = opt /\ (SchemaFacts)' = SchemaFacts
      /\ (DataFacts)' = DataFacts /\ (Before)' = Before
  BY <1>1, SourceSteady
<1>4. Passed' = Passed
  BY <1>1 DEF Passed
<1>5. DropsInv'
  <2> SUFFICES ASSUME phase' = "write", drops' # <<>> PROVE DropsInv'
    BY <1>1 DEF DropsInv, Begun
  <2>1. opt.clean /\ drops' = Reverse(todo)
    BY <1>1
  <2> DEFINE r == Reverse(todo)
             n == Len(todo)
  <2>2. n \in Nat /\ Len(r) = n /\ \A i \in 1..n : r[i] = todo[n + 1 - i]
    <3>1. n \in Nat
      BY <1>2
    <3>2. \A i \in 1..n : (n - i) + 1 = n + 1 - i
      BY <3>1
    <3>3. r = [i \in 1..n |-> todo[(n - i) + 1]]
      BY DEF Reverse
    <3>4. Len(r) = n
      BY <3>1, <3>3
    <3>5. QED
      BY <3>1, <3>2, <3>3, <3>4
  <2>3. n # 0
    BY <1>2, <2>1, ReverseOf
  <2> HIDE DEF r
  <2>4. Len(r) \in 1..n
    BY <2>2, <2>3
  <2>5. \A i \in 1..Len(r) : r[i] = todo[Len(r) + 1 - i]
    BY <2>2
  <2>6. (Len(r) + 1)..n = {}
    BY <2>2
  <2>7. server \subseteq SchemaFacts \cup DataFacts
    BY <1>2, <2>1 DEF Before
  <2>8. drops' = r
    BY <2>1 DEF r
  <2> HIDE DEF n
  <2>9. Len(todo') = n
    BY <1>1 DEF n
  <2>10. QED
    BY <1>1, <1>2, <1>3, <1>4, <2>1, <2>4, <2>5, <2>6, <2>7, <2>8, <2>9 DEF DropsInv
<1>6. ReadyInv'
  <2> SUFFICES ASSUME phase' = "write", drops' = <<>> PROVE Fresh'
    BY <1>1 DEF ReadyInv, Begun
  <2>1. CASE opt.clean
    <3>1. Reverse(todo) = <<>>
      BY <1>1, <2>1
    <3>2. Len(todo) = 0
      BY <1>2, <3>1 DEF Reverse
    <3>3. archive.selected = {}
      BY <1>2, <3>2 DEF Passed, ToSet
    <3>4. QED
      BY <1>1, <1>2, <1>3, <2>1, <3>3 DEF Fresh
  <2>2. CASE ~ opt.clean
    BY <1>1, <1>2, <1>3, <2>2 DEF Fresh
  <2>3. QED
    BY <2>1, <2>2
<1>7. WarnedInv' /\ WrittenInv' /\ PublicInv' /\ StartInv' /\ RanInv'
  <2>1. PublicInv'
    BY <1>1, <1>2, <1>3 DEF PublicInv, Publics
  <2>2. QED
    BY <1>1, <1>2, <1>3, <2>1 DEF WarnedInv, WrittenInv, StartInv, RanInv
<1>8. QED
  BY <1>5, <1>6, <1>7

(* A turn: what it writes is explained, and what comes after stays so.     *)
LEMMA TurnKeeps ==
  ASSUME ReplayInv, Planful, Entryward, NEW h, h = Head(todo)
  PROVE  WarnedInv' /\ WrittenInv' /\ PublicInv' /\ StartInv' /\ DropsInv' /\ ReadyInv' /\ RanInv'
<1>1. /\ Turn /\ src' = src /\ archive' = archive /\ drops' = drops
      /\ phase' \in {"write", "failed"}
  BY EntrywardTurns
<1>2. phase = "write" /\ drops = <<>> /\ todo # <<>>
  BY <1>1 DEF Turn
<1>3. Replaying /\ RanInv
  BY <1>2 DEF ReplayInv, Replaying
<1>4. NotYetInv /\ GuardInv /\ RowsInv
  <2>1. Fresh \/ (NotYetInv /\ GuardInv /\ RowsInv)
    BY <1>2 DEF ReplayInv, ReadyInv, Begun
  <2>2. Typed
    BY DEF ReplayInv, DumpInv
  <2>3. QED
    BY <2>1, <2>2, FreshIsReady
<1>5. PICK R : Steady /\ Added /\ Grown(R)
  BY TurnGrows DEF ReplayInv, DumpInv
<1>6. RanInv'
  BY <1>1, <1>3, <1>4, <1>5, TurnExplained
<1>7. WrittenInv' /\ PublicInv'
  BY <1>1, <1>3, <1>5, WrittenStays
<1>8. NotYetInv' /\ GuardInv' /\ RowsInv'
  BY <1>1, <1>3, <1>4, <1>5, OrderStays
<1>9. StartInv' /\ DropsInv' /\ ReadyInv'
  BY <1>1, <1>2, <1>8 DEF StartInv, DropsInv, ReadyInv, Begun
<1>10. WarnedInv'
  <2>1. unavailable \subseteq warned
    BY <1>3 DEF Replaying, WarnedInv
  <2>2. CASE SkipUnavailable
    BY <2>1, <2>2 DEF SkipUnavailable, WarnedInv
  <2>3. CASE DataHook
    BY <2>1, <2>3 DEF DataHook, accounts, WarnedInv
  <2>4. CASE SkipOmitted
    BY <2>1, <2>4 DEF SkipOmitted, Unavailable, WarnedInv
  <2>5. CASE SkipUnwritten \/ SkipSilent \/ Write \/ RenderFails
    <3>1. unavailable' = unavailable /\ warned \subseteq warned'
      BY <2>5 DEF SkipUnwritten, SkipSilent, Write, RenderFails
    <3>2. QED
      BY <2>1, <3>1 DEF WarnedInv
  <2>6. QED
    BY <2>2, <2>3, <2>4, <2>5 DEF Entryward
<1>11. QED
  BY <1>6, <1>7, <1>9, <1>10

(* The other steps leave the server and what was run on it alone.          *)
LEMMA OthersKeep ==
  ASSUME ReplayInv, Plan \/ Finish \/ Cancel \/ UNCHANGED vars
  PROVE  WarnedInv' /\ WrittenInv' /\ PublicInv' /\ StartInv' /\ DropsInv' /\ ReadyInv' /\ RanInv'
<1>1. /\ src' = src /\ server' = server /\ ran' = ran /\ rendered' = rendered
      /\ warned' = warned /\ skipped' = skipped /\ unavailable' = unavailable /\ drops' = drops
      /\ phase' \in Begun <=> phase \in Begun
      /\ phase \in Begun => archive' = archive /\ todo' = todo
  BY DEF Plan, Finish, Cancel, vars, accounts, Begun
<1>2. /\ objs' = objs /\ opt' = opt /\ (SchemaFacts)' = SchemaFacts
      /\ (DataFacts)' = DataFacts /\ (Before)' = Before
  BY <1>1, SourceSteady
<1>3. WarnedInv' /\ StartInv'
  BY <1>1, <1>2 DEF ReplayInv, WarnedInv, StartInv
<1>4. PublicInv'
  <2>1. (Publics(objs))' = Publics(objs)
    BY <1>2 DEF Publics
  <2>2. QED
    BY <1>1, <1>2, <2>1 DEF ReplayInv, PublicInv
<1>5. WrittenInv'
  BY <1>1, <1>2 DEF ReplayInv, WrittenInv, Holding, MadeBy, Failed
<1>6. CASE phase \notin Begun
  <2>1. ran = {}
    BY <1>6 DEF ReplayInv, DumpInv, FrameInv
  <2>2. QED
    BY <1>1, <1>3, <1>4, <1>5, <1>6, <2>1 DEF DropsInv, ReadyInv, RanInv
<1>7. CASE phase \in Begun
  <2>1. archive' = archive /\ todo' = todo /\ Steady
    BY <1>1, <1>7 DEF Steady
  <2>2. Passed' = Passed
    BY <2>1 DEF Passed
  <2>3. RanInv'
    BY <1>1, <2>1, ExplainedStays DEF ReplayInv, RanInv
  <2>4. \A e : Felled(e) => Felled(e)'
    BY <1>1, <2>1, FelledStays
  <2>5. DropsInv'
    BY <1>1, <1>2, <1>7, <2>1, <2>2, <2>4 DEF ReplayInv, DropsInv
  <2>6. Fresh => Fresh'
    BY <1>1, <1>2, <2>1, <2>4 DEF Fresh
  <2>7. NotYetInv => NotYetInv'
    <3>1. \A e : Coming(e)' <=> Coming(e)
      BY <1>2, <2>1 DEF Coming, OutcomeOf
    <3>2. QED
      BY <1>1, <1>2, <2>1, <3>1, AbsentStays DEF NotYetInv, ComesWith
  <2>8. GuardInv => GuardInv'
    <3>1. (TableGuards)' = TableGuards
      BY <1>2 DEF TableGuards
    <3>2. QED
      BY <1>1, <1>2, <2>1, <3>1, AbsentStays DEF GuardInv
  <2>9. RowsInv => RowsInv'
    BY <1>1, <1>2, <2>1, AbsentStays DEF RowsInv
  <2>10. ReadyInv'
    BY <1>1, <1>7, <2>6, <2>7, <2>8, <2>9 DEF ReplayInv, ReadyInv
  <2>11. QED
    BY <1>3, <1>4, <1>5, <2>3, <2>5, <2>10
<1>8. QED
  BY <1>6, <1>7

(* The replay's invariant holds of a dump that has not begun, and every    *)
(* step keeps it.                                                          *)
LEMMA ReplayInit == ASSUME Init PROVE ReplayInv
<1>1. DumpInv
  BY InvInit
<1>2. /\ phase = "plan" /\ drops = <<>> /\ rendered = {} /\ unavailable = {} /\ warned = {}
      /\ server = Before /\ ran = {}
  BY DEF Init
<1>3. PublicInv
  <2> SUFFICES ASSUME ~ opt.clean PROVE Objects(Publics(objs)) \subseteq Before
    BY <1>2 DEF PublicInv
  <2>1. Publics(objs) \subseteq objs
    BY DEF Publics
  <2>2. Objects(Publics(objs)) \subseteq Objects(objs)
    BY <2>1 DEF Objects
  <2>3. Objects(objs) \subseteq SchemaFacts
    BY DEF SchemaFacts
  <2>4. QED
    BY <2>2, <2>3 DEF Before
<1>4. QED
  BY <1>1, <1>2, <1>3 DEF ReplayInv, SortInv, WarnedInv, WrittenInv, StartInv, DropsInv,
      ReadyInv, RanInv, Begun

LEMMA ReplayNext == ASSUME ReplayInv, [Next]_vars PROVE ReplayInv'
<1>1. DumpInv' /\ SortInv'
  BY InvNext, SortNext DEF ReplayInv, DumpInv
<1>2. phase \notin {"plan", "refused"} => Planful
  BY DEF ReplayInv, SortInv, DumpInv, ArchiveInv, Planful
<1>3. WarnedInv' /\ WrittenInv' /\ PublicInv' /\ StartInv' /\ DropsInv' /\ ReadyInv' /\ RanInv'
  <2>1. CASE Check
    <3>1. Planful
      BY <1>2, <2>1 DEF Check
    <3>2. QED
      BY <2>1, <3>1, CheckKeeps
  <2>2. CASE DropNext
    <3>1. Planful
      BY <1>2, <2>2 DEF DropNext
    <3>2. QED
      BY <2>2, <3>1, DropKeeps
  <2>3. CASE Entryward
    <3>1. Planful
      BY <1>2, <2>3, EntrywardTurns DEF Turn
    <3>2. QED
      BY <2>3, <3>1, TurnKeeps
  <2>4. CASE Plan \/ Finish \/ Cancel \/ UNCHANGED vars
    BY <2>4, OthersKeep
  <2>5. QED
    BY <2>1, <2>2, <2>3, <2>4 DEF Next, Entryward
<1>4. QED
  BY <1>1, <1>3 DEF ReplayInv

(* It holds throughout every dump.                                         *)
THEOREM ReplayInvariance == Spec => []ReplayInv
<1>1. Init => ReplayInv
  BY ReplayInit
<1>2. ReplayInv /\ [Next]_vars => ReplayInv'
  BY ReplayNext
<1>3. QED
  BY <1>1, <1>2, PTL DEF Spec

(* PlainSqlRenderer.ts, ArchiveBuilder.ts: replayed in its order, a        *)
(* statement of a dump misses or meets only what the archive could not     *)
(* know of or was told to leave out.                                       *)
THEOREM ReplayFailuresExplained == Spec => []FailuresExplained
<1>1. ReplayInv => FailuresExplained
  BY DEF ReplayInv, RanInv, Explained, FailuresExplained
<1>2. QED
  BY <1>1, ReplayInvariance, PTL

-----------------------------------------------------------------------------
(* The entries of access control that were written.                        *)
AclEntries == {e \in rendered : e.t = "acl"}
(* The statement of an entry that was written left what it creates, which  *)
(* stays there, but for what PUBLIC may use.                               *)
Left(e) == \A x \in Creates(e, objs, opt) : x.f # "public" => x \in server
KeptInv ==
  \A e \in rendered :
     /\ e.t # "materialized-view-data"
     /\ Failed(e) \/ (e.t \in Hooked /\ "foreign" \in Marks(e.o)) \/ Left(e)
(* An entry was skipped with a warning, or for one reason of two.          *)
SkippedInv ==
  \A e \in skipped : e \in warned \/ OutcomeOf(e) = "nothing" \/ MemberOf(e) # 0
(* PUBLIC may use what it may by default, where nothing was granted on it. *)
ByDefault(o) ==
  /\ Fact("object", o) \in server /\ Fact("public", o) \in SchemaFacts
  /\ Catalog[o].grants = {} \/ Kind(o) = "aggregate"
DefaultInv == \A o \in objs : ByDefault(o) => Fact("public", o) \in server
(* The objects whose access control was begun are known; what was granted  *)
(* to PUBLIC is not revoked again.                                         *)
GrantedInv ==
  /\ granted = {e.o : e \in AclEntries}
  /\ \A e \in AclEntries : e.g = Public => Failed(e) \/ Fact("public", e.o) \in server
(* What is not granted to PUBLIC was revoked before the first grant, but   *)
(* for procedures, whose privileges cannot be changed as those of          *)
(* functions.                                                              *)
Restricted(e) ==
  /\ e \in AclEntries /\ Kind(e.o) \in PublicByDefault /\ Public \notin Catalog[e.o].grants
RevokedInv ==
  \A e \in AclEntries : Restricted(e) =>
     \/ Failed(e) /\ (Fact("object", e.o) \notin server \/ Kind(e.o) = "procedure")
     \/ Fact("public", e.o) \notin server
(* Facts of the server are facts of the source, or defaults of PostgreSQL. *)
Sourced(x) ==
  \/ x \in SchemaFacts \cup DataFacts
  \/ x.o \in objs /\ x = Fact("public", x.o) /\ Kind(x.o) \in PublicByDefault
SourceInv == \A x \in server : Sourced(x)
(* Grants come last.                                                       *)
LastInv == AclEntries # {} => \A d \in ToSet(todo) : SectionOf(d) = 2
FactsInv ==
  /\ KeptInv /\ SkippedInv /\ DefaultInv /\ GrantedInv /\ RevokedInv /\ SourceInv /\ LastInv

-----------------------------------------------------------------------------
(* A fact by its parts.                                                    *)
LEMMA FactIs ==
  /\ \A f, o : Fact(f, o).f = f /\ Fact(f, o).o = o
  /\ \A o, r : Grant(o, r).f = "grant" /\ Grant(o, r).o = o /\ Grant(o, r).g = r
BY DEF Fact, Grant

(* The facts of the source by what they are of, one way                    *)
LEMMA InSource ==
  ASSUME NEW o \in objs
  PROVE  /\ Fact("object", o) \in SchemaFacts
         /\ UsesOf(o, {"owned"}) # {} => Fact("owned", o) \in SchemaFacts
         /\ Catalog[o].comment => Fact("comment", o) \in SchemaFacts
         /\ Kind(o) = "large-object" \/ Kind(o) \in OwnedKinds \ {"index"} =>
              Fact("owner", o) \in SchemaFacts
         /\ \A r \in Catalog[o].grants \ {Public} : Grant(o, r) \in SchemaFacts
         /\ \/ Public \in Catalog[o].grants
            \/ Kind(o) \in PublicByDefault /\ Catalog[o].grants = {}
            => Fact("public", o) \in SchemaFacts
         /\ \/ Kind(o) \in {"materialized-view", "large-object"}
            \/ Kind(o) = "table" /\ Marks(o) \cap {"partitioned", "foreign"} = {}
            => Fact("rows", o) \in DataFacts
         /\ Kind(o) = "sequence" => Fact("state", o) \in DataFacts
<1>1. \A r \in Catalog[o].grants \ {Public} : Grant(o, r) \in GrantFacts
  BY DEF GrantFacts
<1>2. Fact("object", o) \in Objects(objs)
  BY DEF Objects
<1>3. /\ UsesOf(o, {"owned"}) # {} => Fact("owned", o) \in SchemaFacts
      /\ Catalog[o].comment => Fact("comment", o) \in SchemaFacts
  BY DEF SchemaFacts
<1>4. Kind(o) = "large-object" \/ Kind(o) \in OwnedKinds \ {"index"} =>
        Fact("owner", o) \in SchemaFacts
  BY DEF SchemaFacts
<1>5. \/ Public \in Catalog[o].grants
      \/ Kind(o) \in PublicByDefault /\ Catalog[o].grants = {}
      => Fact("public", o) \in SchemaFacts
  BY DEF SchemaFacts
<1>6. \/ Kind(o) \in {"materialized-view", "large-object"}
      \/ Kind(o) = "table" /\ Marks(o) \cap {"partitioned", "foreign"} = {}
      => Fact("rows", o) \in DataFacts
  BY DEF DataFacts
<1>7. Kind(o) = "sequence" => Fact("state", o) \in DataFacts
  BY DEF DataFacts
<1>8. Objects(objs) \cup GrantFacts \subseteq SchemaFacts
  BY DEF SchemaFacts
<1>9. QED
  BY <1>1, <1>2, <1>3, <1>4, <1>5, <1>6, <1>7, <1>8

(* and the other.                                                          *)
SourceFact(x) ==
  \/ x = Fact("object", x.o)
  \/ x = Fact("owned", x.o) /\ UsesOf(x.o, {"owned"}) # {}
  \/ x = Fact("comment", x.o) /\ Catalog[x.o].comment
  \/ x = Fact("owner", x.o)
     /\ (Kind(x.o) = "large-object" \/ Kind(x.o) \in OwnedKinds \ {"index"})
  \/ x = Grant(x.o, x.g) /\ x.g \in Catalog[x.o].grants \ {Public}
  \/ x = Fact("public", x.o)
     /\ \/ Public \in Catalog[x.o].grants
        \/ Kind(x.o) \in PublicByDefault /\ Catalog[x.o].grants = {}
  \/ x = Fact("rows", x.o)
     /\ \/ Kind(x.o) \in {"materialized-view", "large-object"}
        \/ Kind(x.o) = "table" /\ Marks(x.o) \cap {"partitioned", "foreign"} = {}
  \/ x = Fact("state", x.o) /\ Kind(x.o) = "sequence"
LEMMA SourceHas ==
  ASSUME NEW x \in SchemaFacts \cup DataFacts
  PROVE  x.o \in objs /\ SourceFact(x)
<1>1. CASE x \in Objects(objs)
  BY <1>1, FactIs DEF Objects, SourceFact
<1>2. CASE x \in GrantFacts
  <2>1. PICK o \in objs : \E r \in Catalog[o].grants \ {Public} : x = Grant(o, r)
    BY <1>2 DEF GrantFacts
  <2>2. QED
    BY <2>1, FactIs DEF SourceFact
<1>3. CASE \E o \in objs : x = Fact("owned", o) /\ UsesOf(o, {"owned"}) # {}
  BY <1>3, FactIs DEF SourceFact
<1>4. CASE \E o \in objs : x = Fact("comment", o) /\ Catalog[o].comment
  BY <1>4, FactIs DEF SourceFact
<1>5. CASE \E o \in objs : /\ x = Fact("owner", o)
                           /\ Kind(o) = "large-object" \/ Kind(o) \in OwnedKinds \ {"index"}
  BY <1>5, FactIs DEF SourceFact
<1>6. CASE \E o \in objs : /\ x = Fact("public", o)
                           /\ \/ Public \in Catalog[o].grants
                              \/ Kind(o) \in PublicByDefault /\ Catalog[o].grants = {}
  BY <1>6, FactIs DEF SourceFact
<1>7. CASE \E o \in objs :
             /\ x = Fact("rows", o)
             /\ \/ Kind(o) \in {"materialized-view", "large-object"}
                \/ Kind(o) = "table" /\ Marks(o) \cap {"partitioned", "foreign"} = {}
  BY <1>7, FactIs DEF SourceFact
<1>8. CASE \E o \in objs : x = Fact("state", o) /\ Kind(o) = "sequence"
  BY <1>8, FactIs DEF SourceFact
<1>9. x \in DataFacts =>
        \/ \E o \in objs :
             /\ x = Fact("rows", o)
             /\ \/ Kind(o) \in {"materialized-view", "large-object"}
                \/ Kind(o) = "table" /\ Marks(o) \cap {"partitioned", "foreign"} = {}
        \/ \E o \in objs : x = Fact("state", o) /\ Kind(o) = "sequence"
  BY DEF DataFacts
<1>10. x \in SchemaFacts =>
         \/ x \in Objects(objs) \/ x \in GrantFacts
         \/ \E o \in objs : x = Fact("owned", o) /\ UsesOf(o, {"owned"}) # {}
         \/ \E o \in objs : x = Fact("comment", o) /\ Catalog[o].comment
         \/ \E o \in objs : /\ x = Fact("owner", o)
                            /\ Kind(o) = "large-object" \/ Kind(o) \in OwnedKinds \ {"index"}
         \/ \E o \in objs : /\ x = Fact("public", o)
                            /\ \/ Public \in Catalog[o].grants
                               \/ Kind(o) \in PublicByDefault /\ Catalog[o].grants = {}
  BY DEF SchemaFacts
<1>11. QED
  BY <1>1, <1>2, <1>3, <1>4, <1>5, <1>6, <1>7, <1>8, <1>9, <1>10

LEMMA PublicInSource ==
  ASSUME NEW o, Fact("public", o) \in SchemaFacts
  PROVE  /\ o \in objs
         /\ \/ Public \in Catalog[o].grants
            \/ Kind(o) \in PublicByDefault /\ Catalog[o].grants = {}
<1> DEFINE x == Fact("public", o)
<1>1. x.f = "public" /\ x.o = o
  BY FactIs
<1>2. x \in SchemaFacts
  OBVIOUS
<1> HIDE DEF x
<1>3. x.o \in objs /\ SourceFact(x)
  BY <1>2, SourceHas
<1>4. QED
  BY <1>1, <1>3, FactIs DEF SourceFact

-----------------------------------------------------------------------------
(* What an entry of another type than its object's says of the object.     *)
LEMMA MetadataOf ==
  ASSUME Planful, NEW e \in archive.es, e.t \notin Kinds
  PROVE  /\ e.t = "comment" => Catalog[e.o].comment
         /\ e.t = "acl" => e.g \in Catalog[e.o].grants
         /\ e.t = "table-data" => "partitioned" \notin Marks(e.o)
         /\ e.t = "sequence-ownership" => UsesOf(e.o, {"owned"}) # {}
<1>1. archive.es = Entries(archive.db, opt.include) /\ archive.db \subseteq Ids
  BY PartsOfArchive, SourceFacts
<1>2. \A o, t : Entry(t, o).t = t /\ Entry(t, o).o = o
  BY DEF Entry
<1>3. \A o \in archive.db : ObjectEntry(o).t \in Kinds
  BY <1>1, CatalogAssumption DEF ObjectEntry, Entry
<1>4. CASE \E o \in Planned(archive.db, opt.include) : e = ObjectEntry(o)
  BY <1>3, <1>4 DEF Planned
<1>5. CASE \E o \in Planned(archive.db, opt.include) :
             \E t \in SatelliteTypes(o, archive.db) : e = Entry(t, o)
  <2>1. PICK o \in Planned(archive.db, opt.include) :
               \E t \in SatelliteTypes(o, archive.db) : e = Entry(t, o)
    BY <1>5
  <2>2. e.o = o /\ e.t \in SatelliteTypes(e.o, archive.db)
    BY <1>2, <2>1
  <2>3. /\ e.t \notin {"comment", "acl"}
        /\ e.t = "table-data" => "partitioned" \notin Marks(e.o)
        /\ e.t = "sequence-ownership" => OwnerTable(e.o, archive.db) # {}
    BY <2>2 DEF SatelliteTypes
  <2>4. QED
    BY <2>3 DEF OwnerTable
<1>6. CASE \E o \in archive.db : e \in MetadataEntries(o)
  <2>1. PICK o \in archive.db : e \in MetadataEntries(o)
    BY <1>6
  <2>2. \/ e = Entry("comment", o) /\ Catalog[o].comment
        \/ e = Entry("ownership", o)
        \/ \E r \in Catalog[o].grants : e = [t |-> "acl", o |-> o, g |-> r]
    BY <2>1 DEF MetadataEntries
  <2>3. \/ e.t = "comment" /\ Catalog[e.o].comment
        \/ e.t = "ownership"
        \/ e.t = "acl" /\ e.g \in Catalog[e.o].grants
    BY <1>2, <2>2
  <2>4. QED
    BY <2>3
<1>7. QED
  BY <1>1, <1>4, <1>5, <1>6, EntryOrigin

(* What the statements of the other entries create.                        *)
LEMMA CreatesBy ==
  ASSUME NEW e, e.t # Kind(e.o)
  PROVE  /\ e.t \in Hooked => Creates(e, objs, opt) = {Fact("rows", e.o)}
         /\ e.t = "sequence-state" => Creates(e, objs, opt) = {Fact("state", e.o)}
         /\ e.t = "sequence-ownership" => Creates(e, objs, opt) = {Fact("owned", e.o)}
         /\ e.t = "comment" => Creates(e, objs, opt) = {Fact("comment", e.o)}
         /\ e.t = "ownership" => Creates(e, objs, opt) = {Fact("owner", e.o)}
         /\ e.t = "large-object-metadata" =>
              Creates(e, objs, opt) =
                {Fact("owner", e.o)}
                  \cup (IF Catalog[e.o].comment THEN {Fact("comment", e.o)} ELSE {})
         /\ e.t = "acl" /\ e.g = Public => Creates(e, objs, opt) = {Fact("public", e.o)}
         /\ e.t = "acl" /\ e.g # Public => Creates(e, objs, opt) = {Grant(e.o, e.g)}
         /\ e.t \notin Hooked \cup {"sequence-state", "sequence-ownership", "comment",
                                    "ownership", "large-object-metadata", "acl"} =>
              Creates(e, objs, opt) = {}
<1>1. CASE e.t \in Hooked
  BY <1>1 DEF Creates, Hooked
<1>2. CASE e.t = "sequence-state"
  BY <1>2 DEF Creates, Hooked
<1>3. CASE e.t = "sequence-ownership"
  BY <1>3 DEF Creates, Hooked
<1>4. CASE e.t = "comment"
  BY <1>4 DEF Creates, Hooked
<1>5. CASE e.t = "ownership"
  BY <1>5 DEF Creates, Hooked
<1>6. CASE e.t = "large-object-metadata"
  BY <1>6 DEF Creates, Hooked
<1>7. CASE e.t = "acl"
  BY <1>7 DEF Creates, Hooked
<1>8. CASE e.t \notin Hooked \cup {"sequence-state", "sequence-ownership", "comment",
                                   "ownership", "large-object-metadata", "acl"}
  <2>1. e.t \notin {"table-data", "large-object-data", "sequence-state", "sequence-ownership",
                    "comment", "ownership", "large-object-metadata", "acl"}
    BY <1>8 DEF Hooked
  <2>2. Creates(e, objs, opt) = {}
    BY <2>1 DEF Creates
  <2>3. QED
    BY <1>8, <2>2
<1>9. QED
  BY <1>1, <1>2, <1>3, <1>4, <1>5, <1>6, <1>7, <1>8

(* Whatever is created is lasting or what PUBLIC may use.                  *)
LEMMA CreatesKinds ==
  ASSUME NEW e, Kind(e.o) \in Kinds
  PROVE  \A x \in Creates(e, objs, opt) :
           /\ x.f \in Lasting \cup {"public"}
           /\ x.f = "public" =>
                /\ x = Fact("public", x.o)
                /\ \/ e.t = Kind(e.o) /\ x.o \in MadeBy(e.o) /\ Kind(x.o) \in PublicByDefault
                   \/ e.t = "acl" /\ e.g = Public /\ x.o = e.o
<1>1. CASE e.t = Kind(e.o)
  <2> SUFFICES ASSUME NEW x \in Creates(e, objs, opt)
               PROVE  /\ x.f \in Lasting \cup {"public"}
                      /\ x.f = "public" => /\ x = Fact("public", x.o)
                                           /\ x.o \in MadeBy(e.o) /\ Kind(x.o) \in PublicByDefault
    BY <1>1
  <2>1. \/ x \in Objects(MadeBy(e.o))
        \/ \E y \in MadeBy(e.o) : x = Fact("public", y) /\ Kind(y) \in PublicByDefault
        \/ \E y \in MadeBy(e.o) : x = Fact("owned", y)
    BY <1>1, OwnCreates
  <2>2. CASE x \in Objects(MadeBy(e.o))
    BY <2>2, FactIs DEF Objects, Lasting
  <2>3. CASE \E y \in MadeBy(e.o) : x = Fact("public", y) /\ Kind(y) \in PublicByDefault
    BY <2>3, FactIs
  <2>4. CASE \E y \in MadeBy(e.o) : x = Fact("owned", y)
    BY <2>4, FactIs DEF Lasting
  <2>5. QED
    BY <2>1, <2>2, <2>3, <2>4
<1>2. CASE e.t # Kind(e.o)
  <2>1. \A x \in Creates(e, objs, opt) :
           \/ x.f \in Lasting \ {"public"}
           \/ e.t = "acl" /\ e.g = Public /\ x = Fact("public", e.o)
    BY <1>2, CreatesBy, FactIs DEF Lasting
  <2>2. QED
    BY <2>1, FactIs DEF Lasting
<1>3. QED
  BY <1>1, <1>2

(* What a statement creates is a fact of the source, or a default.         *)
LEMMA CreatesSourced ==
  ASSUME Planful, NEW e \in archive.es,
         e.t \in Hooked => "foreign" \notin Marks(e.o),
         e.t \notin Hooked => OutcomeOf(e) = "written",
         NEW x \in Creates(e, objs, opt)
  PROVE  Sourced(x)
<1>1. e.o \in objs /\ Kind(e.o) \in Kinds
  BY OwnEntryMade, OwnEntry
<1>2. CASE e.t = Kind(e.o)
  <2>1. MadeBy(e.o) \subseteq objs
    BY <1>1, PartsAbout DEF MadeBy
  <2>2. \/ x \in Objects(MadeBy(e.o))
        \/ \E y \in MadeBy(e.o) : x = Fact("public", y) /\ Kind(y) \in PublicByDefault
        \/ \E y \in MadeBy(e.o) : x = Fact("owned", y) /\ UsesOf(y, {"owned"}) # {}
    BY <1>1, <1>2, OwnCreates
  <2>3. CASE x \in Objects(MadeBy(e.o))
    BY <2>1, <2>3, InSource DEF Objects, Sourced
  <2>4. CASE \E y \in MadeBy(e.o) : x = Fact("public", y) /\ Kind(y) \in PublicByDefault
    BY <2>1, <2>4, FactIs DEF Sourced
  <2>5. CASE \E y \in MadeBy(e.o) : x = Fact("owned", y) /\ UsesOf(y, {"owned"}) # {}
    BY <2>1, <2>5, InSource DEF Sourced
  <2>6. QED
    BY <2>2, <2>3, <2>4, <2>5
<1>3. CASE e.t # Kind(e.o)
  <2>1. e.t \notin Kinds
    BY <1>3, OwnEntryMade
  <2>2. CASE e.t \in Hooked
    <3>1. Creates(e, objs, opt) = {Fact("rows", e.o)} /\ "foreign" \notin Marks(e.o)
      BY <1>3, <2>2, CreatesBy
    <3>2. \/ Kind(e.o) = "large-object"
          \/ Kind(e.o) = "table" /\ "partitioned" \notin Marks(e.o)
      BY <2>1, <2>2, SatelliteOf, MetadataOf DEF Hooked
    <3>3. Fact("rows", e.o) \in DataFacts
      BY <1>1, <3>1, <3>2, InSource
    <3>4. QED
      BY <3>1, <3>3 DEF Sourced
  <2>3. CASE e.t = "sequence-state"
    BY <1>1, <1>3, <2>1, <2>3, CreatesBy, SatelliteOf, InSource DEF Sourced
  <2>4. CASE e.t = "sequence-ownership"
    BY <1>1, <1>3, <2>1, <2>4, CreatesBy, MetadataOf, InSource DEF Sourced
  <2>5. CASE e.t = "comment"
    BY <1>1, <1>3, <2>1, <2>5, CreatesBy, MetadataOf, InSource DEF Sourced
  <2>6. CASE e.t = "ownership"
    <3>1. Kind(e.o) \in OwnedKinds
      BY <2>1, <2>6, SatelliteOf
    <3>2. Kind(e.o) # "index"
      BY <2>6, WrittenIs DEF Nothing, Hooked
    <3>3. QED
      BY <1>1, <1>3, <2>6, <3>1, <3>2, CreatesBy, InSource DEF Sourced
  <2>7. CASE e.t = "large-object-metadata"
    <3>1. Kind(e.o) = "large-object"
      BY <2>1, <2>7, SatelliteOf
    <3>2. QED
      BY <1>1, <1>3, <2>7, <3>1, CreatesBy, InSource DEF Sourced
  <2>8. CASE e.t = "acl"
    BY <1>1, <1>3, <2>1, <2>8, CreatesBy, MetadataOf, InSource DEF Sourced
  <2>9. QED
    BY <1>3, <2>2, <2>3, <2>4, <2>5, <2>6, <2>7, <2>8, CreatesBy
<1>4. QED
  BY <1>2, <1>3

(* Routines, enums and domains come before the data, with their own        *)
(* entries or with an extension.                                           *)
LEMMA DefaultMaker ==
  ASSUME Planful, NEW z \in objs, NEW x \in Parts(z, objs), Kind(x) \in PublicByDefault
  PROVE  SectionOf(ObjectEntry(z)) = 0
<1>1. ASSUME NEW v \in objs, NEW w \in DirectParts(v, objs),
             Kind(w) \in PublicByDefault \cup {"extension"}
      PROVE  w \in objs /\ Ext(w) = v /\ Kind(v) = "extension"
  <2>1. /\ w \in objs /\ 0 \notin objs
        /\ \/ v \in UsesOf(w, {"part"})
           \/ Ext(w) = v
           \/ On(w) = v
           \/ v \in UsesOf(w, {"owned"})
    BY SourceFacts DEF DirectParts
  <2>2. v \notin UsesOf(w, {"part"})
    BY <1>1, <2>1, MadeByKey DEF PublicByDefault
  <2>3. v \notin UsesOf(w, {"owned"})
    BY <1>1, <2>1, OwnedByTable DEF PublicByDefault
  <2>4. w \in Ids
    BY <2>1, SourceFacts
  <2>5. Kind(w) \notin Attached
    BY <1>1 DEF PublicByDefault, Attached
  <2>6. On(w) = 0
    BY <2>4, <2>5, ReferencesAssumption
  <2>7. Ext(w) = v
    BY <2>1, <2>2, <2>3, <2>6
  <2>8. QED
    BY <2>1, <2>7, SourceFacts
<1>2. x = z \/ Kind(z) = "extension"
  <2>1. CASE x \in DirectParts(z, objs)
    BY <1>1, <2>1
  <2>2. ASSUME NEW v \in DirectParts(z, objs), x \in DirectParts(v, objs) PROVE FALSE
    <3>1. v \in objs
      BY PartOf
    <3>2. Kind(v) = "extension"
      BY <1>1, <2>2, <3>1
    <3>3. Ext(v) = z /\ 0 \notin objs
      BY <1>1, <3>2, SourceFacts
    <3>4. v \in Ids
      BY <3>1, SourceFacts
    <3>5. Ext(v) = 0
      BY <3>2, <3>4, ReferencesAssumption
    <3>6. QED
      BY <3>3, <3>5
  <2>3. QED
    BY <2>1, <2>2, PartOf
<1>3. Kind(z) \in PublicByDefault \cup {"extension"}
  BY <1>2
<1>4. ObjectEntry(z).t = Kind(z)
  BY OwnEntry
<1>5. QED
  BY <1>3, <1>4 DEF SectionOf, PreData, PublicByDefault

-----------------------------------------------------------------------------
(* What became of the entries stays true when nothing is written but rows. *)
RowsOnly ==
  /\ src' = src /\ ran \subseteq ran' /\ granted' = granted /\ AclEntries' = AclEntries
  /\ AclEntries = {} \/ ToSet(todo)' \subseteq ToSet(todo)
  /\ server \subseteq server'
  /\ \A x \in server' \ server : x.f = "rows" /\ Sourced(x)
LEMMA RowsOnlyKeeps ==
  ASSUME FactsInv, RowsOnly
  PROVE  DefaultInv' /\ GrantedInv' /\ RevokedInv' /\ SourceInv' /\ LastInv'
<1>1. /\ objs' = objs /\ (SchemaFacts)' = SchemaFacts /\ (DataFacts)' = DataFacts
  BY SourceSteady DEF RowsOnly
<1>2. \A e : Failed(e) => Failed(e)'
  BY DEF RowsOnly, Failed
<1>3. \A o : /\ Fact("object", o) \in server' => Fact("object", o) \in server
             /\ Fact("public", o) \in server' <=> Fact("public", o) \in server
  BY FactIs DEF RowsOnly
<1>4. DefaultInv'
  <2>1. \A o : ByDefault(o)' => ByDefault(o)
    BY <1>1, <1>3 DEF ByDefault
  <2>2. QED
    BY <1>1, <1>3, <2>1 DEF FactsInv, DefaultInv
<1>5. GrantedInv'
  BY <1>2, <1>3 DEF FactsInv, GrantedInv, RowsOnly
<1>6. RevokedInv'
  <2>1. \A e : Restricted(e)' <=> Restricted(e)
    BY DEF Restricted, RowsOnly
  <2>2. QED
    BY <1>2, <1>3, <2>1 DEF FactsInv, RevokedInv, RowsOnly
<1>7. SourceInv'
  <2>1. \A x : Sourced(x) => Sourced(x)'
    BY <1>1 DEF Sourced
  <2>2. QED
    BY <2>1 DEF FactsInv, SourceInv, RowsOnly
<1>8. LastInv'
  BY DEF FactsInv, LastInv, RowsOnly
<1>9. QED
  BY <1>4, <1>5, <1>6, <1>7, <1>8

(* The statements of one turn leave what they create.                      *)
LEMMA KeptTurn ==
  ASSUME ReplayInv, FactsInv, Planful, Entryward PROVE KeptInv'
<1>1. PICK R : Steady /\ Grown(R)
  BY TurnGrows DEF ReplayInv, DumpInv
<1>2. objs' = objs /\ opt' = opt /\ archive.selected \subseteq archive.es
  BY <1>1, AbsentStays, PartsOfArchive DEF Sound
<1>3. rendered \subseteq archive.selected
  BY DEF ReplayInv, DumpInv, Typed
<1>4. ASSUME NEW e \in rendered, Left(e) PROVE Left(e)'
  <2>1. Kind(e.o) \in Kinds
    BY <1>2, <1>3, OwnEntryMade, OwnEntry
  <2>2. \A x \in Creates(e, objs, opt) : x.f # "public" => x.f \in Lasting
    BY <2>1, CreatesKinds
  <2>3. QED
    BY <1>1, <1>2, <1>4, <2>2 DEF Left, Grown
<1>5. ASSUME NEW e \in R
      PROVE  /\ e.t # "materialized-view-data"
             /\ Failed(e)' \/ (e.t \in Hooked /\ "foreign" \in Marks(e.o)) \/ Left(e)'
  <2>1. e.t # "materialized-view-data"
    BY <1>1 DEF Grown, Ripe, Renders, Hooked
  <2>2. \/ Failed(e)' \/ Creates(e, objs, opt) \subseteq server'
        \/ e.t \in Hooked /\ "foreign" \in Marks(e.o)
    BY <1>1 DEF Grown
  <2>3. Creates(e, objs, opt) \subseteq server' => Left(e)'
    BY <1>2 DEF Left
  <2>4. QED
    BY <2>1, <2>2, <2>3
<1>6. \A e : Failed(e) => Failed(e)'
  BY <1>1, AbsentStays
<1>7. rendered' = rendered \cup R
  BY <1>1 DEF Grown
<1>8. QED
  BY <1>4, <1>5, <1>6, <1>7 DEF FactsInv, KeptInv

(* An entry is skipped with a warning, without a statement, or as a        *)
(* member.                                                                 *)
LEMMA SkippedTurn ==
  ASSUME FactsInv, Entryward, NEW h, h = Head(todo) PROVE SkippedInv'
<1>1. src' = src /\ archive' = archive
  BY EntrywardTurns
<1>2. \A e : OutcomeOf(e)' = OutcomeOf(e)
  BY <1>1, SourceSteady DEF OutcomeOf
<1> DEFINE Excused(e) == e \in warned' \/ OutcomeOf(e) = "nothing" \/ MemberOf(e) # 0
<1>3. /\ warned \subseteq warned'
      /\ \A e \in skipped' : e \in skipped \/ Excused(e)
  <2>1. CASE SkipUnavailable
    <3>1. skipped' = skipped \cup {h} /\ warned' = warned \cup {h}
      BY <2>1 DEF SkipUnavailable
    <3>2. QED
      BY <3>1
  <2>2. CASE DataHook
    <3>1. warned \subseteq warned' /\ skipped' \subseteq skipped \cup warned'
      <4>1. CASE h.t \in handled
        <5>1. skipped' = skipped /\ warned' = warned
          BY <2>2, <4>1 DEF DataHook, accounts
        <5>2. QED
          BY <5>1
      <4>2. CASE h.t \notin handled
        <5> DEFINE S == {e \in {d \in archive.selected : d.t = h.t} : LacksDependency(e)}
        <5>1. skipped' = skipped \cup S /\ warned' = warned \cup S
          BY <2>2, <4>2 DEF DataHook
        <5>2. QED
          BY <5>1
      <4>3. QED
        BY <4>1, <4>2
    <3>2. QED
      BY <3>1
  <2>3. CASE SkipUnwritten
    <3>1. /\ skipped' = skipped \cup {h} /\ warned \subseteq warned'
          /\ h \in warned' \/ MemberOf(h) # 0
      BY <2>3 DEF SkipUnwritten
    <3>2. QED
      BY <3>1
  <2>4. CASE SkipSilent
    <3>1. /\ skipped' = skipped \cup {h} /\ warned' = warned /\ OutcomeOf(h) = "nothing"
      BY <2>4 DEF SkipSilent
    <3>2. QED
      BY <3>1
  <2>5. CASE SkipOmitted
    <3>1. skipped' = skipped \cup {h} /\ warned' = warned \cup {h}
      BY <2>5 DEF SkipOmitted
    <3>2. QED
      BY <3>1
  <2>6. CASE Write \/ RenderFails
    <3>1. skipped' = skipped /\ warned \subseteq warned'
      BY <2>6 DEF Write, RenderFails
    <3>2. QED
      BY <3>1
  <2>7. QED
    BY <2>1, <2>2, <2>3, <2>4, <2>5, <2>6 DEF Entryward
<1>4. QED
  BY <1>2, <1>3 DEF FactsInv, SkippedInv

(* The first statement of an object's access control takes from PUBLIC     *)
(* what it may use by default, and no later one gives it back.             *)
LEMMA WriteTurn ==
  ASSUME ReplayInv, FactsInv, Planful, Write, NEW e, e = Head(todo)
  PROVE  DefaultInv' /\ GrantedInv' /\ RevokedInv' /\ SourceInv' /\ LastInv'
<1> DEFINE run == Statement(e, FALSE, tx', Needs(e, archive.db, opt) \ server,
                            Conflicts(e, objs, server, FALSE))
<1>1. /\ rendered' = rendered \cup {e} /\ ran' = ran \cup {run}
      /\ src' = src /\ archive' = archive
      /\ granted' = IF e.t = "acl" THEN granted \cup {e.o} ELSE granted
      /\ server' = IF Failing(run) THEN server
                   ELSE (server \ Revokes(e, granted)) \cup Creates(e, objs, opt)
      /\ Renders(e) /\ OutcomeOf(e) = "written" /\ Turn
  BY DEF Write
<1>2. /\ run.e = e /\ run.missing = Needs(e, archive.db, opt) \ server
      /\ run.blocking = Conflicts(e, objs, server, FALSE)
  BY DEF Statement
<1>3. /\ e \in archive.selected /\ e \in archive.es /\ e.o \in objs /\ e.t \notin Hooked
      /\ Kind(e.o) \in Kinds
  <2>1. e \in archive.selected /\ e.o \in objs
    BY <1>1, AtHand DEF ReplayInv, DumpInv
  <2>2. QED
    BY <1>1, <2>1, PartsOfArchive, OwnEntry DEF Sound, Renders
<1>4. Failing(run) => Failed(e)'
  BY <1>1, <1>2 DEF Failed
<1> HIDE DEF run
<1>5. /\ objs' = objs /\ opt' = opt /\ (SchemaFacts)' = SchemaFacts /\ (DataFacts)' = DataFacts
  BY <1>1, SourceSteady
<1>6. \A d : Failed(d) => Failed(d)'
  BY <1>1 DEF Failed
<1>7. /\ AclEntries' = IF e.t = "acl" THEN AclEntries \cup {e} ELSE AclEntries
      /\ \A d : Restricted(d)' <=>
           /\ d \in AclEntries' /\ Kind(d.o) \in PublicByDefault
           /\ Public \notin Catalog[d.o].grants
  BY <1>1 DEF AclEntries, Restricted
<1>8. e.t = "acl" => /\ e.t \notin Kinds /\ e.g \in Catalog[e.o].grants
                     /\ Kind(e.o) \in GrantedKinds /\ e.t # Kind(e.o)
  <2>1. "acl" \notin Kinds
    BY DEF Kinds
  <2>2. QED
    BY <1>3, <2>1, MetadataOf, SatelliteOf
<1>9. \A x \in Revokes(e, granted) :
         x = Fact("public", e.o) /\ e.t = "acl" /\ e.o \notin granted
  BY DEF Revokes
<1>10. \A x \in Creates(e, objs, opt) :
         /\ Sourced(x)
         /\ x.f = "public" =>
              /\ x = Fact("public", x.o)
              /\ \/ e.t = Kind(e.o) /\ x.o \in MadeBy(e.o) /\ Kind(x.o) \in PublicByDefault
                 \/ e.t = "acl" /\ e.g = Public /\ x.o = e.o
         /\ x.f = "object" => e.t = Kind(e.o) /\ x.o \in MadeBy(e.o)
  BY <1>1, <1>3, CreatesSourced, CreatesKinds, CreatesWhat
<1>11. /\ ToSet(todo)' \subseteq ToSet(todo) /\ e \in ToSet(todo)
       /\ SectionOf(e) = 2 => \A d \in ToSet(todo) : SectionOf(d) = 2
  <2>1. todo \in Seq(archive.selected) /\ todo # <<>> /\ todo' = Tail(todo) /\ Ordering
    BY <1>1 DEF Turn, ReplayInv, DumpInv, TodoInv
  <2>2. ToSet(todo) = {e} \cup ToSet(todo') /\ ToSet(todo) \subseteq archive.selected
    BY <2>1, Behead
  <2>3. \A x \in archive.selected : SectionOf(x) < SectionOf(e) => x \in Passed
    BY <1>1, <2>1, TurnTaken DEF ReplayInv, DumpInv
  <2>4. SectionOf(e) = 2 => \A d \in ToSet(todo) : SectionOf(d) = 2
    BY <2>2, <2>3 DEF Passed, SectionOf
  <2>5. QED
    BY <2>2, <2>4
<1>12. SourceInv'
  <2>1. \A x : Sourced(x) => Sourced(x)'
    BY <1>5 DEF Sourced
  <2>2. \A x \in server' : Sourced(x)
    BY <1>1, <1>10 DEF FactsInv, SourceInv
  <2>3. QED
    BY <2>1, <2>2 DEF SourceInv
<1>13. LastInv'
  <2>1. ToSet(todo)' \subseteq ToSet(todo)
    BY <1>11
  <2>2. CASE e.t = "acl"
    <3>1. SectionOf(e) = 2
      BY <2>2 DEF SectionOf, PreData, Data
    <3>2. \A d \in ToSet(todo) : SectionOf(d) = 2
      BY <1>11, <3>1
    <3>3. QED
      BY <2>1, <3>2 DEF LastInv
  <2>3. CASE e.t # "acl"
    BY <1>7, <2>1, <2>3 DEF FactsInv, LastInv
  <2>4. QED
    BY <2>2, <2>3
<1>14. DefaultInv'
  <2> SUFFICES ASSUME NEW o \in objs, ByDefault(o)' PROVE Fact("public", o) \in server'
    BY <1>5 DEF DefaultInv
  <2>1. /\ Fact("object", o) \in server' /\ Fact("public", o) \in SchemaFacts
        /\ Catalog[o].grants = {} \/ Kind(o) = "aggregate"
    BY <1>5 DEF ByDefault
  <2>2. Fact("public", o) \notin Revokes(e, granted)
    <3>1. e.t = "acl" => e.o # o
      BY <1>8, <2>1 DEF GrantedKinds
    <3>2. QED
      BY <1>9, <3>1, FactIs
  <2>3. CASE Fact("object", o) \in server
    <3>1. Fact("public", o) \in server
      BY <2>1, <2>3 DEF FactsInv, DefaultInv, ByDefault
    <3>2. QED
      BY <1>1, <2>2, <3>1
  <2>4. CASE Fact("object", o) \notin server
    <3>1. Fact("object", o) \in Creates(e, objs, opt) /\ ~ Failing(run)
      BY <1>1, <2>1, <2>4
    <3>2. e.t = Kind(e.o) /\ o \in MadeBy(e.o)
      BY <1>10, <3>1, FactIs
    <3>3. Kind(o) \in PublicByDefault
      BY <2>1, PublicInSource DEF PublicByDefault
    <3>4. Fact("public", o) \in Creates(e, objs, opt)
      BY <1>3, <3>2, <3>3, OwnCreates
    <3>5. QED
      BY <1>1, <3>1, <3>4
  <2>5. QED
    BY <2>3, <2>4
<1>15. GrantedInv'
  <2>1. granted' = {d.o : d \in AclEntries'}
    BY <1>1, <1>7 DEF FactsInv, GrantedInv
  <2>2. ASSUME NEW d \in AclEntries', d.g = Public
        PROVE  Failed(d)' \/ Fact("public", d.o) \in server'
    <3>1. CASE d \in AclEntries
      <4>1. Failed(d) \/ Fact("public", d.o) \in server
        BY <2>2, <3>1 DEF FactsInv, GrantedInv
      <4>2. d.o \in granted
        BY <3>1 DEF FactsInv, GrantedInv
      <4>3. Fact("public", d.o) \notin Revokes(e, granted)
        BY <1>9, <4>2, FactIs
      <4>4. QED
        BY <1>1, <1>6, <4>1, <4>3
    <3>2. CASE d = e /\ e.t = "acl"
      <4>1. Creates(e, objs, opt) = {Fact("public", e.o)}
        BY <1>8, <2>2, <3>2, CreatesBy
      <4>2. QED
        BY <1>1, <1>4, <3>2, <4>1
    <3>3. QED
      BY <1>7, <3>1, <3>2
  <2>3. QED
    BY <2>1, <2>2 DEF GrantedInv
<1>16. RevokedInv'
  <2> SUFFICES ASSUME NEW d \in AclEntries', Restricted(d)'
               PROVE  \/ /\ Failed(d)'
                         /\ Fact("object", d.o) \notin server' \/ Kind(d.o) = "procedure"
                      \/ Fact("public", d.o) \notin server'
    BY DEF RevokedInv
  <2>1. Kind(d.o) \in PublicByDefault /\ Public \notin Catalog[d.o].grants
    BY <1>7
  <2>2. SectionOf(e) = 2
    <3>1. CASE d \in AclEntries
      BY <1>11, <3>1 DEF FactsInv, LastInv
    <3>2. CASE e.t = "acl"
      BY <3>2 DEF SectionOf, PreData, Data
    <3>3. QED
      BY <1>7, <3>1, <3>2
  <2>3. ~ (e.t = Kind(e.o) /\ d.o \in MadeBy(e.o))
    <3> SUFFICES ASSUME e.t = Kind(e.o), d.o \in MadeBy(e.o) PROVE FALSE
      OBVIOUS
    <3>1. d.o \in Parts(e.o, objs)
      BY DEF MadeBy
    <3>2. SectionOf(ObjectEntry(e.o)) = 0
      BY <1>3, <2>1, <3>1, DefaultMaker
    <3>3. e = ObjectEntry(e.o)
      BY <1>3, OwnEntryMade
    <3>4. QED
      BY <2>2, <3>2, <3>3
  <2>4. Fact("object", d.o) \notin Creates(e, objs, opt)
    BY <1>10, <2>3, FactIs
  <2>5. Fact("public", d.o) \notin Creates(e, objs, opt)
    BY <1>8, <1>10, <2>1, <2>3, FactIs
  <2>6. Fact("public", d.o) \notin server => Fact("public", d.o) \notin server'
    BY <1>1, <2>5
  <2>7. Fact("object", d.o) \notin server => Fact("object", d.o) \notin server'
    BY <1>1, <2>4
  <2>8. ASSUME NEW c \in AclEntries, c.o = d.o
        PROVE  \/ /\ Failed(c)
                  /\ Fact("object", d.o) \notin server \/ Kind(d.o) = "procedure"
               \/ Fact("public", d.o) \notin server
    BY <2>1, <2>8 DEF FactsInv, RevokedInv, Restricted
  <2>9. CASE d \in AclEntries
    BY <1>6, <2>6, <2>7, <2>8, <2>9
  <2>10. CASE d = e /\ e.t = "acl"
    <3>1. Needs(e, archive.db, opt) = {Fact("object", e.o)}
      BY <1>8, <2>10 DEF Needs
    <3>2. Conflicts(e, objs, server, FALSE)
            = IF Kind(e.o) = "procedure" THEN {Fact("object", e.o)} \cap server ELSE {}
      BY <1>8, <2>10 DEF Conflicts
    <3>3. CASE Failing(run)
      <4>1. Fact("object", e.o) \notin server \/ Kind(e.o) = "procedure"
        BY <1>2, <3>1, <3>2, <3>3 DEF Failing
      <4>2. QED
        BY <1>4, <2>7, <2>10, <3>3, <4>1
    <3>4. CASE ~ Failing(run)
      <4>1. Fact("object", e.o) \in server /\ Kind(e.o) # "procedure"
        BY <1>2, <3>1, <3>2, <3>4 DEF Failing
      <4>2. CASE e.o \in granted
        <5>1. PICK c \in AclEntries : c.o = e.o
          BY <4>2 DEF FactsInv, GrantedInv
        <5>2. QED
          BY <2>6, <2>8, <2>10, <4>1, <5>1
      <4>3. CASE e.o \notin granted
        <5>1. Revokes(e, granted) = {Fact("public", e.o)}
          BY <2>10, <4>3 DEF Revokes
        <5>2. QED
          BY <1>1, <2>5, <2>10, <3>4, <5>1
      <4>4. QED
        BY <4>2, <4>3
    <3>5. QED
      BY <3>3, <3>4
  <2>11. QED
    BY <1>7, <2>9, <2>10
<1>17. QED
  BY <1>12, <1>13, <1>14, <1>15, <1>16

(* The call that loads rows creates nothing but rows.                      *)
LEMMA HookTurn ==
  ASSUME ReplayInv, Planful, DataHook, NEW t, t = Head(todo).t
  PROVE  RowsOnly
<1> DEFINE all == {e \in archive.selected : e.t = t}
           lacking == {e \in all : LacksDependency(e)}
           Load(e) == Statement(e, FALSE, tx', Needs(e, archive.db, opt) \ server,
                                Conflicts(e, objs, server, opt.replica))
           runs == {Load(e) : e \in Loadable(all \ lacking)}
           Done == {Creates(r.e, objs, opt) : r \in {x \in runs : ~ Failing(x)}}
<1>1. /\ t \in Hooked /\ src' = src /\ Turn
  BY DEF DataHook
<1>2. ToSet(todo)' \subseteq ToSet(todo)
  <2>1. todo \in Seq(archive.selected) /\ todo # <<>> /\ todo' = Tail(todo)
    BY <1>1 DEF Turn, ReplayInv, DumpInv, TodoInv
  <2>2. QED
    BY <2>1, Behead
<1>3. CASE t \in handled
  <2>1. /\ rendered' = rendered /\ granted' = granted /\ server' = server /\ ran' = ran
    BY <1>3 DEF DataHook, accounts
  <2>2. QED
    BY <1>1, <1>2, <2>1 DEF RowsOnly, AclEntries
<1>4. CASE t \notin handled
  <2>1. /\ rendered' = rendered \cup (all \ lacking) /\ granted' = granted
        /\ ran' = ran \cup runs /\ server' = server \cup UNION Done
    BY <1>4 DEF DataHook
  <2>2. \A e \in all : e.t # "acl"
    BY <1>1 DEF Hooked
  <2>3. AclEntries' = AclEntries
    BY <2>1, <2>2 DEF AclEntries
  <2>4. \A e : Load(e).e = e
    BY DEF Statement
  <2> HIDE DEF Load
  <2>5. \A r \in runs : r.e \in all /\ "foreign" \notin Marks(r.e.o)
    BY <2>4 DEF Loadable
  <2>6. ASSUME NEW e \in all, "foreign" \notin Marks(e.o), NEW x \in Creates(e, objs, opt)
        PROVE  x.f = "rows" /\ Sourced(x)
    <3>1. e \in archive.es /\ e.t \in Hooked
      BY <1>1, PartsOfArchive DEF Sound
    <3>2. Sourced(x)
      BY <2>6, <3>1, CreatesSourced
    <3>3. e.t # Kind(e.o)
      BY <3>1, OwnEntryMade, OwnEntry, KindsApart
    <3>4. x = Fact("rows", e.o)
      BY <2>6, <3>1, <3>3, CreatesBy
    <3>5. QED
      BY <3>2, <3>4, FactIs
  <2> HIDE DEF runs, all
  <2>7. \A x \in UNION Done : x.f = "rows" /\ Sourced(x)
    BY <2>5, <2>6
  <2> HIDE DEF Done
  <2>8. QED
    BY <1>1, <1>2, <2>1, <2>3, <2>7 DEF RowsOnly
<1>5. QED
  BY <1>3, <1>4

(* Every turn keeps the facts of the server true to the source.            *)
LEMMA FactsTurn ==
  ASSUME ReplayInv, FactsInv, Planful, Entryward PROVE FactsInv'
<1>1. KeptInv' /\ SkippedInv'
  BY KeptTurn, SkippedTurn
<1>2. DefaultInv' /\ GrantedInv' /\ RevokedInv' /\ SourceInv' /\ LastInv'
  <2>1. CASE Write
    BY <2>1, WriteTurn
  <2>2. CASE DataHook
    BY <2>2, HookTurn, RowsOnlyKeeps
  <2>3. CASE SkipUnavailable \/ SkipUnwritten \/ SkipSilent \/ SkipOmitted \/ RenderFails
    <3>1. /\ src' = src /\ rendered' = rendered /\ granted' = granted /\ server' = server
          /\ ran' = ran /\ Turn
      BY <2>3 DEF SkipUnavailable, SkipUnwritten, SkipSilent, SkipOmitted, RenderFails
    <3>2. ToSet(todo)' \subseteq ToSet(todo)
      <4>1. todo \in Seq(archive.selected) /\ todo # <<>> /\ todo' = Tail(todo)
        BY <3>1 DEF Turn, ReplayInv, DumpInv, TodoInv
      <4>2. QED
        BY <4>1, Behead
    <3>3. RowsOnly
      BY <3>1, <3>2 DEF RowsOnly, AclEntries
    <3>4. QED
      BY <3>3, RowsOnlyKeeps
  <2>4. QED
    BY <2>1, <2>2, <2>3 DEF Entryward
<1>3. QED
  BY <1>1, <1>2 DEF FactsInv

(* A drop takes an object with all that is known of it.                    *)
LEMMA FactsDrop ==
  ASSUME ReplayInv, FactsInv, DropNext, NEW gone, gone = GoesWith(Head(drops).o, objs, server)
  PROVE  FactsInv'
<1>1. /\ src' = src /\ archive' = archive /\ rendered' = rendered /\ skipped' = skipped
      /\ warned' = warned /\ granted' = granted /\ todo' = todo /\ phase = "write"
      /\ server' = server \/ server' = {x \in server : x.o \notin gone}
  BY DEF DropNext, accounts
<1>2. rendered = {}
  <2>1. drops # <<>>
    BY DEF DropNext
  <2>2. QED
    BY <1>1, <2>1 DEF ReplayInv, DropsInv, Begun
<1>3. /\ objs' = objs /\ opt' = opt /\ (SchemaFacts)' = SchemaFacts /\ (DataFacts)' = DataFacts
  BY <1>1, SourceSteady
<1>4. AclEntries = {} /\ AclEntries' = {}
  BY <1>1, <1>2 DEF AclEntries
<1>5. KeptInv' /\ GrantedInv' /\ RevokedInv' /\ LastInv'
  BY <1>1, <1>2, <1>4 DEF FactsInv, KeptInv, GrantedInv, RevokedInv, LastInv
<1>6. SkippedInv'
  BY <1>1, <1>3 DEF FactsInv, SkippedInv, OutcomeOf
<1>7. SourceInv'
  <2>1. \A x : Sourced(x) => Sourced(x)'
    BY <1>3 DEF Sourced
  <2>2. server' \subseteq server
    BY <1>1
  <2>3. QED
    BY <2>1, <2>2 DEF FactsInv, SourceInv
<1>8. DefaultInv'
  <2> SUFFICES ASSUME NEW o \in objs, ByDefault(o)' PROVE Fact("public", o) \in server'
    BY <1>3 DEF DefaultInv
  <2>1. ByDefault(o)
    BY <1>1, <1>3 DEF ByDefault
  <2>2. Fact("public", o) \in server /\ Fact("object", o) \in server'
    BY <2>1 DEF FactsInv, DefaultInv, ByDefault
  <2>3. QED
    BY <1>1, <2>2, FactIs
<1>9. QED
  BY <1>5, <1>6, <1>7, <1>8 DEF FactsInv

(* The other steps change neither the server nor the accounts.             *)
LEMMA FactsOthers ==
  ASSUME ReplayInv, FactsInv, Plan \/ Check \/ Finish \/ Cancel \/ UNCHANGED vars
  PROVE  FactsInv'
<1>1. /\ src' = src /\ server' = server /\ ran' = ran /\ rendered' = rendered
      /\ warned' = warned /\ skipped' = skipped /\ granted' = granted
      /\ phase \in Begun => archive' = archive /\ todo' = todo
  BY DEF Plan, Check, Finish, Cancel, vars, accounts, Begun
<1>2. phase \notin Begun => rendered = {} /\ skipped = {}
  BY DEF ReplayInv, DumpInv, AccountInv
<1>3. /\ objs' = objs /\ opt' = opt
  BY <1>1, SourceSteady
<1>4. RowsOnly
  BY <1>1, <1>2 DEF RowsOnly, AclEntries
<1>5. KeptInv'
  BY <1>1, <1>3 DEF FactsInv, KeptInv, Failed, Left
<1>6. SkippedInv'
  BY <1>1, <1>2, <1>3 DEF FactsInv, SkippedInv, OutcomeOf
<1>7. QED
  BY <1>4, <1>5, <1>6, RowsOnlyKeeps DEF FactsInv

(* They are true at the start: the server holds facts of the source.       *)
LEMMA FactsInit == ASSUME Init PROVE FactsInv
<1>1. /\ rendered = {} /\ skipped = {} /\ granted = {} /\ server = Before
  BY DEF Init
<1>2. AclEntries = {}
  BY <1>1 DEF AclEntries
<1>3. Objects(Publics(objs)) \subseteq SchemaFacts
  BY InSource DEF Objects, Publics
<1>4. server \subseteq SchemaFacts \cup DataFacts
  BY <1>1, <1>3 DEF Before
<1>5. DefaultInv
  <2> SUFFICES ASSUME NEW o \in objs, ByDefault(o) PROVE Fact("public", o) \in Before
    BY <1>1 DEF DefaultInv
  <2>1. Fact("public", o) \in SchemaFacts /\ Fact("object", o) \in Before
    BY <1>1 DEF ByDefault
  <2>2. Fact("object", o) \notin Objects(Publics(objs))
    <3>1. Catalog[o].grants = {} \/ Kind(o) = "aggregate"
      BY DEF ByDefault
    <3>2. Kind(o) # "schema"
      BY <2>1, <3>1, PublicInSource DEF PublicByDefault
    <3>3. QED
      BY <3>2, FactIs DEF Objects, Publics
  <2>3. QED
    BY <2>1, <2>2 DEF Before
<1>6. QED
  BY <1>1, <1>2, <1>4, <1>5
     DEF FactsInv, KeptInv, SkippedInv, GrantedInv, RevokedInv, SourceInv, Sourced, LastInv

LEMMA FactsNext == ASSUME ReplayInv, FactsInv, [Next]_vars PROVE FactsInv'
<1>1. phase = "write" => Planful
  BY DEF ReplayInv, SortInv, DumpInv, ArchiveInv, Planful
<1>2. CASE Entryward
  BY <1>1, <1>2, FactsTurn, EntrywardTurns DEF Turn
<1>3. CASE DropNext
  BY <1>3, FactsDrop
<1>4. CASE Plan \/ Check \/ Finish \/ Cancel \/ UNCHANGED vars
  BY <1>4, FactsOthers
<1>5. QED
  BY <1>2, <1>3, <1>4 DEF Next, Entryward

-----------------------------------------------------------------------------
(* A complete dump: what is selected was rendered, or skipped with reason. *)
Complete == ReplayInv /\ FactsInv /\ Planful /\ phase = "done"
LEMMA DoneEntry ==
  ASSUME Complete, NEW e \in archive.selected,
         e \notin warned \cap skipped, MemberOf(e) = 0, OutcomeOf(e) # "nothing"
  PROVE  /\ e \in rendered /\ e.t # "materialized-view-data"
         /\ Failed(e) \/ (e.t \in Hooked /\ "foreign" \in Marks(e.o)) \/ Left(e)
<1>1. EntriesAccounted
  BY AllAccounted DEF Complete, ReplayInv, DumpInv
<1>2. e \in rendered \/ e \in skipped
  BY <1>1 DEF Complete, EntriesAccounted
<1>3. e \notin skipped
  BY DEF Complete, FactsInv, SkippedInv
<1>4. QED
  BY <1>2, <1>3 DEF Complete, FactsInv, KeptInv

(* What the statement of a selected object brings is there.                *)
LEMMA DoneMade ==
  ASSUME Complete, NEW p \in objs, ObjectEntry(p) \in archive.selected, Keeper(p) = 0,
         OutcomeOf(ObjectEntry(p)) # "nothing",
         NEW o \in Parts(p, objs), ~ Absent(o),
         opt.target = "old" /\ Kind(p) = "table" => Kind(o) # "sequence"
  PROVE  /\ Fact("object", o) \in server
         /\ o # p /\ UsesOf(o, {"owned"}) # {} => Fact("owned", o) \in server
<1> DEFINE e == ObjectEntry(p)
<1>1. /\ e.t = Kind(p) /\ e.o = p /\ MemberOf(e) = 0 /\ Kind(e.o) \in Kinds
      /\ e \in archive.selected /\ OutcomeOf(e) # "nothing"
  BY OwnEntry DEF Complete
<1>2. e \notin warned \cap skipped /\ ~ Failed(e)
  BY SharesFate DEF Complete
<1> HIDE DEF e
<1>3. e.t \notin Hooked
  BY <1>1, KindsApart
<1>4. Left(e)
  BY <1>1, <1>2, <1>3, DoneEntry
<1>5. o \in MadeBy(e.o)
  BY <1>1 DEF MadeBy
<1>6. /\ Fact("object", o) \in Creates(e, objs, opt)
      /\ o # p /\ UsesOf(o, {"owned"}) # {} => Fact("owned", o) \in Creates(e, objs, opt)
  BY <1>1, <1>5, OwnCreates DEF Objects
<1>7. QED
  BY <1>4, <1>6, FactIs DEF Left

(* So is an object whose entry was wanted, unless another brings it.       *)
LEMMA DoneProvided ==
  ASSUME Complete, NEW y \in objs, ObjectEntry(y) \in Wanted,
         Keeper(y) # 0 \/ OutcomeOf(ObjectEntry(y)) # "nothing",
         NEW o, o = y \/ o \in DirectParts(y, objs), ~ Absent(o),
         opt.target = "old" /\ Kind(y) = "table" => Kind(o) # "sequence"
  PROVE  /\ Fact("object", o) \in server
         /\ (o # y \/ Keeper(y) # 0) /\ UsesOf(o, {"owned"}) # {} => Fact("owned", o) \in server
<1>1. /\ ~ HardExcluded(Provider(y), opt) /\ Provider(y).o \in objs
      /\ o \in Parts(Provider(y).o, objs)
  BY ProviderAsked DEF Complete
<1>2. Provider(y) \in archive.selected
  BY <1>1, ProviderSelected DEF Complete
<1>3. CASE Keeper(y) = 0
  <2>1. Provider(y) = ObjectEntry(y) /\ ObjectEntry(y).o = y
    BY <1>3, OwnEntry DEF Provider, Complete
  <2>2. QED
    BY <1>1, <1>2, <1>3, <2>1, DoneMade
<1>4. CASE Keeper(y) # 0
  <2> DEFINE p == Keeper(y)
  <2>1. /\ p \in objs /\ Kind(p) = "extension" /\ Keeper(p) = 0
        /\ Provider(y) = ObjectEntry(p) /\ ObjectEntry(p).o = p
    BY <1>4, OwnEntry DEF Provider, Complete
  <2>2. OutcomeOf(ObjectEntry(p)) # "nothing"
    BY <2>1, WithoutStatement DEF Complete
  <2>3. UsesOf(p, {"owned"}) = {}
    BY <2>1, OwnedByTable DEF Complete
  <2> HIDE DEF p
  <2>4. QED
    BY <1>1, <1>2, <2>1, <2>2, <2>3, DoneMade
<1>5. QED
  BY <1>3, <1>4

(* A table of which anything is not absent is there with its sequences.    *)
LEMMA DoneTable ==
  ASSUME Complete, NEW t \in objs, Kind(t) = "table",
         NEW o, o = t \/ o \in DirectParts(t, objs), ~ Absent(o),
         opt.target = "old" => Kind(o) # "sequence"
  PROVE  /\ Fact("object", o) \in server
         /\ o # t /\ UsesOf(o, {"owned"}) # {} => Fact("owned", o) \in server
<1>1. t \in archive.db /\ ~ HardExcluded(ObjectEntry(t), opt)
  BY ProviderAsked DEF Complete
<1>2. ObjectEntry(t) \in Wanted
  <2>1. ObjectEntry(t) \in archive.es /\ ObjectEntry(t) = Entry(Kind(t), t)
    BY <1>1, TableWanted DEF Complete, ObjectEntry
  <2>2. QED
    BY <1>1, <2>1, TableWanted DEF Complete
<1>3. OutcomeOf(ObjectEntry(t)) # "nothing"
  BY WithoutStatement DEF Complete
<1>4. QED
  BY <1>2, <1>3, DoneProvided

(* The sequence of an identity column is there, and is the table's.        *)
LEMMA DoneIdentity ==
  ASSUME Complete, NEW q \in objs, IdentitySequence(q, archive.db, opt), ~ Absent(q)
  PROVE  Fact("object", q) \in server /\ Fact("owned", q) \in server
<1>1. PICK t \in archive.db : t \in UsesOf(q, {"owned"}) /\ "identity" \in Marks(t)
  BY IdentityKnown DEF Complete
<1>2. opt.target # "old"
  BY IdentityKnown DEF Complete
<1>3. t \in objs /\ Kind(t) = "table" /\ Kind(q) = "sequence"
  BY <1>1, OwnedByTable DEF Complete
<1>4. q \in DirectParts(t, objs) /\ q # t
  BY <1>1, <1>3 DEF DirectParts
<1>5. QED
  BY <1>1, <1>2, <1>3, <1>4, DoneTable

(* What a key makes, the index or the constraint of a partition, is there. *)
LEMMA DoneKey ==
  ASSUME Complete, NEW k \in objs, Kind(k) \in {"constraint", "foreign-key"},
         Kind(On(k)) = "table", "child" \notin Marks(k), NEW o \in Parts(k, objs), ~ Absent(o)
  PROVE  Fact("object", o) \in server
<1>1. k \in archive.db /\ Keeper(k) = 0 /\ ObjectEntry(k) \in archive.selected
  BY AttachedSelected DEF Complete, Attached
<1>2. OutcomeOf(ObjectEntry(k)) # "nothing"
  BY WithoutStatement DEF Complete
<1>3. QED
  BY <1>1, <1>2, DoneMade

LEMMA DonePart ==
  ASSUME Complete, NEW o \in objs, UsesOf(o, {"part"}) # {}, ~ Absent(o)
  PROVE  Fact("object", o) \in server
<1>1. PICK k \in UsesOf(o, {"part"}) : TRUE
  OBVIOUS
<1>2. k \in objs /\ Kind(k) \in {"constraint", "foreign-key"} /\ Kind(On(k)) = "table"
  BY <1>1, MadeByKey DEF Complete
<1>3. o \in DirectParts(k, objs)
  BY <1>1 DEF DirectParts
<1>4. CASE "child" \notin Marks(k)
  BY <1>2, <1>3, <1>4, DoneKey, PartOf
<1>5. CASE "child" \in Marks(k)
  <2>1. k \in Ids
    BY <1>2, SourceFacts DEF Complete
  <2>2. UsesOf(k, {"part"}) # {}
    BY <1>2, <1>5, <2>1, ReferencesAssumption
  <2>3. PICK j \in UsesOf(k, {"part"}) : TRUE
    BY <2>2
  <2>4. /\ j \in objs /\ Kind(j) \in {"constraint", "foreign-key"} /\ Kind(On(j)) = "table"
        /\ "child" \notin Marks(j)
    BY <1>2, <2>3, MadeByKey DEF Complete
  <2>5. k \in DirectParts(j, objs)
    BY <1>2, <2>3 DEF DirectParts
  <2>6. o \in Parts(j, objs)
    BY <1>3, <2>4, <2>5, PartOf
  <2>7. QED
    BY <2>4, <2>6, DoneKey
<1>6. QED
  BY <1>4, <1>5

(* What is on another object has an edge to it.                            *)
LEMMA ParentEdge ==
  ASSUME NEW e, e.t = Kind(e.o), Kind(e.o) \in Kinds, On(e.o) # 0
  PROVE  ParentEdges(e) = {ObjectEntry(On(e.o))}
<1>1. e.t \notin {"column", "large-object-data", "large-object-metadata"}
  BY DEF Kinds
<1>2. QED
  BY <1>1 DEF ParentEdges

(* So every object is there that is asked for and not left out.            *)
LEMMA DoneObject ==
  ASSUME Complete, NEW o \in objs, ~ Absent(o), ~ LeftOut(ObjectEntry(o)), HasEntry(o),
         Kind(o) \in OptionalKinds => Kind(o) \in opt.include,
         ~ (opt.clean /\ "public" \in Marks(o))
  PROVE  Fact("object", o) \in server
<1> DEFINE e == ObjectEntry(o)
<1>1. o \in archive.db /\ ~ HardExcluded(e, opt) /\ PassesFilter(e, archive.db, opt.filter)
  BY PartOf, SharesFate DEF Complete, LeftOut
<1>2. o \in Ids
  BY SourceFacts DEF Complete
<1>3. CASE Kind(o) \in {"constraint", "foreign-key"} /\ "child" \in Marks(o)
  BY <1>2, <1>3, DonePart, ReferencesAssumption
<1>4. CASE ~ (Kind(o) \in {"constraint", "foreign-key"} /\ "child" \in Marks(o))
  <2>1. e \in archive.es
    BY <1>1, <1>4, EntriesMade DEF Complete
  <2>2. e \in Wanted
    BY <1>1, <2>1, WantedIs DEF Complete, Explicit
  <2>3. CASE Keeper(o) # 0 \/ OutcomeOf(e) # "nothing"
    BY <2>2, <2>3, DoneProvided
  <2>4. CASE OutcomeOf(e) = "nothing"
    <3>1. CASE Kind(o) = "schema" /\ "public" \in Marks(o)
      <4>1. Objects(Publics(objs)) \subseteq server
        BY <3>1 DEF Complete, ReplayInv, PublicInv
      <4>2. QED
        BY <3>1, <4>1 DEF Objects, Publics
    <3>2. CASE Kind(o) = "sequence" /\ IdentitySequence(o, archive.db, opt)
      BY <3>2, DoneIdentity
    <3>3. CASE Kind(o) = "constraint" /\ Kind(On(o)) = "domain"
      <4> DEFINE d == On(o)
      <4>1. d \in Ids /\ 0 \notin Ids
        BY <1>2, <3>3, SourceFacts, ReferencesAssumption DEF Attached, Complete
      <4>2. d \in objs /\ Kind(d) = "domain"
        BY <3>3, <4>1, SourceFacts DEF Complete
      <4>3. o \in DirectParts(d, objs)
        BY <4>2 DEF DirectParts
      <4>4. /\ d \in archive.db /\ ~ HardExcluded(ObjectEntry(d), opt)
            /\ ~ HardExcluded(Provider(d), opt)
        BY <4>2, <4>3, ProviderAsked DEF Complete
      <4>5. e.t = Kind(e.o) /\ e.o = o
        BY OwnEntry DEF Complete
      <4>6. ObjectEntry(d) \in HardTargets(e, archive.db) /\ ObjectEntry(d) # e
        <5>1. ObjectEntry(d).t = "domain"
          BY <4>2, OwnEntry DEF Complete
        <5>2. ParentEdges(e) = {ObjectEntry(d)}
          BY <1>2, <4>1, <4>5, CatalogAssumption, ParentEdge
        <5>3. QED
          BY <3>3, <4>5, <5>1, <5>2 DEF HardTargets
      <4> HIDE DEF d, e
      <4>7. ObjectEntry(d) \in Wanted
        BY <2>2, <4>2, <4>4, <4>6, LinkedSelected DEF Complete, HasEntry, OptionalKinds
      <4>8. OutcomeOf(ObjectEntry(d)) # "nothing"
        BY <4>2, WithoutStatement DEF Complete
      <4>9. QED
        BY <4>2, <4>3, <4>7, <4>8, DoneProvided
    <3>4. CASE Kind(o) = "index" /\ BackingIndex(o, archive.es)
      <4>1. UsesOf(o, {"part"}) # {}
        BY <1>2, <3>4, ReferencesAssumption DEF BackingIndex
      <4>2. QED
        BY <4>1, DonePart
    <3>5. QED
      BY <2>4, <3>1, <3>2, <3>3, <3>4, WithoutStatement DEF Complete
  <2>5. QED
    BY <2>3, <2>4
<1>5. QED
  BY <1>3, <1>4

(* A language of an extension comes with it.                               *)
LEMMA DoneLanguage ==
  ASSUME Complete, NEW o \in objs, ~ Absent(o), ~ HasEntry(o), ~ LeftOut(ObjectEntry(Ext(o)))
  PROVE  Fact("object", o) \in server
<1> DEFINE p == Ext(o)
<1>1. p \in objs /\ Kind(p) = "extension" /\ p # 0
  BY SourceFacts DEF Complete, HasEntry
<1>2. p \in Ids /\ Keeper(p) = 0 /\ HasEntry(p)
  BY <1>1, SourceFacts, ReferencesAssumption, KeeperIs DEF Complete
<1>3. o \in Parts(p, objs)
  <2>1. o \in DirectParts(p, objs)
    BY DEF DirectParts
  <2>2. QED
    BY <1>1, <2>1, PartOf
<1> DEFINE e == ObjectEntry(p)
<1>4. p \in archive.db /\ ~ HardExcluded(e, opt) /\ PassesFilter(e, archive.db, opt.filter)
  BY <1>1, <1>3, SharesFate DEF Complete, LeftOut
<1>5. e \in archive.es
  BY <1>1, <1>2, <1>4, EntriesMade DEF Complete, OptionalKinds
<1>6. MemberOf(e) = 0
  BY <1>1, <1>2, OwnEntry DEF Complete
<1> HIDE DEF p
<1>7. e \in archive.selected
  BY <1>4, <1>5, <1>6, WantedIs DEF Complete, Explicit
<1>8. OutcomeOf(e) # "nothing"
  BY <1>1, <1>4, WithoutStatement DEF Complete
<1>9. Kind(o) # "sequence"
  BY DEF HasEntry
<1>10. QED
  BY <1>1, <1>2, <1>3, <1>7, <1>8, <1>9, DoneMade

(* Every other entry that is not left out has done its work, but for those *)
(* without a statement.                                                    *)
LEMMA DoneSatellite ==
  ASSUME Complete, NEW e \in archive.es, e.t \notin Kinds, ~ LeftOut(e)
  PROVE  \/ /\ e \in rendered /\ e.t # "materialized-view-data" /\ ~ Failed(e)
            /\ (e.t \in Hooked /\ "foreign" \in Marks(e.o)) \/ Left(e)
         \/ e.t = "column"
         \/ e.t = "sequence-ownership" /\ IdentitySequence(e.o, archive.db, opt)
         \/ e.t = "ownership" /\ Kind(e.o) = "index"
<1>1. Kind(e.o) \in Kinds
  BY OwnEntryMade, OwnEntry DEF Complete
<1>2. MemberOf(e) = 0
  BY <1>1 DEF MemberOf
<1>3. e \in Explicit
  BY DEF Explicit, LeftOut
<1>4. e \in archive.selected
  BY <1>2, <1>3, WantedIs DEF Complete
<1>5. e \notin warned /\ ~ Failed(e)
  BY DEF LeftOut, Failed
<1>6. CASE OutcomeOf(e) # "nothing"
  BY <1>2, <1>4, <1>5, <1>6, DoneEntry
<1>7. CASE OutcomeOf(e) = "nothing"
  <2>1. Nothing(e, archive.es, archive.db, opt)
    BY <1>7 DEF OutcomeOf, Outcome
  <2>2. ~ (opt.bare /\ e.t \in {"comment", "ownership", "acl", "large-object-metadata"})
    BY DEF LeftOut
  <2>3. QED
    BY <2>1, <2>2 DEF Nothing, Kinds
<1>8. QED
  BY <1>6, <1>7

(* The entries of comments, owners and access control.                     *)
LEMMA MetadataMade ==
  ASSUME Planful, NEW o \in archive.db
  PROVE  /\ Kind(o) \in CommentedKinds /\ Catalog[o].comment =>
              Entry("comment", o) \in archive.es
         /\ Kind(o) \in OwnedKinds => Entry("ownership", o) \in archive.es
         /\ Kind(o) \in GrantedKinds => \A r \in Catalog[o].grants :
              [t |-> "acl", o |-> o, g |-> r] \in archive.es
<1>1. MetadataEntries(o) \subseteq archive.es
  BY PartsOfArchive DEF Entries, Metadata
<1>2. QED
  BY <1>1 DEF MetadataEntries

(* What of the source is not there is accounted for: objects, rows,        *)
LEMMA ObjectOrRows ==
  ASSUME Complete, NEW x, x.o \in objs, ~ AccountedFor(x),
         \/ x = Fact("object", x.o)
         \/ x = Fact("rows", x.o)
            /\ \/ Kind(x.o) \in {"materialized-view", "large-object"}
               \/ Kind(x.o) = "table" /\ Marks(x.o) \cap {"partitioned", "foreign"} = {}
         \/ x = Fact("state", x.o) /\ Kind(x.o) = "sequence"
  PROVE  x \in server
<1> DEFINE o == x.o
<1>1. /\ ~ Absent(o) /\ ~ LeftOut(EntryFor(x))
      /\ Kind(o) \in OptionalKinds => Kind(o) \in opt.include
      /\ ~ (opt.clean /\ "public" \in Marks(o))
      /\ x.f = "state" => "unreadable" \notin Marks(o)
  BY DEF AccountedFor
<1>2. o \in archive.db /\ o \in Ids
  BY <1>1, PartOf, SharesFate, SourceFacts DEF Complete
<1>3. CASE x = Fact("object", o)
  <2>1. EntryFor(x) = ObjectEntry(IF Kind(o) = "procedural-language" /\ Ext(o) # 0
                                  THEN Ext(o) ELSE o)
    BY <1>3, FactIs DEF EntryFor
  <2>2. CASE HasEntry(o)
    <3>1. EntryFor(x) = ObjectEntry(o)
      BY <2>1, <2>2 DEF HasEntry
    <3>2. QED
      BY <1>1, <1>3, <2>2, <3>1, DoneObject
  <2>3. CASE ~ HasEntry(o)
    <3>1. EntryFor(x) = ObjectEntry(Ext(o))
      BY <2>1, <2>3 DEF HasEntry
    <3>2. QED
      BY <1>1, <1>3, <2>3, <3>1, DoneLanguage
  <2>4. QED
    BY <2>2, <2>3
<1>4. ASSUME NEW t, t \notin Kinds \cup {"column", "sequence-ownership", "ownership"},
             t \in SatelliteTypes(o, archive.db), EntryFor(x) = Entry(t, o),
             Kind(o) \notin {"constraint", "foreign-key"}
      PROVE  /\ Entry(t, o) \in archive.es /\ t # "materialized-view-data"
             /\ (t \in Hooked /\ "foreign" \in Marks(o)) \/ Left(Entry(t, o))
  <2>1. Entry(t, o) \in archive.es
    <3>1. HasEntry(o)
      BY <1>4 DEF HasEntry, SatelliteTypes
    <3>2. QED
      BY <1>1, <1>2, <1>4, <3>1, EntriesMade DEF Complete
  <2>2. Entry(t, o).t = t /\ Entry(t, o).o = o
    BY DEF Entry
  <2>3. QED
    BY <1>1, <1>4, <2>1, <2>2, DoneSatellite
<1>5. ASSUME NEW t, t \notin Kinds, Kind(o) \in Kinds, Left(Entry(t, o))
      PROVE  /\ t \in Hooked => Fact("rows", o) \in server
             /\ t = "sequence-state" => Fact("state", o) \in server
  <2> DEFINE e == Entry(t, o)
  <2>1. e.t = t /\ e.o = o
    BY DEF Entry
  <2> HIDE DEF e
  <2>2. e.t # Kind(e.o)
    BY <1>5, <2>1
  <2>3. /\ t \in Hooked => Fact("rows", o) \in Creates(e, objs, opt)
        /\ t = "sequence-state" => Fact("state", o) \in Creates(e, objs, opt)
    BY <2>1, <2>2, CreatesBy
  <2>4. QED
    BY <1>5, <2>3, FactIs DEF Left, e
<1>6. Kind(o) \in Kinds
  BY <1>2, CatalogAssumption
<1>7. CASE x = Fact("state", o) /\ Kind(o) = "sequence"
  <2>1. x.f = "state"
    BY <1>7, FactIs
  <2>2. EntryFor(x) = Entry("sequence-state", o)
    BY <2>1 DEF EntryFor
  <2>3. "sequence-state" \in SatelliteTypes(o, archive.db)
    BY <1>1, <1>7, <2>1 DEF SatelliteTypes
  <2>4. Left(Entry("sequence-state", o))
    BY <1>4, <1>7, <2>2, <2>3 DEF Kinds, Hooked
  <2>5. QED
    BY <1>5, <1>6, <1>7, <2>4 DEF Kinds
<1>8. CASE x = Fact("rows", o) /\ Kind(o) = "table"
           /\ Marks(o) \cap {"partitioned", "foreign"} = {}
  <2>1. EntryFor(x) = Entry("table-data", o)
    BY <1>8, FactIs DEF EntryFor
  <2>2. "table-data" \in SatelliteTypes(o, archive.db)
    BY <1>8 DEF SatelliteTypes
  <2>3. Left(Entry("table-data", o))
    BY <1>4, <1>8, <2>1, <2>2 DEF Kinds
  <2>4. QED
    BY <1>5, <1>6, <1>8, <2>3 DEF Kinds, Hooked
<1>9. CASE x = Fact("rows", o) /\ Kind(o) = "large-object"
  <2>1. EntryFor(x) = Entry("large-object-data", o)
    BY <1>9, FactIs DEF EntryFor
  <2>2. "large-object-data" \in SatelliteTypes(o, archive.db)
    BY <1>9 DEF SatelliteTypes
  <2>3. "foreign" \notin Marks(o)
    BY <1>2, <1>9, ReferencesAssumption
  <2>4. Left(Entry("large-object-data", o))
    BY <1>4, <1>9, <2>1, <2>2, <2>3 DEF Kinds
  <2>5. QED
    BY <1>5, <1>6, <1>9, <2>4 DEF Kinds, Hooked
<1>10. CASE x = Fact("rows", o) /\ Kind(o) = "materialized-view"
  <2>1. EntryFor(x) = Entry("materialized-view-data", o)
    BY <1>10, FactIs DEF EntryFor
  <2>2. "materialized-view-data" \in SatelliteTypes(o, archive.db)
    BY <1>10 DEF SatelliteTypes
  <2>3. QED
    BY <1>4, <1>10, <2>1, <2>2 DEF Kinds
<1>11. QED
  BY <1>3, <1>7, <1>8, <1>9, <1>10

(* owners of sequences,                                                    *)
LEMMA OwnedThere ==
  ASSUME Complete, NEW x, x.o \in objs, ~ AccountedFor(x),
         x = Fact("owned", x.o), UsesOf(x.o, {"owned"}) # {}
  PROVE  x \in server
<1> DEFINE o == x.o
           e == Entry("sequence-ownership", o)
<1>1. x.f = "owned"
  BY FactIs
<1>2. EntryFor(x) = e
  BY <1>1 DEF EntryFor
<1>3. /\ ~ Absent(o) /\ ~ LeftOut(e)
      /\ \A t \in UsesOf(o, {"owned"}) : ~ Absent(t)
      /\ Kind(o) \in OptionalKinds => Kind(o) \in opt.include
  BY <1>1, <1>2 DEF AccountedFor
<1>4. o \in archive.db
  BY <1>3, PartOf, SharesFate DEF Complete
<1>5. PICK t \in UsesOf(o, {"owned"}) : TRUE
  OBVIOUS
<1>6. t \in objs /\ Kind(o) = "sequence"
  BY <1>5, OwnedByTable DEF Complete
<1>7. t \in archive.db
  BY <1>3, <1>5, <1>6, PartOf, SharesFate DEF Complete
<1>8. e \in archive.es
  <2>1. "sequence-ownership" \in SatelliteTypes(o, archive.db)
    BY <1>5, <1>6, <1>7 DEF SatelliteTypes, OwnerTable
  <2>2. HasEntry(o)
    BY <1>6 DEF HasEntry
  <2>3. QED
    BY <1>3, <1>4, <1>6, <2>1, <2>2, EntriesMade DEF Complete
<1>9. e.t = "sequence-ownership" /\ e.o = o /\ e.t \notin Kinds \cup Hooked
  BY DEF Entry, Kinds, Hooked
<1> HIDE DEF e
<1>10. CASE IdentitySequence(o, archive.db, opt)
  BY <1>3, <1>10, DoneIdentity
<1>11. CASE ~ IdentitySequence(o, archive.db, opt)
  <2>1. Left(e)
    BY <1>3, <1>8, <1>9, <1>11, DoneSatellite
  <2>2. e.t # Kind(e.o)
    BY <1>6, <1>9
  <2>3. x \in Creates(e, objs, opt)
    BY <1>9, <2>2, CreatesBy
  <2>4. QED
    BY <1>1, <2>1, <2>3 DEF Left
<1>12. QED
  BY <1>10, <1>11

(* comments, owners and what was granted,                                  *)
LEMMA MetadataThere ==
  ASSUME Complete, NEW x, x.o \in objs, ~ AccountedFor(x),
         \/ x = Fact("comment", x.o) /\ Catalog[x.o].comment
         \/ x = Fact("owner", x.o)
            /\ (Kind(x.o) = "large-object" \/ Kind(x.o) \in OwnedKinds \ {"index"})
         \/ x = Grant(x.o, x.g) /\ x.g \in Catalog[x.o].grants \ {Public}
  PROVE  x \in server
<1> DEFINE o == x.o
           e == EntryFor(x)
<1>1. /\ ~ Absent(o) /\ ~ LeftOut(e)
      /\ Kind(o) \in OptionalKinds => Kind(o) \in opt.include
      /\ x.f = "comment" => Kind(o) \in CommentedKinds \cup {"large-object"}
      /\ x.f = "grant" => Kind(o) \in GrantedKinds
  BY DEF AccountedFor
<1>2. o \in archive.db /\ o \in Ids
  BY <1>1, PartOf, SharesFate, SourceFacts DEF Complete
<1>3. Kind(o) \in Kinds
  BY <1>2, CatalogAssumption
<1>4. \A t : Entry(t, o).t = t /\ Entry(t, o).o = o
  BY DEF Entry
<1>5. Kind(o) = "large-object" => Entry("large-object-metadata", o) \in archive.es
  <2>1. Kind(o) = "large-object" => "large-object-metadata" \in SatelliteTypes(o, archive.db)
    BY DEF SatelliteTypes
  <2>2. Kind(o) = "large-object" => HasEntry(o)
    BY DEF HasEntry
  <2>3. QED
    BY <1>1, <1>2, <2>1, <2>2, EntriesMade DEF Complete
<1>6. ASSUME e \in archive.es, e.o = o,
             e.t \in {"comment", "ownership", "acl", "large-object-metadata"},
             e.t = "ownership" => Kind(o) # "index", x.f # "public",
             e.t # Kind(e.o) => x \in Creates(e, objs, opt)
      PROVE  x \in server
  <2>1. e.t \notin Kinds \cup Hooked
    BY <1>6 DEF Kinds, Hooked
  <2> HIDE DEF e
  <2>2. Left(e)
    BY <1>1, <1>6, <2>1, DoneSatellite
  <2>3. e.t # Kind(e.o)
    BY <1>3, <1>6, <2>1
  <2>4. QED
    BY <1>6, <2>2, <2>3 DEF Left
<1>7. CASE x = Fact("comment", o) /\ Catalog[o].comment
  <2>1. x.f = "comment"
    BY <1>7, FactIs
  <2>2. e = Entry(IF Kind(o) = "large-object" THEN "large-object-metadata" ELSE "comment", o)
    BY <2>1 DEF EntryFor
  <2>3. CASE Kind(o) = "large-object"
    <3>1. e = Entry("large-object-metadata", o)
      BY <2>2, <2>3
    <3> HIDE DEF e
    <3>2. e.t = "large-object-metadata" /\ e.o = o
      BY <1>4, <3>1
    <3>3. e.t # Kind(e.o) => x \in Creates(e, objs, opt)
      BY <1>7, <3>2, CreatesBy
    <3>4. QED
      BY <1>5, <1>6, <2>1, <2>3, <3>1, <3>2, <3>3
  <2>4. CASE Kind(o) # "large-object"
    <3>1. e = Entry("comment", o)
      BY <2>2, <2>4
    <3>2. Kind(o) \in CommentedKinds
      BY <1>1, <2>1, <2>4
    <3> HIDE DEF e
    <3>3. e.t = "comment" /\ e.o = o
      BY <1>4, <3>1
    <3>4. e.t # Kind(e.o) => x \in Creates(e, objs, opt)
      BY <1>7, <3>3, CreatesBy
    <3>5. e \in archive.es
      BY <1>2, <1>7, <3>1, <3>2, MetadataMade DEF Complete
    <3>6. QED
      BY <1>6, <2>1, <3>3, <3>4, <3>5
  <2>5. QED
    BY <2>3, <2>4
<1>8. CASE x = Fact("owner", o)
           /\ (Kind(o) = "large-object" \/ Kind(o) \in OwnedKinds \ {"index"})
  <2>1. x.f = "owner"
    BY <1>8, FactIs
  <2>2. e = Entry(IF Kind(o) = "large-object" THEN "large-object-metadata" ELSE "ownership", o)
    BY <2>1 DEF EntryFor
  <2>3. CASE Kind(o) = "large-object"
    <3>1. e = Entry("large-object-metadata", o)
      BY <2>2, <2>3
    <3> HIDE DEF e
    <3>2. e.t = "large-object-metadata" /\ e.o = o
      BY <1>4, <3>1
    <3>3. e.t # Kind(e.o) => x \in Creates(e, objs, opt)
      BY <1>8, <3>2, CreatesBy
    <3>4. QED
      BY <1>5, <1>6, <2>1, <2>3, <3>1, <3>2, <3>3
  <2>4. CASE Kind(o) # "large-object"
    <3>1. e = Entry("ownership", o) /\ Kind(o) \in OwnedKinds /\ Kind(o) # "index"
      BY <1>8, <2>2, <2>4
    <3> HIDE DEF e
    <3>2. e.t = "ownership" /\ e.o = o
      BY <1>4, <3>1
    <3>3. e.t # Kind(e.o) => x \in Creates(e, objs, opt)
      BY <1>8, <3>2, CreatesBy
    <3>4. e \in archive.es
      BY <1>2, <3>1, MetadataMade DEF Complete
    <3>5. QED
      BY <1>6, <2>1, <3>1, <3>2, <3>3, <3>4
  <2>5. QED
    BY <2>3, <2>4
<1>9. CASE x = Grant(o, x.g) /\ x.g \in Catalog[o].grants \ {Public}
  <2>1. x.f = "grant"
    BY <1>9, FactIs
  <2>2. e = [t |-> "acl", o |-> o, g |-> x.g]
    BY <2>1 DEF EntryFor
  <2> HIDE DEF e
  <2>3. e.t = "acl" /\ e.o = o /\ e.g = x.g /\ e.g # Public
    BY <1>9, <2>2
  <2>4. e \in archive.es
    BY <1>1, <1>2, <1>9, <2>1, <2>2, MetadataMade DEF Complete
  <2>5. e.t # Kind(e.o) => x \in Creates(e, objs, opt)
    BY <1>9, <2>3, CreatesBy
  <2>6. QED
    BY <1>6, <2>1, <2>3, <2>4, <2>5
<1>10. QED
  BY <1>7, <1>8, <1>9

(* and what PUBLIC may use.                                                *)
LEMMA PublicThere ==
  ASSUME Complete, NEW x, x.o \in objs, ~ AccountedFor(x), x = Fact("public", x.o),
         \/ Public \in Catalog[x.o].grants
         \/ Kind(x.o) \in PublicByDefault /\ Catalog[x.o].grants = {}
  PROVE  x \in server
<1> DEFINE o == x.o
           e == EntryFor(x)
<1>1. x.f = "public"
  BY FactIs
<1>2. /\ ~ Absent(o) /\ ~ LeftOut(e)
      /\ Kind(o) \in OptionalKinds => Kind(o) \in opt.include
      /\ ~ (opt.clean /\ "public" \in Marks(o))
      /\ Kind(o) \in GrantedKinds \cup PublicByDefault
  BY <1>1 DEF AccountedFor
<1>3. o \in archive.db
  BY <1>2, PartOf, SharesFate DEF Complete
<1>4. CASE Public \in Catalog[o].grants /\ Kind(o) \in GrantedKinds
  <2>1. e = [t |-> "acl", o |-> o, g |-> Public]
    BY <1>1, <1>4 DEF EntryFor
  <2> HIDE DEF e
  <2>2. e.t = "acl" /\ e.o = o /\ e.g = Public
    BY <2>1
  <2>3. e \in archive.es
    BY <1>3, <1>4, <2>1, MetadataMade DEF Complete
  <2>4. e.t \notin Kinds \cup Hooked
    BY <2>2 DEF Kinds, Hooked
  <2>5. e \in rendered /\ ~ Failed(e)
    BY <1>2, <2>2, <2>3, <2>4, DoneSatellite
  <2>6. e \in AclEntries
    BY <2>2, <2>5 DEF AclEntries
  <2>7. QED
    BY <2>2, <2>5, <2>6 DEF Complete, FactsInv, GrantedInv
<1>5. CASE ~ (Public \in Catalog[o].grants /\ Kind(o) \in GrantedKinds)
  <2>1. e = ObjectEntry(o)
    BY <1>1, <1>5 DEF EntryFor
  <2>2. Fact("object", o) \in server
    <3>1. HasEntry(o)
      BY <1>2 DEF HasEntry, GrantedKinds, PublicByDefault
    <3>2. QED
      BY <1>2, <2>1, <3>1, DoneObject
  <2>3. Catalog[o].grants = {} \/ Kind(o) = "aggregate"
    BY <1>2, <1>5 DEF GrantedKinds, PublicByDefault
  <2>4. Fact("public", o) \in SchemaFacts
    BY InSource
  <2>5. QED
    BY <2>2, <2>3, <2>4 DEF Complete, FactsInv, DefaultInv, ByDefault
<1>6. QED
  BY <1>4, <1>5

(* What the source has, then, is there or accounted for.                   *)
LEMMA NothingMissing ==
  ASSUME Complete, NEW x \in (SchemaFacts \cup DataFacts) \ server
  PROVE  AccountedFor(x)
<1>1. x.o \in objs /\ SourceFact(x)
  BY SourceHas
<1>2. QED
  BY <1>1, ObjectOrRows, OwnedThere, MetadataThere, PublicThere DEF SourceFact

(* And what PUBLIC may use there and not in the source was granted to no   *)
(* one by the dump.                                                        *)
LEMMA NothingAdded ==
  ASSUME Complete, NEW x \in server \ (SchemaFacts \cup DataFacts)
  PROVE  Unrevoked(x)
<1> DEFINE o == x.o
<1>1. o \in objs /\ x = Fact("public", o) /\ Kind(o) \in PublicByDefault
  BY DEF Complete, FactsInv, SourceInv, Sourced
<1>2. Public \notin Catalog[o].grants
  BY <1>1, InSource
<1>3. x.f = "public"
  BY <1>1, FactIs
<1>4. ASSUME Kind(o) # "aggregate", NEW r \in Catalog[o].grants
      PROVE  LeftOut([t |-> "acl", o |-> o, g |-> r])
  <2> DEFINE e == [t |-> "acl", o |-> o, g |-> r]
  <2>1. e.t = "acl" /\ e.o = o /\ e.g = r
    OBVIOUS
  <2> SUFFICES ASSUME ~ LeftOut(e) PROVE FALSE
    OBVIOUS
  <2>2. Kind(o) \in {"function", "procedure", "enum", "domain"}
    BY <1>1, <1>4 DEF PublicByDefault
  <2>3. o \in archive.db
    <3>1. o \in Ids
      BY <1>1, SourceFacts DEF Complete
    <3>2. Schema(o) # 0
      BY <2>2, <3>1, ReferencesAssumption DEF InSchemas
    <3>3. FiledUnder(e.o) = Schema(o)
      BY <2>1, <2>2 DEF FiledUnder
    <3> HIDE DEF e
    <3>4. SchemaSelected(Schema(o), opt.filter)
      BY <3>2, <3>3 DEF LeftOut, PassesFilter
    <3>5. o \in RoutinesKept(objs, opt.filter) \cup TypesKept(objs, opt.filter)
      BY <1>1, <2>2, <3>4 DEF RoutinesKept, TypesKept, InSelectedSchema
    <3>6. o \in Introspected(objs, opt.filter)
      BY <3>5 DEF Introspected
    <3>7. QED
      BY <3>6, PartsOfArchive DEF Complete
  <2>4. e \in archive.es
    BY <2>2, <2>3, MetadataMade DEF Complete, GrantedKinds
  <2> HIDE DEF e
  <2>5. e.t \notin Kinds \cup Hooked
    BY <2>1 DEF Kinds, Hooked
  <2>6. e \in rendered /\ ~ Failed(e)
    BY <2>1, <2>4, <2>5, DoneSatellite
  <2>7. e \in AclEntries /\ Restricted(e)
    BY <1>1, <1>2, <2>1, <2>6 DEF AclEntries, Restricted
  <2>8. Fact("public", o) \notin server
    BY <2>1, <2>6, <2>7 DEF Complete, FactsInv, RevokedInv
  <2>9. QED
    BY <1>1, <2>8
<1>5. QED
  BY <1>3, <1>4 DEF Unrevoked

(* The invariant of what the server holds, throughout every dump.          *)
THEOREM FactsInvariance == Spec => []FactsInv
<1>1. Init => ReplayInv /\ FactsInv
  BY ReplayInit, FactsInit
<1>2. ReplayInv /\ FactsInv /\ [Next]_vars => (ReplayInv /\ FactsInv)'
  BY ReplayNext, FactsNext
<1>3. QED
  BY <1>1, <1>2, PTL DEF Spec

(* PlainSqlRenderer.ts, ArchiveBuilder.ts, SqlRenderer.ts: replayed, a     *)
(* complete dump leaves what the source has, but for what was left out     *)
(* with an account of it or failed, and grants PUBLIC nothing that was     *)
(* revoked from it.                                                        *)
THEOREM ReplayRestoresSource == Spec => []RestoredAsSource
<1>1. ReplayInv /\ FactsInv => RestoredAsSource
  <2> SUFFICES ASSUME ReplayInv, FactsInv, phase = "done"
               PROVE  /\ \A x \in (SchemaFacts \cup DataFacts) \ server : AccountedFor(x)
                      /\ \A x \in server \ (SchemaFacts \cup DataFacts) : Unrevoked(x)
    BY DEF RestoredAsSource
  <2>1. Complete
    BY DEF Complete, ReplayInv, SortInv, DumpInv, ArchiveInv, Planful
  <2>2. QED
    BY <2>1, NothingMissing, NothingAdded
<1>2. QED
  BY <1>1, ReplayInvariance, FactsInvariance, PTL
=============================================================================
