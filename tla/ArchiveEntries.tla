---------------------------- MODULE ArchiveEntries ----------------------------
(****************************************************************************)
(* The archive of a database: its entries and the edges between them        *)
(* (archive/ArchiveBuilder.ts).                                             *)
(*                                                                          *)
(* An entry is [t, o, g]: an object type, the object it is about, and the   *)
(* grantee of an access-control entry (0 otherwise).  An object of kind K   *)
(* has the entry [K, o, 0]; the other entries about o are its satellites.   *)
(* The columns of a table are one entry.  An edge is [from, to, hard]; a    *)
(* preference orders two entries and nothing more.                          *)
(*                                                                          *)
(* db is what introspection delivered, a set of object ids, and inc the     *)
(* optional kinds the caller asked to include.                              *)
(****************************************************************************)
EXTENDS SourceCatalog

Entry(t, o) == [t |-> t, o |-> o, g |-> 0]
ObjectEntry(o) == Entry(Kind(o), o)

OptionalKinds == {"role", "user-mapping", "subscription", "security-label",
                  "event-trigger", "large-object"}

\* The schema an entry of o is filed under (0 for none).
FiledUnder(o) == IF Kind(o) = "schema" THEN o ELSE Schema(o)

(***************************************************************************)
(* Partitions' inherited constraints come back with their parent's, and a  *)
(* language of an extension counts as provided by the system; a sequence   *)
(* whose state could not be read has no entry for it.                      *)
(***************************************************************************)
Planned(db, inc) ==
    {o \in db : /\ Kind(o) \in OptionalKinds => Kind(o) \in inc
                /\ Kind(o) \in {"constraint", "foreign-key"} => "child" \notin Marks(o)
                /\ Kind(o) = "procedural-language" => Ext(o) = 0}

SatelliteTypes(o, db) ==
    (IF Kind(o) = "table" THEN {"column"} ELSE {})
      \cup (IF Kind(o) = "table" /\ "partitioned" \notin Marks(o) THEN {"table-data"} ELSE {})
      \cup (IF Kind(o) = "sequence" /\ OwnerTable(o, db) # {} THEN {"sequence-ownership"} ELSE {})
      \cup (IF Kind(o) = "sequence" /\ "unreadable" \notin Marks(o) THEN {"sequence-state"} ELSE {})
      \cup (IF Kind(o) = "materialized-view" THEN {"materialized-view-data"} ELSE {})
      \cup (IF Kind(o) = "large-object"
            THEN {"large-object-data", "large-object-metadata"} ELSE {})

MetadataEntries(o) ==
    (IF Kind(o) \in CommentedKinds /\ Catalog[o].comment THEN {Entry("comment", o)} ELSE {})
      \cup (IF Kind(o) \in OwnedKinds THEN {Entry("ownership", o)} ELSE {})
      \cup (IF Kind(o) \in GrantedKinds
            THEN {[t |-> "acl", o |-> o, g |-> r] : r \in Catalog[o].grants} ELSE {})

EntriesOf(o, db) == {ObjectEntry(o)} \cup {Entry(t, o) : t \in SatelliteTypes(o, db)}

Described(db, inc) == UNION {EntriesOf(o, db) : o \in Planned(db, inc)}
Metadata(db) == UNION {MetadataEntries(o) : o \in db}

Entries(db, inc) == Described(db, inc) \cup Metadata(db)

(***************************************************************************)
(* An entry is identified by its type, schema, name and parent's name.  A  *)
(* comment's parent is the object itself, whose table the identity leaves  *)
(* out: the comments of two same-named triggers collide, and the archive   *)
(* is refused.                                                             *)
(***************************************************************************)
Identity(e) ==
    <<e.t, FiledUnder(e.o), Catalog[e.o].name, Kind(e.o), e.g,
      IF e.t = Kind(e.o) THEN On(e.o) ELSE 0>>

IdentitiesDistinct(es) == \A d, e \in es : Identity(d) = Identity(e) => d = e

(***************************************************************************)
(* What a delivered reference resolves to.  A whole relation, a type, a    *)
(* function or an aggregate is found again.  A column reference carries    *)
(* the column's number where the entries are registered by name; a row     *)
(* type has no entry; a routine reference is by kind function, under which *)
(* a procedure is not registered.                                          *)
(***************************************************************************)
\* Mutant of Resolved: relations referenced as a whole are not looked up.
ResolvedByKindOnly(u) ==
    IF u.how \in {"columns", "rowtype", "row"} \/ (u.how = "routine" /\ Kind(u.to) = "procedure")
    THEN {} ELSE {ObjectEntry(u.to)}

Resolved(u) ==
    IF u.how \in {"columns", "rowtype"} \/ (u.how = "routine" /\ Kind(u.to) = "procedure")
    THEN {} ELSE {ObjectEntry(u.to)}

\* The edges every entry made from a catalog object has: to its schema, to what
\* its references resolve to, and to its parent.
SchemaEdges(e) ==
    IF FiledUnder(e.o) # 0 /\ e.t # "schema" THEN {Entry("schema", FiledUnder(e.o))} ELSE {}

FromObject == {"sequence-ownership", "sequence-state", "table-data", "materialized-view-data"}

ReferenceEdges(e) == UNION {Resolved(u) : u \in Delivered(e.o)}

\* The columns of a key or an index, and of the column a sequence belongs to.
ColumnEdges(e, db) ==
    CASE e.t \in {"constraint", "index"} -> {Entry("column", On(e.o))}
      [] e.t = "foreign-key" ->
           {Entry("column", t) : t \in {On(e.o)} \cup UsesOf(e.o, {"object"})}
      [] e.t \in {"sequence-ownership", "sequence-state"} ->
           {Entry("column", t) : t \in OwnerTable(e.o, db)}
      [] OTHER -> {}

CatalogEdges(e, db) ==
    (IF e.t = Kind(e.o) \/ e.t \in FromObject THEN ReferenceEdges(e) ELSE {})
      \cup ColumnEdges(e, db)

ParentEdges(e) ==
    CASE e.t = Kind(e.o) /\ On(e.o) # 0 -> {ObjectEntry(On(e.o))}
      [] e.t \in {"column", "large-object-data", "large-object-metadata"} -> {ObjectEntry(e.o)}
      [] OTHER -> {}

(***************************************************************************)
(* The edges addSemanticDependencies adds by type of entry.  A column's    *)
(* types are listed in the uses of its table.                              *)
(***************************************************************************)
OwnedSequences(t, db) == {q \in db : Kind(q) = "sequence" /\ t \in OwnerTable(q, db)}

SemanticEdges(e, db) ==
    CASE e.t = "column" ->
           {ObjectEntry(x) : x \in UsesOf(e.o, {"type"}) \cup OwnedSequences(e.o, db)}
      [] e.t = "table" ->
           {ObjectEntry(x) : x \in OwnedSequences(e.o, db) \cup UsesOf(e.o, {"server"})}
      [] e.t \in {"comment", "ownership", "acl", "table-data", "materialized-view-data",
                  "sequence-ownership"} -> {ObjectEntry(e.o)}
      [] e.t = "sequence-state" ->
           {ObjectEntry(e.o)} \cup {Entry("table-data", t) : t \in OwnerTable(e.o, db)}
      [] OTHER -> {}

Preferences(e) ==
    CASE e.t = "foreign-key" ->
           {Entry("table-data", t) : t \in {On(e.o)} \cup UsesOf(e.o, {"object"})}
      [] e.t \in {"constraint", "index", "trigger"} -> {Entry("table-data", On(e.o))}
      [] OTHER -> {}

(***************************************************************************)
(* A member of an extension depends on it, and so does every entry with an *)
(* edge to the member: if it is marked as one, which takes a name in the   *)
(* query of members and an entry registered by the kind the reference has. *)
(* Wrappers, servers and event triggers get no name, and a procedure is    *)
(* looked up as a function.                                                *)
(***************************************************************************)
MarkedKinds == {"schema", "enum", "domain", "sequence", "table", "view", "materialized-view",
                "function", "aggregate"}

MemberOf(e) == IF e.t = Kind(e.o) /\ Kind(e.o) \in MarkedKinds THEN Ext(e.o) ELSE 0

\* A member the archive takes for an object of its own.
Unmarked(o) == Ext(o) # 0 /\ Kind(o) \notin MarkedKinds \cup {"procedural-language"}

WithExtensions(edges) ==
    edges
      \cup {[from |-> d.from, to |-> Entry("extension", MemberOf(d.to)), hard |-> TRUE]
              : d \in {x \in edges : MemberOf(x.to) # 0}}

MemberEdges(es) ==
    {[from |-> e, to |-> Entry("extension", MemberOf(e)), hard |-> TRUE]
       : e \in {x \in es : MemberOf(x) # 0}}

HardTargets(e, db) ==
    SchemaEdges(e) \cup CatalogEdges(e, db) \cup ParentEdges(e) \cup SemanticEdges(e, db)

Edges(es, db) ==
    LET hard == UNION {{[from |-> e, to |-> d, hard |-> TRUE]
                          : d \in (HardTargets(e, db) \cap es) \ {e}} : e \in es}
        soft == UNION {{[from |-> e, to |-> d, hard |-> FALSE]
                          : d \in Preferences(e) \cap es} : e \in es}
    IN WithExtensions(hard \cup soft) \cup MemberEdges(es)
===============================================================================
