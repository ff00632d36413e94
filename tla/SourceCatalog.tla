---------------------------- MODULE SourceCatalog ----------------------------
(****************************************************************************)
(* What introspection delivers of a PostgreSQL database: which of its       *)
(* objects enter the model, and which of the references between them        *)
(* (introspection/*, selection/Selection.ts).                               *)
(*                                                                          *)
(* The source database is a set of object ids; Catalog describes each:      *)
(*   kind, schema   the archive's object type, and the id of its schema     *)
(*                  (0 for the kinds that are in none)                      *)
(*   on             the relation a constraint, index, trigger, rule,        *)
(*                  policy, or domain check belongs to (0 when none)        *)
(*   name           same-named objects share it                             *)
(*   ext            the extension that owns the object (0 when none)        *)
(*   uses           what the object needs, [how, to]; how says how the      *)
(*                  catalogs record it:                                     *)
(*       "object"   a reference by oid (foreign-key target, parent table,   *)
(*                  trigger function, published table), "server" the one    *)
(*                  of a foreign table                                      *)
(*       "row"      a relation as a whole, "columns" some of its columns,   *)
(*                  "rowtype" its row type                                  *)
(*       "type"     an enum or a domain (of a column, for a table)          *)
(*       "routine"  a function, procedure or aggregate                      *)
(*       "owned"    the table whose column owns a sequence                  *)
(*       "text"     inside an expression the catalogs queries do not follow *)
(*       "key"      a constraint: the key behind a foreign key, or the      *)
(*                  primary key a view's GROUP BY relies on                 *)
(*       "part"     the key whose statement makes the object: that of an    *)
(*                  index, and for a partition's key (marked "child") the   *)
(*                  one of the partitioned table                            *)
(*   marks          properties the renderer looks at                        *)
(*   comment, grants   whether it has a comment, and the grantees of its    *)
(*                  access control list                                     *)
(* A filter is [schemas, noSchemas, tables, noTables], sets of ids.         *)
(****************************************************************************)
EXTENDS Naturals, FiniteSets

CONSTANT Catalog

Ids == DOMAIN Catalog
Kind(o) == Catalog[o].kind
Schema(o) == Catalog[o].schema
On(o) == Catalog[o].on
Ext(o) == Catalog[o].ext
Uses(o) == Catalog[o].uses
Marks(o) == Catalog[o].marks

UsesOf(o, hows) == {u.to : u \in {x \in Uses(o) : x.how \in hows}}

\* The archive's object types that are kinds of object.
Kinds ==
    {"database", "schema", "extension", "enum", "domain", "sequence", "table", "constraint",
     "foreign-key", "index", "view", "materialized-view", "function", "procedure",
     "aggregate", "trigger", "rule", "policy", "statistics", "publication", "subscription",
     "event-trigger", "procedural-language", "foreign-data-wrapper", "foreign-server",
     "user-mapping", "tablespace", "role", "large-object", "security-label"}

ASSUME CatalogAssumption ==
    /\ IsFiniteSet(Ids) /\ Ids \subseteq Nat \ {0}
    /\ \A o \in Ids :
        /\ Kind(o) \in Kinds
        /\ Schema(o) = 0 \/ Kind(Schema(o)) = "schema"
        /\ Ext(o) = 0 \/ (Ext(o) \in Ids /\ Kind(Ext(o)) = "extension")
        /\ \A u \in Uses(o) : u.to \in Ids
        /\ IsFiniteSet(Catalog[o].grants) /\ Catalog[o].grants \subseteq Nat

(***************************************************************************)
(* What PostgreSQL guarantees of them, and what is recorded how.  An       *)
(* object that belongs to a relation is in its schema and no member of an  *)
(* extension, and neither is the schema public; keys and indexes have no   *)
(* other references than their expressions'.                               *)
(***************************************************************************)
Mapped == {"object", "row", "columns", "rowtype", "type", "routine"}
Attached == {"constraint", "foreign-key", "index", "trigger", "rule", "policy"}

\* Kinds that are in a schema, those attached to something apart.
InSchemas == {"enum", "domain", "sequence", "table", "view", "materialized-view", "function",
              "procedure", "aggregate", "statistics"}

\* Kinds a catalog reference may lead to.
Referable ==
    {"schema", "extension", "enum", "domain", "sequence", "table", "view",
     "materialized-view", "function", "procedure", "aggregate", "procedural-language",
     "foreign-data-wrapper", "foreign-server", "tablespace", "role"}

RecordedUses(o) ==
    CASE Kind(o) \in {"enum", "schema"} -> {}
      [] Kind(o) = "sequence" -> {"owned"}
      [] Kind(o) \in {"constraint", "index"} -> {"part", "text"}
      [] Kind(o) = "foreign-key" -> {"object", "key", "part"}
      [] Kind(o) = "table" -> {"object", "server", "type", "rowtype", "text"}
      [] OTHER -> Mapped \cup {"text", "key"}

UsesFit(o, u) ==
    /\ u.how \in RecordedUses(o)
    /\ u.how \in Mapped => Kind(u.to) \in Referable
    /\ u.how = "server" => Kind(u.to) = "foreign-server"
    /\ u.how = "type" => Kind(u.to) \in {"enum", "domain"}
    /\ u.how = "object" /\ Kind(o) \in {"table", "foreign-key"} => Kind(u.to) = "table"
    /\ u.how = "object" /\ Kind(o) = "foreign-key" => "foreign" \notin Marks(u.to)
    /\ u.how = "owned" => /\ Kind(u.to) = "table" /\ Schema(u.to) = Schema(o)
                          /\ "identity" \in Marks(u.to) => Ext(u.to) = Ext(o)
    /\ u.how = "part" =>
         /\ Kind(u.to) \in {"constraint", "foreign-key"} /\ Kind(On(u.to)) = "table"
         /\ Kind(o) = "index" => Kind(u.to) = "constraint" /\ On(u.to) = On(o)
         /\ Kind(o) # "index" => /\ "child" \in Marks(o) /\ Kind(u.to) = Kind(o)
                                 /\ "child" \notin Marks(u.to)

ASSUME ReferencesAssumption ==
    \A o \in Ids :
        /\ \A u \in Uses(o) : UsesFit(o, u)
        /\ Kind(o) \notin Attached => On(o) = 0
        /\ Kind(o) \in Attached =>
             /\ On(o) \in Ids /\ Schema(o) = Schema(On(o)) /\ Ext(o) = 0
             /\ Kind(On(o)) \in {"table", "view", "materialized-view", "domain"}
             /\ Kind(On(o)) = "domain" => Kind(o) = "constraint"
             /\ Kind(o) \in {"constraint", "foreign-key"} => Kind(On(o)) \in {"table", "domain"}
        /\ Kind(o) = "extension" => Ext(o) = 0
        /\ Kind(o) = "schema" => Schema(o) = 0
        /\ Kind(o) = "schema" /\ "public" \in Marks(o) => Ext(o) = 0
        /\ Kind(o) \in InSchemas => Schema(o) # 0
        /\ "foreign" \in Marks(o) => Kind(o) = "table"
        /\ Kind(o) = "index" /\ "primary" \in Marks(o) => UsesOf(o, {"part"}) # {}
        /\ Kind(o) \in {"constraint", "foreign-key"} /\ "child" \in Marks(o) =>
             UsesOf(o, {"part"}) # {}

(***************************************************************************)
(* The filter, applied while the catalogs are read: to schemas and tables, *)
(* and to what is in a schema.  Kinds that are in no schema are read       *)
(* whole, and so are extensions and statistics.                            *)
(***************************************************************************)
SchemaSelected(s, f) ==
    /\ f.schemas = {} \/ s \in f.schemas
    /\ s \notin f.noSchemas

TableSelected(t, f) ==
    /\ f.tables = {} \/ t \in f.tables
    /\ t \notin f.noTables

InSelectedSchema(objs, kinds, f) ==
    {o \in objs : Kind(o) \in kinds /\ SchemaSelected(Schema(o), f)}

SchemasKept(objs, f) == {o \in objs : Kind(o) = "schema" /\ SchemaSelected(o, f)}
TablesKept(objs, f) == {t \in InSelectedSchema(objs, {"table"}, f) : TableSelected(t, f)}
TypesKept(objs, f) == InSelectedSchema(objs, {"enum", "domain"}, f)
SequencesKept(objs, f) == InSelectedSchema(objs, {"sequence"}, f)
ViewsKept(objs, f) == InSelectedSchema(objs, {"view", "materialized-view"}, f)
RoutinesKept(objs, f) == InSelectedSchema(objs, {"function", "procedure"}, f)
AggregatesKept(objs, f) == InSelectedSchema(objs, {"aggregate"}, f)

(***************************************************************************)
(* What is attached to a relation or a domain is kept with it; a foreign   *)
(* key needs both its tables, and policies are those of tables.            *)
(***************************************************************************)
KeysKept(objs, owners) ==
    {o \in objs : /\ Kind(o) \in {"constraint", "foreign-key"}
                  /\ On(o) \in owners
                  /\ Kind(o) = "foreign-key" => UsesOf(o, {"object"}) \subseteq owners}

IndexesKept(objs, relations) == {o \in objs : Kind(o) = "index" /\ On(o) \in relations}
TriggersKept(objs, relations) == {o \in objs : Kind(o) = "trigger" /\ On(o) \in relations}
RulesKept(objs, relations) == {o \in objs : Kind(o) = "rule" /\ On(o) \in relations}
PoliciesKept(objs, tables) == {o \in objs : Kind(o) = "policy" /\ On(o) \in tables}

AdvancedKinds ==
    {"extension", "foreign-data-wrapper", "foreign-server", "user-mapping", "event-trigger",
     "procedural-language", "publication", "subscription", "tablespace", "role",
     "statistics", "large-object"}
AdvancedKept(objs) == {o \in objs : Kind(o) \in AdvancedKinds}

Introspected(objs, f) ==
    LET tables == TablesKept(objs, f)
        relations == tables \cup ViewsKept(objs, f)
        types == TypesKept(objs, f)
    IN UNION {SchemasKept(objs, f), relations, types, SequencesKept(objs, f),
              RoutinesKept(objs, f), AggregatesKept(objs, f),
              KeysKept(objs, tables \cup types), IndexesKept(objs, relations),
              TriggersKept(objs, relations), RulesKept(objs, relations),
              PoliciesKept(objs, tables), AdvancedKept(objs)}

(***************************************************************************)
(* A sequence's state is read from the sequence itself.  Where that fails, *)
(* the state is left out; but a transaction the session runs in is then    *)
(* aborted, and the next catalog query fails.                              *)
(***************************************************************************)
StateUnreadable(objs, f) == {q \in SequencesKept(objs, f) : "unreadable" \in Marks(q)}

CatalogsReadable(objs, f, session) == session = "none" \/ StateUnreadable(objs, f) = {}

(***************************************************************************)
(* The references introspection delivers with an object: none for types,   *)
(* schemas, extensions, languages, wrappers and what it does not follow    *)
(* the expressions of, a table's parents alone, and no constraint, whose   *)
(* catalog is not among those it maps.                                     *)
(***************************************************************************)
Delivered(o) ==
    CASE Kind(o) \in {"enum", "domain", "schema", "extension", "procedural-language",
                      "foreign-data-wrapper", "sequence", "constraint", "index"} -> {}
      [] Kind(o) = "table" -> {u \in Uses(o) : u.how = "object"}
      [] OTHER -> {u \in Uses(o) : u.how \in Mapped}

\* The table whose column owns sequence o, when both were kept ({} otherwise).
OwnerTable(o, kept) == UsesOf(o, {"owned"}) \cap kept

\* The kinds createOwnerships lists, those the comment lookup knows, and those
\* whose access control lists are found again (an aggregate's is looked up as
\* a function's, and is not).
OwnedKinds ==
    {"database", "schema", "table", "sequence", "enum", "domain", "index", "view",
     "materialized-view", "function", "procedure", "aggregate"}
CommentedKinds ==
    OwnedKinds \cup {"constraint", "foreign-key", "trigger", "rule", "policy"}
GrantedKinds ==
    {"database", "schema", "table", "sequence", "enum", "domain", "view",
     "materialized-view", "function", "procedure"}
==============================================================================
