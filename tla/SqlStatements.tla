---------------------------- MODULE SqlStatements ----------------------------
(****************************************************************************)
(* The SQL of an archive entry (renderer/SqlRenderer.ts): whether there is  *)
(* a statement at all, and what it does to the server it is run on.         *)
(*                                                                          *)
(* A server is the set of facts that hold on it, [f, o, g]:                 *)
(*   "object" o exists            "rows" its rows or contents are loaded    *)
(*   "state"  of a sequence       "owned" the sequence belongs to a column  *)
(*   "comment", "owner"           "grant" to role g                         *)
(*   "public" PUBLIC may use it: granted, or PostgreSQL's default           *)
(* PostgreSQL's side of a statement (what it needs, creates and refuses to  *)
(* drop) is external.                                                       *)
(*                                                                          *)
(* opt.target is "same", or "old" for a target with none of the later       *)
(* capabilities; opt.policy the unsupportedFeaturePolicy asked for.         *)
(****************************************************************************)
EXTENDS ArchiveSelection

Fact(f, o) == [f |-> f, o |-> o, g |-> 0]
Grant(o, r) == [f |-> "grant", o |-> o, g |-> r]
Public == 1
Objects(S) == {Fact("object", o) : o \in S}

Policy(opt) ==
    IF opt.policy # "default" THEN opt.policy
    ELSE IF opt.target = "old" THEN "warn-skip" ELSE "error"

(***************************************************************************)
(* What an old target lacks.  whole: the entry has no statement without    *)
(* it; safe: it may be dropped; down: there is something to put instead    *)
(* (for an identity column its sequence, which is selected with it).       *)
(***************************************************************************)
Lacking(whole, safe, down) == [whole |-> whole, safe |-> safe, down |-> down]

Having(mark, marks, ft) == IF mark \in marks THEN {ft} ELSE {}

\* Kinds of object an old target has nothing for.
LaterKinds == {"procedure", "publication", "subscription", "statistics"}

ColumnFeatures(m) ==
    Having("identity", m, Lacking(FALSE, FALSE, TRUE))
      \cup Having("generated", m, Lacking(FALSE, FALSE, FALSE))
      \cup Having("compressed", m, Lacking(FALSE, TRUE, FALSE))
TableFeatures(m) ==
    Having("partitioned", m, Lacking(TRUE, FALSE, FALSE))
      \cup Having("partition", m, Lacking(TRUE, FALSE, FALSE))
      \cup Having("access-method", m, Lacking(FALSE, FALSE, FALSE))
      \cup ColumnFeatures(m)
KeyFeatures(m) == Having("nulls", m, Lacking(FALSE, FALSE, FALSE))
IndexFeatures(m) == Having("include", m, Lacking(FALSE, TRUE, TRUE))
ViewFeatures(m) == Having("invoker", m, Lacking(FALSE, FALSE, FALSE))
MaterializedViewFeatures(m) == Having("access-method", m, Lacking(FALSE, FALSE, FALSE))
FunctionFeatures(m) == Having("support", m, Lacking(TRUE, FALSE, FALSE))
PolicyFeatures(m) == Having("restrictive", m, Lacking(TRUE, FALSE, FALSE))
OwnershipFeatures(m) == Having("database-owner", m, Lacking(TRUE, TRUE, TRUE))

Features(e) ==
    LET m == Marks(e.o)
    IN CASE e.t \in LaterKinds -> {Lacking(TRUE, FALSE, FALSE)}
         [] e.t = "table" -> TableFeatures(m)
         [] e.t = "constraint" -> KeyFeatures(m)
         [] e.t = "index" -> IndexFeatures(m)
         [] e.t = "view" -> ViewFeatures(m)
         [] e.t = "materialized-view" -> MaterializedViewFeatures(m)
         [] e.t = "function" -> FunctionFeatures(m)
         [] e.t = "policy" -> PolicyFeatures(m)
         [] e.t = "ownership" -> OwnershipFeatures(m)
         [] OTHER -> {}

Unsupported(e, opt) == IF opt.target = "old" THEN Features(e) ELSE {}

Refuses(ft, policy) ==
    \/ policy = "error"
    \/ ~ft.safe /\ policy # "warn-skip" /\ ~(policy = "warn-downgrade" /\ ft.down)

(***************************************************************************)
(* Entries that never have a statement: columns, the public schema, what a *)
(* table with an identity column or a key constraint brings along, checks  *)
(* of domains, owners of indexes, and what the options leave out.          *)
(***************************************************************************)
IdentitySequence(o, db, opt) ==
    /\ opt.target # "old"
    /\ \E t \in OwnerTable(o, db) : "identity" \in Marks(t)

\* A key's own index, known by the constraint's entry or by being primary.
BackingIndex(o, es) ==
    \/ "primary" \in Marks(o)
    \/ \E c \in UsesOf(o, {"part"}) : Entry("constraint", c) \in es

Nothing(e, es, db, opt) ==
    \/ e.t = "column"
    \/ e.t = "schema" /\ "public" \in Marks(e.o)
    \/ e.t \in {"sequence", "sequence-ownership"} /\ IdentitySequence(e.o, db, opt)
    \/ e.t = "constraint" /\ Kind(On(e.o)) = "domain"
    \/ e.t = "index" /\ "invalid" \notin Marks(e.o) /\ BackingIndex(e.o, es)
    \/ e.t = "ownership" /\ (opt.bare \/ Kind(e.o) = "index")
    \/ e.t \in {"comment", "acl", "large-object-metadata"} /\ opt.bare

\* Entries that are left out with a warning whatever the policy, and those that
\* cannot be rendered at all, which policy "error" turns into an error.
Incomplete(e) == e.t = "index" /\ "invalid" \in Marks(e.o)
Unrenderable(e) ==
    \/ e.t = "aggregate" /\ "no-transition" \in Marks(e.o)
    \/ e.t = "security-label"

Outcome(e, es, db, opt) ==
    IF Nothing(e, es, db, opt) THEN "nothing"
    ELSE IF \/ \E ft \in Unsupported(e, opt) : Refuses(ft, Policy(opt))
            \/ Unrenderable(e) /\ Policy(opt) = "error" THEN "error"
    ELSE IF \/ Unrenderable(e) \/ Incomplete(e)
            \/ \E ft \in Unsupported(e, opt) : ft.whole THEN "omitted"
    ELSE "written"

-----------------------------------------------------------------------------
(***************************************************************************)
(* PostgreSQL's side.  Objects that come with another: the members of an   *)
(* extension, the index and the partitions' constraints of a key, the      *)
(* sequence of an identity column, the checks of a domain.                 *)
(***************************************************************************)
DirectParts(o, objs) ==
    {x \in objs : \/ o \in UsesOf(x, {"part"})
                  \/ Ext(x) = o
                  \/ Kind(o) = "domain" /\ On(x) = o
                  \/ "identity" \in Marks(o) /\ o \in UsesOf(x, {"owned"})}
Parts(o, objs) ==
    {o} \cup UNION {{x} \cup DirectParts(x, objs) : x \in DirectParts(o, objs)}

PublicByDefault == {"function", "procedure", "aggregate", "enum", "domain"}

Needed(o) == {u.to : u \in {x \in Uses(o) : x.how \notin {"owned", "part"}}}

\* What a statement needs; "owned" sequences feed the defaults of their table.
Needs(e, db, opt) ==
    CASE e.t = Kind(e.o) ->
           Objects((Needed(e.o) \cup {FiledUnder(e.o), On(e.o)}) \ {0, e.o})
             \cup (IF e.t = "table"
                   THEN Objects({q \in OwnedSequences(e.o, db) : ~IdentitySequence(q, db, opt)})
                   ELSE {})
      [] e.t = "sequence-ownership" -> Objects({e.o} \cup OwnerTable(e.o, db))
      [] OTHER -> {Fact("object", e.o)}

\* An old target's table has no identity column, and brings no sequence along.
Creates(e, objs, opt) ==
    CASE e.t = Kind(e.o) ->
           LET made == {x \in Parts(e.o, objs) :
                          opt.target = "old" /\ e.t = "table" => Kind(x) # "sequence"}
           IN Objects(made)
                \cup {Fact("public", x) : x \in {y \in made : Kind(y) \in PublicByDefault}}
                \cup {Fact("owned", x) : x \in {y \in made \ {e.o} : UsesOf(y, {"owned"}) # {}}}
      [] e.t \in {"table-data", "large-object-data"} -> {Fact("rows", e.o)}
      [] e.t = "sequence-state" -> {Fact("state", e.o)}
      [] e.t = "sequence-ownership" -> {Fact("owned", e.o)}
      [] e.t = "comment" -> {Fact("comment", e.o)}
      [] e.t = "ownership" -> {Fact("owner", e.o)}
      [] e.t = "large-object-metadata" ->
           {Fact("owner", e.o)}
             \cup (IF Catalog[e.o].comment THEN {Fact("comment", e.o)} ELSE {})
      [] e.t = "acl" -> {IF e.g = Public THEN Fact("public", e.o) ELSE Grant(e.o, e.g)}
      [] OTHER -> {}

\* Mutant of Revokes: each grant is preceded by the revocation.
RevokesAlways(e, granted) == IF e.t = "acl" THEN {Fact("public", e.o)} ELSE {}

\* The first grant on an object is preceded by REVOKE ALL ... FROM PUBLIC.
Revokes(e, granted) ==
    IF e.t = "acl" /\ e.o \notin granted THEN {Fact("public", e.o)} ELSE {}

(***************************************************************************)
(* What stands in a statement's way: the object it creates, for rows the   *)
(* foreign keys and triggers of their table, and for a foreign key rows    *)
(* whose referenced rows are not loaded (a partitioned table has none).    *)
(* The script of an extension meets the members that are there; CREATE     *)
(* EXTENSION IF NOT EXISTS of one that is there changes nothing, as if     *)
(* refused.  Privileges of a procedure are granted ON FUNCTION, which      *)
(* finds no procedure.                                                     *)
(***************************************************************************)
Members(x, objs) == {o \in objs : Ext(o) = x}

Guards(t, objs) ==
    Objects({x \in objs : Kind(x) \in {"foreign-key", "trigger"} /\ On(x) = t})

Conflicts(e, objs, server, replica) ==
    CASE e.t = Kind(e.o) /\ e.t = "foreign-key" ->
           ({Fact("object", e.o)} \cap server)
             \cup {r \in {Fact("rows", On(e.o))} \cap server :
                     \E t \in UsesOf(e.o, {"object"}) : /\ "partitioned" \notin Marks(t)
                                                       /\ Fact("rows", t) \notin server}
      [] e.t = Kind(e.o) /\ e.t = "extension" ->
           IF Fact("object", e.o) \in server THEN {Fact("object", e.o)}
           ELSE Objects(Members(e.o, objs)) \cap server
      [] e.t = Kind(e.o) /\ e.t \notin {"foreign-key", "extension"} ->
           {Fact("object", e.o)} \cap server
      [] e.t = "table-data" -> IF replica THEN {} ELSE Guards(e.o, objs) \cap server
      [] e.t = "acl" /\ Kind(e.o) = "procedure" -> {Fact("object", e.o)} \cap server
      [] OTHER -> {}

(***************************************************************************)
(* DROP ... IF EXISTS: the entries that have one, what goes with the       *)
(* object, and the objects left behind that still need something of it.    *)
(***************************************************************************)
Droppable == {"schema", "extension", "enum", "domain", "sequence", "table", "view",
              "materialized-view", "function", "procedure", "aggregate", "constraint",
              "foreign-key", "index", "trigger", "rule", "policy", "foreign-data-wrapper",
              "foreign-server", "user-mapping", "event-trigger", "procedural-language",
              "publication", "subscription", "statistics", "large-object", "tablespace",
              "role"}

HasDrop(e, es, db, opt) ==
    /\ e.t \in Droppable
    /\ ~(e.t = "sequence" /\ IdentitySequence(e.o, db, opt))
    /\ ~(e.t = "constraint" /\ Kind(On(e.o)) = "domain")
    /\ ~(e.t = "index" /\ ("invalid" \in Marks(e.o) \/ BackingIndex(e.o, es)))
    /\ ~(e.t \in LaterKinds /\ opt.target = "old")

\* What is dropped with x itself, and everything that goes with o.
Dragged(x, objs, server) ==
    DirectParts(x, objs)
      \cup {y \in objs : On(y) = x}
      \cup {q \in objs : Fact("owned", q) \in server /\ x \in UsesOf(q, {"owned"})}

Drags(objs, server) ==
    UNION {{[from |-> x, to |-> y] : y \in Dragged(x, objs, server)} : x \in objs}

GoesWith(o, objs, server) == Closing(objs, Drags(objs, server))[{o}]

\* What may not be dropped before x; what belongs to a relation is in no schema
\* of its own.  An extension does not let go of its members.
Holds(x) == Needed(x) \cup (IF On(x) = 0 THEN {Schema(x)} ELSE {})

Dependents(gone, objs, server) ==
    {x \in objs \ gone : /\ Fact("object", x) \in server
                         /\ (Holds(x) \cup Members(x, objs)) \cap gone # {}}
=============================================================================
