------------------------------- MODULE PlainDump -------------------------------
(****************************************************************************)
(* A plain SQL dump from plan to last line, and its replay                  *)
(* (model/DumpOrchestrator.ts, renderer/PlainSqlRenderer.ts).               *)
(*                                                                          *)
(*   src       what is dumped: [objs, opt, naming], the objects of the      *)
(*             source, the options, and how its names follow its ids        *)
(*   phase     where the dump is                                            *)
(*   archive   [db, es, edges, selected], once planned                      *)
(*   drops, todo   the entries whose DROP, whose statement, is still to be  *)
(*             written                                                      *)
(*   rendered, skipped, failed   the result's accounts, sets of entries     *)
(*   unavailable   entries omitted for the target, and what depends on them *)
(*   warned    entries named by a warning of the result                     *)
(*   handled   the data hooks that were called                              *)
(*   granted   the objects whose access control list was begun              *)
(*   tx        the transaction the document is in: a section, Single, None  *)
(*   server    the facts on the server the document is replayed on, by a    *)
(*             client that goes on after a failing statement                *)
(*   ran       the statements, [e, drop, tx, missing, blocking]; one fails  *)
(*             when a fact it needs is missing or another is in its way     *)
(* server and ran are no part of the program.                               *)
(****************************************************************************)
EXTENDS Preflight, SequencesExt

CONSTANT Sources
VARIABLES src, phase, archive, drops, todo, rendered, skipped, failed, unavailable,
          warned, handled, granted, tx, server, ran

accounts == <<rendered, skipped, failed, unavailable, warned, handled, granted>>
vars == <<src, phase, archive, drops, todo, accounts, tx, server, ran>>

None == 9
Single == 8
Sections == 0..2
objs == src.objs
opt == src.opt
TxMode == IF opt.tx = "unset" THEN "none" ELSE opt.tx

(***************************************************************************)
(* A source has with an object what it uses and where it is, the extension *)
(* of a member, and an index for a key that takes nulls for equal, which   *)
(* is marked as well.                                                      *)
(***************************************************************************)
ASSUME SourcesAssumption ==
    \A s \in Sources :
        /\ s.objs \subseteq Ids
        /\ s.opt.tx \in {"unset", "none", "single", "sections"}
        /\ s.naming \in {"asc", "desc"}
        /\ \A o \in s.objs :
            /\ {u.to : u \in Uses(o)} \subseteq s.objs
            /\ {Schema(o), On(o), Ext(o)} \ {0} \subseteq s.objs
            /\ Kind(o) = "constraint" /\ "nulls" \in Marks(o) =>
                 /\ Kind(On(o)) = "table"
                 /\ \E x \in s.objs : /\ Kind(x) = "index" /\ On(x) = On(o)
                                      /\ "nulls" \in Marks(x)

(***************************************************************************)
(* The facts of the source, and what the server holds before the replay:   *)
(* nothing but the schema public, or the schema for a dump of data alone,  *)
(* or everything for a dump that drops first.                              *)
(***************************************************************************)
Publics(S) == {o \in S : Kind(o) = "schema" /\ "public" \in Marks(o)}

GrantFacts == UNION {{Grant(o, r) : r \in Catalog[o].grants \ {Public}} : o \in objs}

SchemaFacts ==
    Objects(objs)
      \cup {Fact("owned", o) : o \in {x \in objs : UsesOf(x, {"owned"}) # {}}}
      \cup {Fact("comment", o) : o \in {x \in objs : Catalog[x].comment}}
      \cup {Fact("owner", o) : o \in {x \in objs : Kind(x) = "large-object"
                                        \/ Kind(x) \in OwnedKinds \ {"index"}}}
      \cup GrantFacts
      \cup {Fact("public", o) : o \in {x \in objs : \/ Public \in Catalog[x].grants
                                                   \/ /\ Kind(x) \in PublicByDefault
                                                      /\ Catalog[x].grants = {}}}

DataFacts ==
    {Fact("rows", o) : o \in {x \in objs : \/ Kind(x) \in {"materialized-view", "large-object"}
                                          \/ /\ Kind(x) = "table"
                                             /\ Marks(x) \cap {"partitioned", "foreign"} = {}}}
      \cup {Fact("state", o) : o \in {x \in objs : Kind(x) = "sequence"}}

Before ==
    IF opt.clean THEN SchemaFacts \cup DataFacts
    ELSE IF opt.mode = "data-only" THEN SchemaFacts
    ELSE Objects(Publics(objs))

Init ==
    /\ src \in Sources
    /\ phase = "plan"
    /\ archive = [db |-> {}, es |-> {}, edges |-> {}, selected |-> {}]
    /\ drops = <<>> /\ todo = <<>>
    /\ rendered = {} /\ skipped = {} /\ failed = {} /\ unavailable = {} /\ warned = {}
    /\ handled = {} /\ granted = {}
    /\ tx = None
    /\ server = Before
    /\ ran = {}

(***************************************************************************)
(* Introspection, which may fail, and planning; an archive with two        *)
(* entries of one identity, an edge to a later section or no order is      *)
(* refused.                                                                *)
(***************************************************************************)
Archive ==
    LET db == Introspected(objs, opt.filter)
        es == Entries(db, opt.include)
        edges == Edges(es, db)
    IN [db |-> db, es |-> es, edges |-> edges, selected |-> Selected(es, edges, db, opt)]

Plan ==
    /\ phase = "plan"
    /\ IF CatalogsReadable(objs, opt.filter, opt.session)
       THEN /\ archive' = Archive
            /\ todo' = Ordered(archive'.selected, archive'.edges, src.naming)
            /\ phase' = IF /\ IdentitiesDistinct(archive'.es)
                           /\ SectionsAgree(archive'.selected, archive'.edges)
                           /\ Len(todo') = Cardinality(archive'.selected)
                        THEN "preflight" ELSE "refused"
       ELSE phase' = "refused" /\ UNCHANGED <<archive, todo>>
    /\ UNCHANGED <<src, drops, accounts, tx, server, ran>>

\* Preflight; the header and, in one transaction or before drops, its BEGIN.
Check ==
    /\ phase = "preflight"
    /\ IF Fails(archive.db, archive.selected, opt)
       THEN phase' = "refused" /\ UNCHANGED <<drops, tx>>
       ELSE IF opt.dryRun
       THEN phase' = "reported" /\ UNCHANGED <<drops, tx>>
       ELSE /\ phase' = "write"
            /\ drops' = IF opt.clean THEN Reverse(todo) ELSE <<>>
            /\ tx' = IF TxMode = "single" THEN Single
                     ELSE IF TxMode = "sections" /\ opt.clean /\ todo # <<>>
                     THEN SectionOf(Head(todo)) ELSE None
    /\ UNCHANGED <<src, archive, todo, accounts, server, ran>>

-----------------------------------------------------------------------------
Statement(e, drop, in, missing, blocking) ==
    [e |-> e, drop |-> drop, tx |-> in, missing |-> missing, blocking |-> blocking]
Failing(r) == r.missing # {} \/ r.blocking # {}

(***************************************************************************)
(* One DROP of a clean dump.  PostgreSQL refuses it while something else   *)
(* depends on the object, and DROP TABLE of a foreign table altogether.    *)
(***************************************************************************)
DropNext ==
    /\ phase = "write" /\ drops # <<>>
    /\ drops' = Tail(drops)
    /\ LET e == Head(drops)
           gone == GoesWith(e.o, objs, server)
           there == Fact("object", e.o) \in server
           left == IF there THEN Dependents(gone, objs, server) ELSE {}
           run == Statement(e, TRUE, tx, {},
                            Objects(left \cup IF "foreign" \in Marks(e.o) THEN {e.o} ELSE {}))
       IN IF ~HasDrop(e, archive.es, archive.db, opt) \/ MemberOf(e) # 0
          THEN UNCHANGED <<server, ran>>
          ELSE /\ ran' = ran \cup {run}
               /\ server' = IF Failing(run) THEN server ELSE {x \in server : x.o \notin gone}
    /\ UNCHANGED <<src, phase, archive, todo, accounts, tx>>

(***************************************************************************)
(* The entry at hand.  In section mode a new section ends the transaction  *)
(* of the one before.                                                      *)
(***************************************************************************)
\* Mutant of TxFor: the transaction of the first section is kept open.
TxForFirst(e) == IF TxMode = "sections" /\ tx = None THEN SectionOf(e) ELSE tx

TxFor(e) == IF TxMode = "sections" THEN SectionOf(e) ELSE tx

\* Mutant of LacksDependency: what an omitted entry's dependents need is not traced.
OnlyDirect(e) ==
    LET omitted == {x \in unavailable : Outcome(x, archive.es, archive.db, opt) = "omitted"}
    IN \E d \in archive.edges : d.from = e /\ d.hard /\ d.to \in omitted

LacksDependency(e) ==
    \E d \in archive.edges : d.from = e /\ d.hard /\ d.to \in unavailable

\* The next entry takes its turn.
Turn ==
    /\ phase = "write" /\ drops = <<>> /\ todo # <<>>
    /\ todo' = Tail(todo)
    /\ tx' = TxFor(Head(todo))

SkipUnavailable ==
    /\ Turn /\ LacksDependency(Head(todo))
    /\ unavailable' = unavailable \cup {Head(todo)}
    /\ skipped' = skipped \cup {Head(todo)}
    /\ warned' = warned \cup {Head(todo)}
    /\ UNCHANGED <<src, phase, archive, drops, rendered, failed, handled, granted, server, ran>>

(***************************************************************************)
(* The first entry of table rows or large-object contents has all of them  *)
(* written, those apart whose definition was omitted.  The planner leaves  *)
(* out foreign tables.                                                     *)
(***************************************************************************)
Hooked == {"table-data", "large-object-data"}

Loadable(es) == {e \in es : "foreign" \notin Marks(e.o)}

DataHook ==
    /\ Turn /\ Head(todo).t \in Hooked /\ ~LacksDependency(Head(todo))
    /\ LET t == Head(todo).t
           all == {e \in archive.selected : e.t = t}
           lacking == {e \in all : LacksDependency(e)}
           Load(e) == Statement(e, FALSE, tx', Needs(e, archive.db, opt) \ server,
                                Conflicts(e, objs, server, opt.replica))
           runs == {Load(e) : e \in Loadable(all \ lacking)}
       IN IF t \in handled THEN UNCHANGED <<accounts, server, ran>>
          ELSE /\ handled' = handled \cup {t}
               /\ rendered' = rendered \cup (all \ lacking)
               /\ unavailable' = unavailable \cup lacking
               /\ skipped' = skipped \cup lacking
               /\ warned' = warned \cup lacking
               /\ ran' = ran \cup runs
               /\ server' = server \cup UNION {Creates(r.e, objs, opt)
                                                : r \in {x \in runs : ~Failing(x)}}
               /\ UNCHANGED <<failed, granted>>
    /\ UNCHANGED <<src, phase, archive, drops>>

\* Rows of materialized views are not written, members of an extension neither.
SkipUnwritten ==
    /\ Turn /\ ~LacksDependency(Head(todo))
    /\ Head(todo).t = "materialized-view-data" \/ MemberOf(Head(todo)) # 0
    /\ skipped' = skipped \cup {Head(todo)}
    /\ warned' = IF Head(todo).t = "materialized-view-data"
                 THEN warned \cup {Head(todo)} ELSE warned
    /\ UNCHANGED <<src, phase, archive, drops, rendered, failed, unavailable, handled,
                   granted, server, ran>>

Renders(e) ==
    /\ ~LacksDependency(e)
    /\ e.t \notin Hooked \cup {"materialized-view-data"}
    /\ MemberOf(e) = 0
OutcomeOf(e) == Outcome(e, archive.es, archive.db, opt)

\* An entry without a statement; one omitted for the target takes its dependents
\* with it.
SkipSilent ==
    /\ Turn /\ Renders(Head(todo)) /\ OutcomeOf(Head(todo)) = "nothing"
    /\ skipped' = skipped \cup {Head(todo)}
    /\ UNCHANGED <<src, phase, archive, drops, rendered, failed, unavailable, warned, handled,
                   granted, server, ran>>

\* Mutant of Unavailable: what is about the omitted object is marked at once, an
\* entry of the dump or not.
UnavailableWithSatellites(e) == {e} \cup {Entry(t, e.o) : t \in {"comment", "ownership"}}

\* What the warnings of an omitted entry make of it: a downgrade does not count.
Unavailable(e) ==
    IF Incomplete(e) \/ Unrenderable(e) \/ \E ft \in Unsupported(e, opt) : ft.whole /\ ~ft.down
    THEN {e} ELSE {}

SkipOmitted ==
    /\ Turn /\ Renders(Head(todo)) /\ OutcomeOf(Head(todo)) = "omitted"
    /\ skipped' = skipped \cup {Head(todo)}
    /\ warned' = warned \cup {Head(todo)}
    /\ unavailable' = unavailable \cup Unavailable(Head(todo))
    /\ UNCHANGED <<src, phase, archive, drops, rendered, failed, handled, granted, server, ran>>

Write ==
    /\ Turn /\ Renders(Head(todo)) /\ OutcomeOf(Head(todo)) = "written"
    /\ LET e == Head(todo)
           run == Statement(e, FALSE, tx', Needs(e, archive.db, opt) \ server,
                            Conflicts(e, objs, server, FALSE))
       IN /\ rendered' = rendered \cup {e}
          /\ warned' = IF Unsupported(e, opt) # {} THEN warned \cup {e} ELSE warned
          /\ granted' = IF e.t = "acl" THEN granted \cup {e.o} ELSE granted
          /\ ran' = ran \cup {run}
          /\ server' = IF Failing(run) THEN server
                       ELSE (server \ Revokes(e, granted)) \cup Creates(e, objs, opt)
    /\ UNCHANGED <<src, phase, archive, drops, skipped, failed, unavailable, handled>>

\* A rendering error rejects the dump with the document begun.
RenderFails ==
    /\ Turn /\ Renders(Head(todo)) /\ OutcomeOf(Head(todo)) = "error"
    /\ failed' = failed \cup {Head(todo)}
    /\ phase' = "failed"
    /\ UNCHANGED <<src, archive, drops, rendered, skipped, unavailable, warned, handled,
                   granted, server, ran>>

\* The last COMMIT and the closing comment.
Finish ==
    /\ phase = "write" /\ drops = <<>> /\ todo = <<>>
    /\ phase' = "done"
    /\ tx' = None
    /\ UNCHANGED <<src, archive, drops, todo, accounts, server, ran>>

Cancel ==
    /\ phase = "write" /\ opt.cancellable
    /\ phase' = "cancelled"
    /\ UNCHANGED <<src, archive, drops, todo, accounts, tx, server, ran>>

Next ==
    \/ Plan \/ Check \/ DropNext \/ SkipUnavailable \/ DataHook \/ SkipUnwritten
    \/ SkipSilent \/ SkipOmitted \/ Write \/ RenderFails \/ Finish \/ Cancel

Spec == Init /\ [][Next]_vars
-----------------------------------------------------------------------------
TypeOK ==
    /\ src.objs \subseteq Ids
    /\ phase \in {"plan", "preflight", "write", "refused", "reported", "failed", "cancelled",
                  "done"}
    /\ archive.selected \subseteq archive.es
    /\ UNION {rendered, skipped, failed, unavailable, warned} \subseteq archive.selected
    /\ ToSet(todo) \cup ToSet(drops) \subseteq archive.selected
    /\ handled \subseteq Hooked
    /\ granted \subseteq archive.db
    /\ tx \in Sections \cup {None, Single}
    /\ {x.o : x \in server} \subseteq objs
    /\ {r.e : r \in ran} \subseteq archive.selected

\* Where the document ends, complete or not.
Ended == phase \in {"done", "failed", "cancelled"}

(***************************************************************************)
(* The needs the archive has no edge for: expressions and constraints,     *)
(* which introspection does not follow, references by column, to row types *)
(* and to procedures, which are not resolved, those to a language of an    *)
(* extension, which has no entry, those of domains, extensions and what is *)
(* written in C, and those to the sequence of an identity column, which    *)
(* its table brings along.                                                 *)
(***************************************************************************)
IdentityMade(q) == \E t \in UsesOf(q, {"owned"}) : "identity" \in Marks(t)

Unlinked(o, x) ==
    \E u \in Uses(o) :
        /\ u.to = x
        /\ \/ u.how \in {"columns", "rowtype", "text", "key"}
           \/ u.how = "routine" /\ Kind(x) = "procedure"
           \/ Kind(x) = "procedural-language" /\ Ext(x) # 0
           \/ Kind(o) \in {"domain", "extension", "procedural-language",
                           "foreign-data-wrapper"}
           \/ IdentityMade(x)

\* Objects that are not part of the dump, by the filter, the kinds asked for, the
\* mode or the sections, were omitted with a warning, or whose own statement
\* failed; what comes with another object shares its fate.
NotAsked(y) ==
    \/ y \notin archive.db
    \/ Kind(y) \in OptionalKinds \ opt.include
    \/ HardExcluded(ObjectEntry(y), opt)

Failed(e) == \E r \in ran : r.e = e /\ Failing(r)

Absent(x) ==
    \E y \in {z \in Ids : x \in Parts(z, objs)} :
        \/ NotAsked(y)
        \/ ObjectEntry(y) \in warned \cap skipped
        \/ Failed(ObjectEntry(y))

(***************************************************************************)
(* FailuresExplained: replayed in order, a statement of the dump fails     *)
(* only for what the archive does not know.  Every fact it misses belongs  *)
(* to an object left out of the dump, omitted with a warning or failed     *)
(* itself, or is a need without an edge.  What is in its way is another    *)
(* object outside the dump or without a DROP, holds on to the object by a  *)
(* need without an edge, or is the object itself, whose DROP failed; for a *)
(* foreign key it may be the rows of tables whose other rows are missing.  *)
(* Known exceptions: a clean dump drops the schema public and never        *)
(* creates it, and drops foreign tables as tables; the index of a          *)
(* partition's key is created again; rows loaded into a schema with its    *)
(* foreign keys and triggers in force meet them; the wrappers, servers,    *)
(* event triggers and procedures of an extension are created and dropped   *)
(* beside it, and one of the two statements finds the other's work; and    *)
(* privileges of procedures are granted as those of functions.             *)
(* (ArchiveBuilder.ts, SectionRules.ts, PlainSqlRenderer.ts,               *)
(* AdvancedIntrospector.ts:101-134, SqlRenderer.ts:1427-1430)              *)
(***************************************************************************)
MissingExplained(r, x) ==
    \/ Absent(x.o)
    \/ Unlinked(r.e.o, x.o)
    \/ opt.clean /\ "public" \in Marks(x.o)

\* An object that has no DROP of its own.
Undropped(x) ==
    \/ ~PassesFilter(ObjectEntry(x), archive.db, opt.filter)
    \/ Ext(x) # 0 /\ ~Unmarked(x)
    \/ Incomplete(ObjectEntry(x))
    \/ Kind(x) \in LaterKinds /\ opt.target = "old"

\* What goes with o and x holds on to, without an edge from x to o.
HeldUnlinked(x, o) ==
    \E y \in Holds(x) \cap GoesWith(o, objs, SchemaFacts) :
        \/ Unlinked(x, y)
        \/ ObjectEntry(y) \notin archive.es
        \/ (Kind(y) = "sequence" \/ Unmarked(y)) /\ y # o

\* The extension x has among its members an unmarked o, or a sequence that goes
\* with o.
OwnerRefuses(x, o) ==
    \E y \in Members(x, objs) \cap GoesWith(o, objs, SchemaFacts) :
        \/ y = o /\ Unmarked(o)
        \/ Kind(y) = "sequence" /\ y # o

DropBlockExplained(r, x) ==
    \/ x.o = r.e.o /\ "foreign" \in Marks(x.o)
    \/ x.o # r.e.o /\ (Absent(x.o) \/ Undropped(x.o)
                       \/ HeldUnlinked(x.o, r.e.o) \/ OwnerRefuses(x.o, r.e.o))

RowsMissing(t) ==
    \/ Absent(t)
    \/ Entry("table-data", t) \in warned
    \/ Failed(Entry("table-data", t))

\* The index of a partition's key, which the key of the partitioned table makes.
PartitionKeyIndex(x) == \E c \in UsesOf(x, {"part"}) : "child" \in Marks(c)

WriteBlockExplained(r, x) ==
    \/ opt.mode = "data-only" /\ ~opt.replica
    \/ /\ x.f = "object" /\ x.o \in {r.e.o} \cup Members(r.e.o, objs)
       /\ \/ PartitionKeyIndex(x.o) \/ Unmarked(x.o)
          \/ \E q \in ran : q.drop /\ q.e = r.e /\ Failing(q)
    \/ r.e.t = "acl" /\ Kind(r.e.o) = "procedure"
    \/ x.f = "object" /\ x.o # r.e.o /\ Absent(x.o)
    \/ x.f = "rows" /\ (Absent(x.o) \/ \E t \in UsesOf(r.e.o, {"object"}) : RowsMissing(t))

BlockingExplained(r, x) ==
    IF r.drop THEN DropBlockExplained(r, x) ELSE WriteBlockExplained(r, x)

FailuresExplained ==
    Ended => \A r \in ran : /\ \A x \in r.missing : MissingExplained(r, x)
                            /\ \A x \in r.blocking : BlockingExplained(r, x)

(***************************************************************************)
(* RestoredAsSource: when the dump is complete, every fact of the source   *)
(* holds on the server or is accounted for: its object or its entry is     *)
(* outside the dump, was left out by an option, named by a warning, or had *)
(* its statement fail.  And the server holds nothing the source does not:  *)
(* what was revoked from PUBLIC there is not available to PUBLIC here.     *)
(* Known exceptions: comments and privileges of the kinds introspection    *)
(* does not read them of (comments of extensions, roles and servers among  *)
(* others, privileges of aggregates, languages and large objects), the     *)
(* sequence states it warned of, and the schema public a clean dump drops. *)
(* (ArchiveBuilder.ts, SqlRenderer.ts:444-458, 1269-1298)                  *)
(***************************************************************************)
\* A language of an extension has no other entry than the extension's.
EntryFor(x) ==
    CASE x.f = "object" ->
           ObjectEntry(IF Kind(x.o) = "procedural-language" /\ Ext(x.o) # 0
                       THEN Ext(x.o) ELSE x.o)
      [] x.f = "rows" -> Entry(IF Kind(x.o) = "table" THEN "table-data"
                               ELSE IF Kind(x.o) = "large-object" THEN "large-object-data"
                               ELSE "materialized-view-data", x.o)
      [] x.f = "state" -> Entry("sequence-state", x.o)
      [] x.f = "owned" -> Entry("sequence-ownership", x.o)
      [] x.f = "comment" ->
           Entry(IF Kind(x.o) = "large-object" THEN "large-object-metadata" ELSE "comment", x.o)
      [] x.f = "owner" ->
           Entry(IF Kind(x.o) = "large-object" THEN "large-object-metadata" ELSE "ownership", x.o)
      [] x.f = "grant" -> [t |-> "acl", o |-> x.o, g |-> x.g]
      [] x.f = "public" -> IF Public \in Catalog[x.o].grants /\ Kind(x.o) \in GrantedKinds
                           THEN [t |-> "acl", o |-> x.o, g |-> Public] ELSE ObjectEntry(x.o)

LeftOut(e) ==
    \/ HardExcluded(e, opt)
    \/ ~PassesFilter(e, archive.db, opt.filter)
    \/ e \in warned
    \/ \E r \in ran : Failing(r) /\ r.e = e
    \/ opt.bare /\ e.t \in {"comment", "ownership", "acl", "large-object-metadata"}

AccountedFor(x) ==
    \/ \E y \in {x.o} \cup (IF x.f = "owned" THEN UsesOf(x.o, {"owned"}) ELSE {}) : Absent(y)
    \/ LeftOut(EntryFor(x))
    \/ Kind(x.o) \in OptionalKinds \ opt.include
    \/ opt.clean /\ "public" \in Marks(x.o)
    \/ x.f = "state" /\ "unreadable" \in Marks(x.o)
    \/ x.f = "comment" /\ Kind(x.o) \notin CommentedKinds \cup {"large-object"}
    \/ x.f = "grant" /\ Kind(x.o) \notin GrantedKinds
    \/ x.f = "public" /\ Kind(x.o) \notin GrantedKinds \cup PublicByDefault

\* No grant was written whose revocation would have come first.
Unrevoked(x) ==
    /\ x.f = "public"
    /\ \/ Kind(x.o) = "aggregate"
       \/ \A r \in Catalog[x.o].grants : LeftOut([t |-> "acl", o |-> x.o, g |-> r])

RestoredAsSource ==
    phase = "done" =>
        /\ \A x \in (SchemaFacts \cup DataFacts) \ server : AccountedFor(x)
        /\ \A x \in server \ (SchemaFacts \cup DataFacts) : Unrevoked(x)

(***************************************************************************)
(* EntriesAccounted: of a complete dump every selected entry is in one of  *)
(* the accounts, rendered or skipped; the row and contents entries too,    *)
(* which one call renders.  No statement was written for an entry that     *)
(* cannot do without one that was left out.                                *)
(* (PlainSqlRenderer.ts:89-106, 149-232)                                   *)
(***************************************************************************)
EntriesAccounted ==
    /\ rendered \cap skipped = {}
    /\ phase = "done" => rendered \cup skipped = archive.selected /\ failed = {}
    /\ Ended => \A d \in archive.edges :
          d.hard /\ d.to \in skipped /\ d.from \in rendered =>
              OutcomeOf(d.to) = "nothing" \/ MemberOf(d.to) # 0

(***************************************************************************)
(* RefusedUpFront: what the target cannot take is refused before a line is *)
(* written, never in the middle of the document.  Known exceptions: access *)
(* methods of materialized views, and objects that cannot be rendered.     *)
(* (DumpPreflightAnalyzer.ts, DumpOrchestrator.ts:163-175)                 *)
(***************************************************************************)
RefusedUpFront ==
    \A e \in failed : e.t = "materialized-view" \/ Unrenderable(e)

(***************************************************************************)
(* TransactionsFramed: every statement is inside the transaction asked     *)
(* for, in section mode that of its own section, and a complete document   *)
(* leaves none open.  Drops, which come first, share the first section's.  *)
(* What PostgreSQL refuses in a transaction is in none.                    *)
(* (PlainSqlRenderer.ts:108-147, 235-238)                                  *)
(***************************************************************************)
TransactionsFramed ==
    /\ phase = "done" => tx = None
    /\ \A r \in ran : r.e.t = "tablespace" => r.tx = None
    /\ Ended => \A r \in ran :
          CASE TxMode = "none" -> r.tx = None
            [] TxMode = "single" -> r.tx = Single
            [] TxMode = "sections" -> IF r.drop THEN r.tx # None ELSE r.tx = SectionOf(r.e)

(***************************************************************************)
(* ReadsPrecede: no view is created while a relation it reads is still to  *)
(* come, the references being those of the rewrite dependencies.           *)
(* (docs/architecture.md:251-253, 301)                                     *)
(***************************************************************************)
ReadsPrecede ==
    \A r \in ran : r.e.t \in {"view", "materialized-view"} =>
        \A x \in r.missing : Kind(x.o) \in {"table", "view", "materialized-view"} =>
            ObjectEntry(x.o) \notin ToSet(todo)
===============================================================================
