------------------------------ MODULE MCPlainDump ------------------------------
(****************************************************************************)
(* Instances of PlainDump: the databases that one or two objects of a small *)
(* catalog make with everything they need, and the option sets below.       *)
(****************************************************************************)
EXTENDS PlainDump

\* kind, schema, relation, extension, uses, marks, comment, grants; names follow
Obj(k, s, on, x, uses, marks, comment, grants) ==
    [kind |-> k, schema |-> s, on |-> on, name |-> 0, ext |-> x, uses |-> uses, marks |-> marks,
     comment |-> comment, grants |-> grants]
Plain(k, s, uses, marks) == Obj(k, s, 0, 0, uses, marks, FALSE, {})
Part(k, on, uses, marks) == Obj(k, 1, on, 0, uses, marks, FALSE, {})
Needing(how, to) == [how |-> how, to |-> to]

CatalogRows == <<
    Obj("schema", 0, 0, 0, {}, {}, TRUE, {1, 2}),                        \* 1
    Plain("schema", 0, {}, {"public", "database-owner"}),                \* 2
    Obj("extension", 2, 0, 0, {}, {}, TRUE, {}),                         \* 3
    Plain("enum", 1, {}, {}),                                            \* 4
    Obj("function", 1, 0, 0, {}, {}, TRUE, {2}),                         \* 5
    Plain("domain", 1, {Needing("text", 5)}, {}),                        \* 6
    Plain("sequence", 1, {Needing("owned", 8)}, {}),                     \* 7
    Obj("table", 1, 0, 0, {Needing("type", 4)}, {}, TRUE, {1, 2}),       \* 8
    Part("constraint", 8, {}, {}),                                       \* 9  primary key
    Obj("index", 1, 8, 0, {Needing("part", 9)}, {"primary"}, TRUE, {}),  \* 10
    Plain("table", 1, {}, {}),                                           \* 11
    Part("foreign-key", 11, {Needing("object", 8), Needing("key", 9)}, {}),  \* 12
    Plain("view", 1, {Needing("columns", 8)}, {}),                       \* 13
    Plain("view", 1, {Needing("row", 13)}, {}),                          \* 14
    Plain("view", 1, {Needing("key", 9), Needing("columns", 8)}, {}),    \* 15
    Plain("materialized-view", 1, {Needing("row", 8)}, {}),              \* 16
    Part("index", 16, {}, {}),                                           \* 17
    Plain("function", 1, {Needing("rowtype", 11)}, {}),                  \* 18
    Obj("procedure", 1, 0, 0, {}, {}, FALSE, {2}),                       \* 19
    Obj("aggregate", 1, 0, 0, {Needing("object", 5)}, {}, FALSE, {2}),   \* 20
    Obj("trigger", 1, 8, 0, {Needing("object", 5)}, {}, TRUE, {}),       \* 21
    Part("policy", 8, {Needing("columns", 11)}, {}),                     \* 22
    Part("rule", 11, {Needing("columns", 8)}, {}),                       \* 23
    Plain("table", 1, {}, {"partitioned"}),                              \* 24
    Plain("table", 1, {Needing("object", 24)}, {"partition"}),           \* 25
    Part("constraint", 24, {}, {}),                                      \* 26
    Obj("constraint", 1, 25, 0, {Needing("part", 26)}, {"child"}, TRUE, {}), \* 27
    Plain("foreign-data-wrapper", 0, {}, {}),                            \* 28
    Plain("foreign-server", 0, {Needing("object", 28)}, {}),             \* 29
    Plain("table", 1, {Needing("server", 29)}, {"foreign"}),             \* 30
    Plain("publication", 0, {Needing("object", 8)}, {}),                 \* 31
    Plain("statistics", 1, {Needing("object", 8)}, {}),                  \* 32
    Plain("event-trigger", 0, {Needing("object", 5)}, {}),               \* 33
    Obj("event-trigger", 0, 0, 3, {Needing("object", 35)}, {}, FALSE, {}),   \* 34
    Obj("function", 2, 0, 3, {}, {}, FALSE, {}),                         \* 35
    Obj("table", 2, 0, 3, {}, {}, FALSE, {}),                            \* 36
    Obj("large-object", 0, 0, 0, {}, {}, TRUE, {2}),                     \* 37
    Plain("table", 1, {}, {"identity"}),                                 \* 38
    Obj("sequence", 1, 0, 0, {Needing("owned", 38)}, {}, TRUE, {2}),     \* 39
    Part("index", 11, {}, {"invalid"}),                                  \* 40
    Part("constraint", 11, {}, {"nulls"}),                               \* 41
    Part("index", 11, {Needing("part", 41)}, {"nulls"}),                 \* 42
    Obj("trigger", 1, 11, 0, {Needing("object", 5)}, {}, TRUE, {}),      \* 43
    Plain("tablespace", 0, {}, {}),                                      \* 44
    Plain("view", 1, {}, {"invoker"}),                                   \* 45
    Part("index", 11, {}, {"include"}),                                  \* 46
    Plain("materialized-view", 1, {}, {"access-method"}),                \* 47
    Plain("function", 1, {}, {"support"}),                               \* 48
    Part("policy", 11, {}, {"restrictive"}),                             \* 49
    Plain("table", 1, {}, {"generated"}),                                \* 50
    Plain("aggregate", 1, {Needing("object", 5)}, {"no-transition"}),    \* 51
    Plain("view", 1, {Needing("routine", 35)}, {}),                      \* 52
    Plain("sequence", 1, {}, {"unreadable"}),                            \* 53
    Plain("view", 1, {Needing("routine", 48)}, {}),                      \* 54
    Obj("constraint", 1, 6, 0, {Needing("text", 5)}, {}, TRUE, {}),      \* 55
    Plain("table", 1, {}, {"compressed"}),                               \* 56
    Plain("view", 1, {Needing("routine", 5), Needing("row", 24)}, {}),   \* 57
    Plain("view", 1, {Needing("columns", 14)}, {}),                      \* 58
    Plain("table", 1, {}, {"access-method"}),                            \* 59
    Plain("domain", 1, {Needing("type", 6)}, {}),                        \* 60
    Plain("extension", 2, {Needing("object", 3)}, {}),                   \* 61
    Plain("foreign-data-wrapper", 0, {Needing("text", 5)}, {}),          \* 62
    Plain("procedural-language", 0, {Needing("text", 5)}, {}),           \* 63
    Plain("function", 1, {Needing("row", 39)}, {}),                      \* 64
    Plain("role", 0, {}, {}),                                            \* 65
    Plain("user-mapping", 0, {Needing("object", 29), Needing("object", 65)}, {}),  \* 66
    Plain("subscription", 0, {}, {}),                                    \* 67
    Part("index", 25, {Needing("part", 27)}, {}),                        \* 68
    Part("index", 24, {Needing("part", 26)}, {}),                        \* 69
    Part("foreign-key", 11, {Needing("object", 24), Needing("key", 26)}, {}),      \* 70
    Plain("function", 1, {Needing("row", 7)}, {}),                       \* 71
    Part("foreign-key", 24, {Needing("object", 8), Needing("key", 9)}, {}),        \* 72
    Obj("foreign-key", 1, 25, 0, {Needing("object", 8), Needing("part", 72)},
        {"child"}, TRUE, {}),                                            \* 73
    Part("index", 11, {Needing("text", 18)}, {"invalid"}),               \* 74
    Obj("event-trigger", 0, 0, 0, {Needing("routine", 35)}, {}, FALSE, {}),  \* 75
    Plain("view", 1, {Needing("row", 39)}, {}),                          \* 76
    Obj("foreign-data-wrapper", 0, 0, 3, {Needing("text", 35)}, {}, FALSE, {}),  \* 77
    Obj("foreign-data-wrapper", 0, 0, 3, {}, {}, FALSE, {}),             \* 78
    Obj("foreign-server", 0, 0, 3, {Needing("object", 77)}, {}, FALSE, {}),  \* 79
    Obj("procedure", 2, 0, 3, {}, {}, FALSE, {2}),                       \* 80
    Obj("procedural-language", 0, 0, 3, {Needing("text", 35)}, {}, FALSE, {}),  \* 81
    Plain("function", 1, {Needing("object", 81)}, {}),                   \* 82
    Plain("foreign-server", 0, {Needing("object", 78)}, {}) >>           \* 83

\* The two triggers share a name.
MCCatalog ==
    LET Named(o) == [CatalogRows[o] EXCEPT !.name = IF o = 43 THEN 21 ELSE o]
    IN [o \in DOMAIN CatalogRows |-> Named(o)]

(***************************************************************************)
(* A database has, with an object, all that PostgreSQL would not let it be *)
(* without: what it uses, where it is, and what comes with it.             *)
(***************************************************************************)
RowUses(o) == {u.to : u \in CatalogRows[o].uses}
WithNeeds(S) ==
    LET Grow[T \in SUBSET DOMAIN CatalogRows] ==
            LET U == T \cup UNION {RowUses(o) \cup ({CatalogRows[o].schema, CatalogRows[o].on,
                                                    CatalogRows[o].ext} \ {0}) : o \in T}
                       \cup {x \in DOMAIN CatalogRows :
                               \E u \in CatalogRows[x].uses : u.how = "part" /\ u.to \in T}
                       \cup (IF 38 \in T THEN {39} ELSE {})
            IN IF U = T THEN T ELSE Grow[U]
    IN Grow[S] \cup {2}

Everything == [schemas |-> {}, noSchemas |-> {}, tables |-> {}, noTables |-> {}]
Defaults ==
    [mode |-> "full", sections |-> {}, filter |-> Everything, clean |-> FALSE, tx |-> "unset",
     target |-> "same", policy |-> "default", include |-> {"event-trigger", "large-object"},
     session |-> "managed", replica |-> FALSE, bare |-> FALSE, dryRun |-> FALSE,
     cancellable |-> FALSE]

OptionSets ==
    { Defaults,
      [Defaults EXCEPT !.clean = TRUE, !.tx = "none"],
      [Defaults EXCEPT !.clean = TRUE, !.tx = "sections"],
      [Defaults EXCEPT !.mode = "data-only"],
      [Defaults EXCEPT !.mode = "data-only", !.replica = TRUE],
      [Defaults EXCEPT !.mode = "schema-only", !.tx = "single"],
      [Defaults EXCEPT !.tx = "sections"],
      [Defaults EXCEPT !.target = "old", !.session = "none"],
      [Defaults EXCEPT !.target = "old", !.policy = "error"],
      [Defaults EXCEPT !.target = "old", !.policy = "warn-downgrade"],
      [Defaults EXCEPT !.filter.tables = {8}],
      [Defaults EXCEPT !.filter.noTables = {8}],
      [Defaults EXCEPT !.filter.schemas = {1}],
      [Defaults EXCEPT !.filter.noSchemas = {1}],
      [Defaults EXCEPT !.sections = {2}],
      [Defaults EXCEPT !.bare = TRUE, !.session = "none"],
      [Defaults EXCEPT !.dryRun = TRUE],
      [Defaults EXCEPT !.clean = TRUE, !.mode = "schema-only"],
      [Defaults EXCEPT !.clean = TRUE, !.filter.tables = {8, 25}],
      [Defaults EXCEPT !.clean = TRUE, !.filter.noTables = {24}],
      [Defaults EXCEPT !.clean = TRUE, !.filter.noSchemas = {2}],
      [Defaults EXCEPT !.clean = TRUE, !.sections = {2}],
      [Defaults EXCEPT !.clean = TRUE, !.sections = {0, 1}],
      [Defaults EXCEPT !.clean = TRUE, !.target = "old", !.cancellable = TRUE],
      [Defaults EXCEPT !.tx = "none", !.include = {"role", "user-mapping", "subscription"}],
      [Defaults EXCEPT !.tx = "none", !.cancellable = TRUE, !.include = {}] }

Pairs == {5, 7, 8, 12, 13, 14, 18, 20, 21, 23, 25, 30, 36, 37, 42, 54, 64, 70, 73, 76, 82}
PairOptions == {Defaults, [Defaults EXCEPT !.clean = TRUE, !.tx = "none"],
                [Defaults EXCEPT !.target = "old"]}

MCSources ==
    [objs : {WithNeeds({o}) : o \in DOMAIN CatalogRows}, opt : OptionSets, naming : {"asc", "desc"}]
      \cup [objs : {WithNeeds({o, p}) : o, p \in Pairs}, opt : PairOptions,
            naming : {"asc", "desc"}]
      \cup [objs : {WithNeeds({21, 43})}, opt : {Defaults}, naming : {"asc"}]

\* A view whose rewrite dependencies are columns of another view.
MCViews == [objs : {WithNeeds({58})}, opt : OptionSets, naming : {"asc", "desc"}]
===============================================================================
