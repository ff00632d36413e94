# dbgate-pg-dumper: formal models

TLA+ models of `dbgate-pg-dumper`, the TLC runs that check them on small
instances, and TLAPS proofs of the results that hold for every size. All paths
below are relative to the repository's `src/` directory.

## Inventory

A dump runs on **one** PostgreSQL connection and is a chain of awaits:

```
dumpPostgres -> DumpOrchestrator
  withPostgresIntrospectionSession      one acquired connection
    DumpSessionManager.run              transaction, search_path, cleanup
      introspection                     catalog rows -> PostgresDatabase
      DumpArchiveBuilder                database -> entries and dependencies
      DumpArchiveSelector               filters, closure over hard dependencies
      DumpArchiveDependencyGraph        checks and orders the entries
      DumpPreflightAnalyzer             report, may stop the dump
      renderPlainSql                    header, DDL, data batch, footer
        DataExportEngine + TableCursor  rows of each table, in batches
        PlainDataSerializer             COPY / INSERT text
        LargeObjectExporter             pages of large objects
        StreamDumpWriter                bytes to a Writable
restoreSqlDump
  SqlDumpReader                         text -> operations (SQL, COPY)
  CopyTextLoader + openCopyFrom         payload -> COPY FROM STDIN
  savepoints, recovery, cleanup
```

| Component | State | Operations | Hard behaviour | Correct when |
|---|---|---|---|---|
| Session (`connection/DumpSession.ts`, `introspection/introspectPostgres.ts`) | previousSearchPath, managedTransactionStarted, acquired connection | acquire, prepare, hide and restore search_path, commit, catch, release | an abort at any await; a failure in cleanup; three transaction modes | no transaction or path leaks, success means commit, one release |
| Adapter (`connection/PgAdapter.ts`) | estimate of the transaction status, active COPY | query, stream, openCopyFrom, cancel | rejects a query whose statement still runs; the estimate can differ from the backend | the estimate is never relied on where it is wrong |
| Data export (`data/DataExportEngine.ts`, `data/TableCursor.ts`) | table, batch, cursor, two suspended generators | export, stream, streamTableRows | errors cross both generators; fail-fast and bestEffort; cancellation | no row twice, none lost silently, cursor closed, it settles |
| Serializer (`serialization/PlainDataSerializer.ts`) | active table, pending rows, statistics, diagnostics | consume, recoverTable, finish | fails between any two writes; callbacks inline | what is written is restorable, counts agree |
| Writer (`writer/DumpWriter.ts`) | bytes written, listeners | write, flush | abort while bytes are on their way; stream error | a rejected write is not repeated |
| Archive builder, identities (`archive/ArchiveBuilder.ts`) | entries, references, dependencies | addEntry, addDependency, extension membership, freeze | duplicates, unresolved references | one record per target |
| Selection (`archive/ArchiveSelection.ts`) | selected, reasons | select | closure against filters, sections, extension members | closed, or diagnosed |
| Graph (`archive/DependencyGraph.ts`) | records, counts, available, result | order | cycles, preferences, sections | complete, ordered, canonical |
| Orchestration (`model/DumpOrchestrator.ts`) | results of each step | the dump | cancellation in each phase; what counts as success | status tells what was written |
| Renderer (`renderer/PlainSqlRenderer.ts`) | open section, unavailable entries | render | section transactions, omitted dependencies, one data batch | balanced BEGIN/COMMIT, footer only at the end |
| Restore (`restore/SqlDumpRestore.ts`, `CopyTextLoader.ts`) | counters, errors, savepoint | the operation loop, recovery | failed operation with and without a transaction; COPY failing under a running generator | goes on only from a known state |
| Reader (`restore/SqlDumpReader.ts`) | lexer mode, COPY payload pending | nextOperation, payload, discard, close | quotes, dollar quotes, COPY data, chunk boundaries | operations are those of the dump |
| Introspection (`introspection/`) | rows of the catalogs | assemble, filter, link | a reference whose key nothing has, an unreadable state | what is dumped can be created in its order |
| SQL generation (`renderer/SqlRenderer.ts`), preflight (`preflight/`) | none | one entry to statements; features of the target | what a later version has, what one statement revokes | the target refuses nothing and loses nothing unsaid |
| Encodings, versions, policies, redaction | none or local | pure mapping | volume, not concurrency | unit tests of the repository |

## Modules

| Module | Models | State and actions |
|---|---|---|
| `PgAdapter` | what a session sees of a transaction block: the backend's state and the adapter's estimate | operators only; used by `DumpSession` and `DataExport` |
| `DumpSession` | `withPostgresIntrospectionSession` around `DumpSessionManager.run` | one point `pc` per await; `Ask` sends the statement of that point, `Serve` / `ServeOrphan` are the backend, `Abort` the signal, `LoseConnection` the network |
| `DumpSessionProofs` | proofs about `DumpSession` | |
| `PlainDataSerializer` | serializer and writer | `sp` is the await reached in consume, recoverTable or finish; `Written` / `Rejected` are the two ends of a write; `out`, `block`, `marked`, `strayed` describe the output |
| `DataExport` | engine, cursor and serializer composed | extends `PlainDataSerializer`; `ep` is the point the nested generators have reached, `why` the reason a table is being left; `Serialize` runs the serializer while the engine waits |
| `DataExportProofs` | proofs about `DataExport` | |
| `DependencyGraph` | dependency records, consolidation, `order()` | `AddDependency`, `Freeze`, `Resolve`, then one `Emit` per turn of Kahn's loop |
| `DependencyGraphProofs` | proofs about `DependencyGraph`: the order it emits, what it loses and when it refuses | |
| `RestoreContract` | what `restoreSqlDump` promises, without a connection or a reader | `Take`, `Complete`, `Fail`, `Resolve`, `Reject` |
| `RestoreBackend` | the connection of a restore: backend, wire, effects of the dump's statements | `Serve`, `ServeOrphan`, `Unreachable`; an effect is `inner`, `pending` or `kept` |
| `CopyLoad` | `loadCopyTextStream` between the payload generator and `openCopyFrom` | `gen` is where the generator is, `copy` the COPY on the wire |
| `SqlDumpRestore` | the restore loop with savepoints, recovery and cleanup | extends `CopyLoad`; one point `pc` per await; implements `RestoreContract` |
| `SqlDumpRestoreProofs` | proofs about `SqlDumpRestore`, the refinement included | |
| `SqlLexer` | how one byte is read, by the reader (`Read`) and by psql (`Psql`) | operators only |
| `SqlDumpReader` | the reader over a source that arrives in chunks, beside psql | buffer, index, `partStart` and lexer mode as in the code; one action per byte, peek and chunk |
| `SqlDumpReaderProofs` | proofs about `SqlDumpReader` | |
| `SourceCatalog` | which objects and references introspection delivers | operators on a constant `Catalog` |
| `ArchiveEntries` | the archive's entries, identities and edges | operators |
| `ArchiveSelection` | filters, modes, sections, closure and order | operators |
| `ArchiveSelectionProofs` | proofs about `ArchiveEntries` and `ArchiveSelection` | |
| `SqlStatements` | which entry has a statement, and what it does to a server | operators |
| `Preflight` | what is refused before a line is written | operators |
| `PlainDump` | a plain dump from plan to last line, with its replay | `Plan`, `Check`, `DropNext`, one action per way an entry can leave the renderer's loop, `Finish`, `Cancel` |
| `PlainDumpProofs` | proofs about the document of `PlainDump` | |
| `PlainReplayProofs` | proofs about its replay | |
| `MCPlainDump` | the catalog of 83 objects and the option sets of the runs | constants only |

Three compositions: `PgAdapter` and `PlainDataSerializer` under `DataExport`;
`PgAdapter` under `RestoreBackend` under `CopyLoad` under `SqlDumpRestore`; and
`SourceCatalog`, `ArchiveEntries`, `ArchiveSelection`, `SqlStatements`,
`Preflight`, `PlainDump`, each extending the one before it.

### DumpSession

The client awaits one statement at a time (`sent`, `reply`). An abort rejects
the awaited query at once, as `PgConnectionAdapter.executeQuery` does, and its
statement becomes the `orphan`: it is on the wire, so the backend executes it or
is interrupted in it before anything sent later. Statements of the cleanup
carry no signal and cannot be cut short. The transaction block state
of the backend (`tx`) and the adapter's estimate (`tracked`) are separate
variables; the code decides on the second.

### DataExport

`export()` drives the generator `stream()`, which drives the generator
`streamTableRows()`. An error thrown at a `yield` runs the `finally` blocks
below it, so `ConsumerFailed` leads to `Close` and from there to the catch of
`stream()` (`Caught`) only when the generator stands in its row loop
(`resume = "row"`). The serializer's methods run to an end (`sp` is `ok` or
`threw`) while the engine waits (`consuming`, `recovering`, `finishing`). A row
that cannot be normalised or rendered, a planning error, a failing statement,
a failing or aborted write and a throwing callback are all choices the model
makes at any of their points.

The output is abstracted to what a restore tells apart: rows of each table
in order, the COPY block the text ends in, the tables with an `INCOMPLETE` comment,
and `strayed`, which records that something was ever written where it would
be read as something else.

### DependencyGraph

Entries are numbered in the order of `compareEntries`, which compares sections
first. The relation Tarjan's algorithm decides (two entries reach each other)
stands for the algorithm. Duplicate records of the builder (same target, two
strengths) are kept, because Kahn's counts depend on the consolidation in
`freezeEntry`; two records of the same strength differ only in their source,
which the order does not look at.

### SqlDumpRestore

The dump is whatever the reader hands out: the kind of each operation and the
end of the file are chosen when they are read, so a run covers every dump of
up to `MaxOps` operations. The statement the client awaits and the orphan of a
rejected query are as in `DumpSession`. An operation's effect is its number, in
`inner` (since the restore's savepoint), `pending` (in the open transaction) or
`kept` (committed); a rollback empties the first or the first two.
`CopyLoad` lets the payload generator, the server's rejection of the COPY, the
signal and the progress callback interleave. A destroyed payload closes its
generator, which runs its `finally` at once when suspended at a `yield`, after
the pending read when it awaits the source, and never when it was not started.

`RestoreContract` is the abstract specification: operations are taken in order,
each is settled once before the next is taken, nothing follows a failure under
`stopOnError`, and the promise settles with a status that tells whether
anything failed. `KeepsContract` is its `Spec`, fairness included, under the
refinement mapping at the end of `SqlDumpRestore`.

### SqlDumpReader

The bytes of the dump are chosen when they are looked at, and the reader runs
in lockstep with a machine for psql's rules, so a behaviour is a dump of
any length. Bytes are classes (a letter, the `E` of an escape string, a digit, a
quote and so on). The parts of a statement are not kept, only how far into the
buffer they should reach (`due`) and whether one ever missed or repeated a byte
(`torn`). What makes a statement a COPY is a choice of kind made at its end. A payload
line is collected byte by byte and judged once it is whole, as `readCopyPayload` does,
while psql follows each byte.

### PlainDump

`Catalog` describes the objects of a source database and how PostgreSQL records
what each of them uses; `SourceCatalog` says which of those records
introspection turns into references, `ArchiveEntries` which of the references
become edges, and `SqlStatements` what a statement needs on the server it is
run on, creates there and meets there. `PlainDump` writes a document entry by
entry and replays it by a client that goes on after a failing statement, so that
one failure does not hide the next. `server` and `ran` belong to that replay and
are no part of the program. PostgreSQL's side (what a statement needs, what is
dropped with an object, which drops are refused) is external in `PROJECT.json`.
`GoesWith` closes what a DROP takes along: members, parts, what is attached to a
relation, owned sequences; `Dependents` is what would have to be dropped first.

The names that order entries of equal priority follow the object ids up or down
(`naming`); other orders of names are not tried. ACL entries are one per grantee.
A section filter reaches the archive through `inspectDumpArchive`; the
orchestrator passes none.

## Runs

| Run | Bounds | Shows |
|---|---|---|
| `dump_session` | two work statements, one abort, one lost connection | `NoTransactionLeft`, `SuccessMeansCommitted`, `SearchPathKept`, `CallerTransactionKept`, `EventuallyReleased` |
| `data_export` | two tables, three rows each, fetch and batch size two, two rows per INSERT | output well-formed, no row twice, complete or flagged, counts, fail-fast, cursor closed, nothing written after a failure, it settles |
| `dependency_graph` | three entries, five records, every section assignment and selection | complete, ordered, canonical; refused only when no order exists |
| `sql_dump_restore` | three operations of five kinds on an idle connection, one line per COPY block | no transaction left, the loop goes on only in a usable session, the report agrees with what was kept, totals agree, the restore implements `RestoreContract` and settles |
| `sql_dump_reader` | chunks of one or two bytes, tags of one letter, nesting of two, payload lines of four bytes, no `+` | statements and payloads end where psql ends them, no byte lost or repeated, nothing unfinished dropped |
| `plain_dump` | a catalog of 83 objects: each with all it needs under 26 option sets and two namings, every pair of 21 of them under three option sets, two triggers of one name | what fails on replay, what is lost and what is refused are explained by the known gaps alone |
| `dump_session_abort` | as `dump_session` | an abort in the statement that hides the search_path leaves it hidden |
| `data_export_lost_rows` | as `data_export` | pending INSERT rows of an intact table are discarded with the next one's failure |
| `data_export_next_table` | as `data_export` | after a server error no table can be exported any more |
| `data_export_callback` | as `data_export` | a callback exception does not abort a bestEffort dump |
| `sql_dump_reader_guards` | as `sql_dump_reader` | a chunk that ends after a `\restrict` line costs the next statement its first bytes |
| `plain_dump_graph` | one view over another, every option set | a view that reads columns of another can be written before it |

Why the bounds are enough. *Session*: the work callback is a loop of
statements, so two of them give a first, a last and a point between, and the
control of `run` has no other loop. *Export*: two tables give a
table before and one after a failure; three rows with fetches and batches of
two give a full fetch, a short one, an empty last one (with two rows), a full and a partial batch,
and with two rows per INSERT a full statement and a pending row. *Graph*: three entries give cycles of
two and three and entries between them; five of the twelve possible records
give hard and preference records on and off a cycle and duplicates of both
strengths. The same module with four entries and four records (16.8 million
states, some four minutes) passes as well.

*Restore*: three operations make a transaction with
something in it, or an operation before and one after a failed one; `BEGIN`,
`COMMIT`, `END`, plain SQL and COPY are the kinds the code tells apart. *Reader*:
every pair of bytes the lexer peeks at fits in two chunks and in one; the run has
also been made with chunks of three bytes, tags of two letters and `+`. *Plain
dump*: the dependency rules relate an entry to one other at a time, so single
objects with all they need meet each rule, and pairs meet two of them together.

The six violation runs are disagreements between the code and what the
repository says of it; `PROJECT.json` quotes the lines under `findings`.

`CHECK_DEADLOCK FALSE` is set for the export, the graph and the plain dump,
which really stop: a settled export, a finished order and an ended document
take no further step. Session, restore and reader have a step for having ended
instead, and their runs check for deadlock.

### Fairness

`DumpSession`: weak fairness of the client (an awaited promise that has settled resumes its
function) and of the backend (a statement sent on a live connection is
answered; on a lost connection the driver rejects it). `DataExport`: weak
fairness of the export's own steps, which
include the answers of the server and the settling of a write. Nothing obliges
a signal to fire, a connection to fail or a callback to throw. A server that
never answers and a stream that never calls back are outside these assumptions;
the code has no timeout of its own for either.

`SqlDumpRestore`: weak fairness of the client, of the backend (it answers a
statement, or the loss of its connection is reported), of the generator (the
source delivers or ends) and of a COPY that was told to end. Nothing obliges a
server to reject a COPY that is still open. The reader and the plain dump have
no liveness property: the first is read on demand, and the second is a loop over a
finite list.

### What the properties leave out

* `SearchPathKept` exempts an abort outside managed mode; `dump_session_abort`
  shows why.
* `CompleteOrFlagged` exempts an INSERT table before one that bestEffort
  recovers; `data_export_lost_rows` shows why.
* `OutputWellFormed` and `CompleteOrFlagged` exempt a bestEffort export whose
  callback threw (`CallbackRecovered`): a callback that throws between the
  `\.` of a COPY block and the reset of `#active` makes `recoverTable` write a second
  terminator.
* `CursorClosed` exempts an aborted export (a signal that rejects DECLARE while
  it runs leaves `declared` false) and a bestEffort export whose stream broke
  (a rejected `recoverTable` leaves the generator suspended, and its `finally`
  never runs). In both cases the dump fails, and the end of its transaction
  closes the cursor in managed mode.
* `StatisticsMatchOutput` covers INSERT tables of a fail-fast export only:
  rows are counted when they are queued, and bestEffort may discard them.
* A fail-fast read error after the first batch is reported under the table of
  the batch before it: `export()` awaits `stream.next()` inside the try of
  `consume`. The model keeps that name in `blamed`; no run checks it, because
  the repository promises no more than a table identity.
* `NoTransactionLeft` of the restore exempts a signal that fires while a `BEGIN`
  of the dump is on the wire: the estimate never sees that transaction.
* `SessionUsable` and `ContinuesPastErrors` exempt a dump that says `END`, which
  the estimate does not follow: the next `SAVEPOINT` is sent outside a
  transaction, and outside the try that would recover.
* `ContinuesPastErrors` also exempts a COPY that fails while its generator awaits
  the source: the remainder cannot be discarded then, and the restore ends.
* An operation whose `completed` callback throws is counted twice, and a failing
  COMMIT undoes operations counted as completed; `EffectsAsReported` exempts
  the first (`late`) and speaks of dumps whose control statements succeed.
* A dump cut off at a statement boundary inside its transaction resolves as a
  success with the transaction open, and a caller's own open transaction
  is rolled back with the dump's. `NoTransactionLeft` speaks of rejected restores
  on an idle connection.
* `copyBytesWritten` keeps the bytes of a failed operation; `TotalsMatchReport`
  says only that no completed one is missing from it.
* `close()` and `nextOperation` wait for a source that stalls, without a bound.
* `SplitsAgree` leaves out a semicolon within parentheses, where psql does not end a
  statement and the reader does; a `$` directly after a word or opening a tag that
  is never closed; a backslash anywhere but at the start of a line or in
  a quoted text; and a literal continued on another line. `maxStatementBytes`, invalid
  UTF-8 and cancellation are one step (`Interrupted`). A discard is modelled
  from the start of a line.
* The known exceptions of the plain dump are named in the comments of its
  properties; `Unlinked` and `Absent` are what they rest on.

### Known gaps the plain dump's properties allow for

Met while modelling; each is in the model, or named here where it is not.

* References: domains deliver no dependencies; a reference to a column, a row
  type, a procedure, an array of an enum, or inside an expression is not
  resolved. A table has no edge to its columns' types, only an earlier
  place by priority. `unresolved-dependency` warnings do not reach `DumpResult.warnings`.
* Identities: comments on same-named triggers, policies, rules or constraints of
  different tables collide, and the whole dump is refused.
* Extensions: constraints, indexes, rows, comments and privileges of a table that
  belongs to an extension are emitted all the same. With sections asked for,
  members of an extension left out are skipped silently.
* Members that are not recognised: "Extension members are not emitted
  independently by default" (`docs/advanced-objects.md:26-28`), but only what the query of
  members names (`advancedCatalogQueries.ts:47`) and what is registered under the kind of
  the reference (`AdvancedIntrospector.ts:101-134`, `ArchiveBuilder.ts:1200`) is marked as
  one (`MarkedKinds`). Event triggers, wrappers and servers get no name, a procedure is
  looked up as a function, and their own queries do not leave members out (`Unmarked`). So
  their CREATE stands beside CREATE EXTENSION, without an edge to it: written behind it
  their own fails, and written before it, it makes CREATE EXTENSION fail, whose other
  members are then missing. In a clean dump PostgreSQL refuses to drop such a member while
  its extension is there, and a server of the user's own on such a wrapper is not dropped
  before the extension. A language of an extension counts as
  provided by the system (`ArchiveBuilder.ts:274`): it has no entry, and a function
  written in it no edge to the extension.
* Privileges of procedures are written ON FUNCTION (`SqlRenderer.ts:1427-1430`), which
  PostgreSQL refuses; they are lost, and PUBLIC keeps its default.
* Clean: the schema `public` is dropped and not created again, and foreign tables
  are dropped (and commented) as tables. With sections, the first `BEGIN` comes before
  the drops.
* Filters: `includeTables` leaves out sequence states, owners and privileges of
  what comes in as a dependency.
* Preflight: identity and generated columns are refused under
  `warn-downgrade`, for which the renderer has a replacement; foreign tables are
  refused as partitioning; access methods of materialized views are not
  looked at; `unsupported` is always empty; tablespaces are refused when no
  restore transaction mode is given, though the renderer's default is none.
  A policy of `error` lets unrenderable objects throw in the middle of the output.
* Owners, comments and privileges: owners of some kinds only. Comments of
  extensions, roles, tablespaces, servers, wrappers, languages, publications,
  subscriptions, event triggers and statistics are lost (that of a large object is in its metadata). Privileges of
  aggregates, languages, tablespaces, wrappers, servers and large objects are lost, those of
  columns are not read, an empty list is restored as the default.
* Data: a materialized view is created with its data before rows are loaded, and
  its own entry is skipped with a warning. When rows fail to render in replica
  mode, the document ends without resetting the role.
* Constraints: the child index behind a partitioned table's UNIQUE constraint is
  emitted again. Not in the model: a constraint's index loses its
  cluster and replica marks and its tablespace, `REPLICA IDENTITY FULL` is not
  written, a foreign key of a partitioned table is added with `ONLY`, a
  domain constraint's comment names a relation, exclusion constraints are not dumped
  (`docs/architecture.md` says so), an identity sequence with a name of its own
  keeps the default one.
* A sequence state that cannot be read inside a managed transaction fails the
  introspection; only outside one is it a warning.

## Proofs

TLAPS checks, for every value of the constants, every invariant and action
property that a run checks. Most of them speak of an end of the run and are not inductive; each module defines the invariant
that is, as a conjunction of named parts, TLC evaluated it on the run of
its model before it was proved, and one lemma per action, or per part and
action, shows that it is kept.

* `DumpSessionProofs`: `TypeCorrect`, `PoolClientIdle`, `SuccessCommits`,
  `CallerKeepsTransaction` and `PathIsRestored`, for any number of work
  statements, from `MaxWorkAssumption` (a natural number). `Inv` adds where the
  client can be when each statement is on the
  wire (`WireInv`), that only an owned transaction is ever begun or ended
  (`OwnerInv`), what is known at each running point (`RunningInv`), and that an
  orphaned BEGIN or COMMIT is followed by a ROLLBACK that the backend executes
  after it (`ClosedInv`). `SearchPathKept` needs `PathInv` besides: in managed
  mode the search_path is hidden inside the transaction whose end restores it
  (`ManagedPath`); outside it the statement that hid it has been answered, or
  the session never says it succeeded (`UnmanagedPath`).
* `DataExportProofs`: `TypeCorrect`, `WrittenOnce`, `WellFormed`, `StatisticsMatch`,
  `FailsFast`, `CursorsClosed`, `AccountedFor` and the action property `Silent`, for any
  number of tables and rows and any fetch, batch and statement size, from
  `SizesAssumption` and `ReadSizesAssumption`. `Inv` is built in layers: `Control`
  (types, and which points of engine and serializer go together), then one part for
  each question. `RowsInv` follows a row from the batch in hand through the pending
  INSERT rows to the output, and balances what was read against what is
  written, pending and discarded (`Handed`, `Serialized`, `Counted`); `DoomInv`
  says what is bound to fail, `BlockInv` which COPY block the text stands in,
  `StatInv` and `FailInv` what was counted and reported, `CursorInv` which exits
  still have a CLOSE ahead of them, and `AccountInv` that a table short of rows is
  named by a diagnostic or is one of those `CompleteOrFlagged` exempts.
* `DependencyGraphProofs`: `GraphTypeCorrect`, `DependenciesAreFirst`,
  `NoneEmittedTwice`, `SectionsStayContiguous` and `OrderIsCanonical`, for any
  number of entries and records, from `CountAssumption`. The heart is
  `EmitCounts`: `remaining[e]` is the number of records of `e` whose target is not emitted
  (`CountInv`), because consolidation leaves one record per target
  (`ConsolidatedOnce`) and `dependents` is a set; so `available` is exactly
  what may be emitted (`ReadyInv`), and each property of the order follows for
  the entry emitted next. `SectionInv` strengthens contiguity to what is
  available. `NothingIsLost`, `RecordsAreRespected` and
  `RefusedWhenImpossible`, from the same assumption, speak of reachability,
  which a recursive function computes; what it returns is proved by taking a least
  counterexample (`ReachesIsClosure`, `ReachesIsLeast`: the least
  transitive relation containing the records), which well-founded order
  on the numbers allows where induction over an operator is out of reach. A
  graph in which nobody is available has a cycle (`SomeoneIsReady`), so the loop stops
  short only of the entries on or behind one, and `CycleOfCycles` says that it
  is among hard records that cannot be ordered. `FrozenInv` adds what the freeze
  made of the records.
* `SqlDumpRestoreProofs`: `TypeCorrect`, `TransactionEnded`, `Usable`, `Reports`,
  `Continues`, `TotalsMatch` and `Implements`, for any number of operations and
  payload lines, any kinds and any state of the connection at the start, from
  `EntriesAssumption`, `KindsAssumption`, `MaxOpsAssumption` and `MaxLinesAssumption`. `Inv` says
  which statement is on the wire at each point (`WireInv`, `PathInv`) and how far a
  COPY, its generator and its reader have come together (`PayloadInv`); for a
  connection that is alone in using its backend, which transaction and
  savepoint are open before, in and after an operation and during its recovery
  (`SessionInv`); why the loop has ended (`CauseInv`); the counters against the
  report; and where the effects of each operation are (`EffectsInv`: placed by
  savepoint and transaction, gone after a failure, kept when reported as completed).
  `Served`, `OrphanServed` and `Operated` are the lemmas the actions
  share. For the refinement, `ReadOperation` is the contract's `Take`, `OperationStep`
  is `Complete` or `Fail`, `Close` is `Resolve` or `Reject`, and every other step leaves
  the contract's variables alone. `Implements` is the contract's `Init /\ [][Next]_vars`;
  the fairness in `KeepsContract` is checked by TLC.

* `ArchiveSelectionProofs`: what the pure functions of the archive return, for every
  catalog that meets `CatalogAssumption`. `OrderedIsArranged`: the order of a finite
  selection holds no entry twice, each behind the targets of its edges, by section. It
  rests on `EarlierIsOrder` (section, priority and identity order all entries, since
  no two types of a section share a priority). `ClosureIsClosed`:
  the closure contains the hard targets of its members, except what the mode and the sections
  exclude. Both are recursive functions over sets, so the lemmas show that they are
  defined and argue by the smallest set that would be a counterexample. `EntriesAreFinite` and
  `EdgeShape` say what archives are made of.
* `PlainDumpProofs`: `TypeCorrect`, `EveryEntryAccounted`, `RefusedBeforehand` and
  `StatementsFramed`, for any catalog, sources and options, from `CatalogAssumption` and
  `SourcesAssumption`. These two say what holds of any PostgreSQL database: a finite catalog of
  the modelled kinds, with an object all it uses and where it is, and an index behind every key
  that takes nulls for equal (preflight sees that feature on the index only). `DumpInv` is
  the invariant: the archive is one the planner makes (`ArchiveInv`); the
  list is the rest of an order in which the targets of the edges are behind
  (`TodoInv`); the accounts hold exactly what had its turn and what the data hooks wrote, and
  nothing rendered depends on anything unavailable (`AccountInv`); preflight passed
  before the first line (`RefuseInv`); the open transaction is that of the mode (`FrameInv`).
  The step that is not obvious is the data hook, which writes entries whose turn is still to
  come: what they depend on is in the section before, hence settled (`HookedWritten`).
* `PlainReplayProofs`: `ReplayFailuresExplained`, for any catalog, sources and options, from
  `ReferencesAssumption` besides. It says what PostgreSQL's catalogs hold: which kinds a
  reference of each kind can lead to; that what is attached to a relation is in its schema
  and no member of an extension of its own; that the index of a primary key and the key of a
  partition name the key they come with; which kinds are always in a schema (`InSchemas`);
  that only tables are foreign, and that the schema `public` is no member. Every row of `MCPlainDump` meets it.
  The statement at hand may fail for a fact it misses or for one in its way, and what is
  known of either lies behind it or ahead of it; so `ReplayInv` has a part for each.
  `SortInv`: the rest of the list is the planner's order still. `WrittenInv`: every written
  entry brought the object and what comes with it, or failed; `WarnedInv` and `PublicInv` say
  why another object may be missing all the same. From these, `NeededIsThere`: a need that
  is an edge of the archive is behind (the order), and rendered, or left out with an account
  (nothing rendered depends on anything unavailable), so it is on the server or `Absent`.
  `NotYetInv`: what is still to come is not on the server, an extension's marked members
  included, unless its DROP failed. It excepts what another statement makes besides: the index
  of a partition's key and the unmarked members of an extension (`Coming`, `ComesWith`),
  for which `FailuresExplained` allows that their statement or the extension's meets them.
  `GuardInv`
  and `RowsInv` say the same of the foreign keys and triggers that would meet rows, and of
  rows before a foreign key. They hold at the start of a dump into an empty database, and
  after the drops of a clean one: `DropsInv` says that the drops are the list in reverse, that
  what had its turn is gone with its parts, rows included, or its DROP failed (`Felled`), and that a server
  being emptied holds facts of the source alone. `AtDrop` is the core there: what a DROP meets
  is held on to by an object whose DROP came before, because it has an edge to what goes.
  One lemma per action shows the parts kept (`CheckKeeps`, `DropKeeps`, `TurnKeeps`,
  `OthersKeep`), and `RanInv` is the property of the statements written so far.

  `ReplayRestoresSource` is proved from the same assumptions, on `FactsInv` beside `ReplayInv`.
  `KeptInv`: what a written statement creates stays on the server, or it failed; only
  PUBLIC's rights are ever taken back. They need parts of their own: `DefaultInv`
  (an object nothing was granted on has its default), `RevokedInv` (one with grants, none of them to PUBLIC,
  lost it with the first grant, but for procedures, whose grants fail), `GrantedInv` (`granted` is where access control was begun, so a grant to
  PUBLIC is never revoked by a later one), and `LastInv`, since a default that came back with
  an object created after its grants would break `RevokedInv`: access control is of the last section.
  `SourceInv` bounds the server from above, by facts of the source and PUBLIC's
  defaults; `SkippedInv` gives every skipped entry its reason. At the end, a
  fact that is missing is followed back: its entry was selected, so it was written or skipped
  (`EntriesAccounted`), or it was not, and then the filter, an option or the closure has left it
  out (`LeftOut`), or its object was not introspected and is `Absent`. The lemmas do so
  kind of fact by kind of fact; the longest road is that of a sequence behind an identity column, which
  has no statement of its own: its table brought it (`DoneIdentity`). The other
  direction is `RevokedInv` at the end: PUBLIC has a right it lacks in the source only where no grant was written.

* `SqlDumpReaderProofs`: `TypeCorrect`, `SplitsWherePsqlDoes`, `PartsHoldEveryByte` and
  `NothingLeftAtEnd`, for chunks, tags, nesting and payload lines of any length and any set
  of bytes, from `ExcludedAssumption` and `BoundsAssumption`. The reader peeks where psql has
  a state of its own (after a dash, within a closing quote), and it matches a delimiter
  against the one it opened with where psql collects a tag and compares. `Alike` says what
  the two have in common all the same: the mode for psql's place (`ModeAt`), the depth of
  comments, the tag, what of the closing delimiter has been seen (`Matched`), the word before
  the byte (`WordsAgree`) and whether there is anything to run. `ReadMatches` is the core: one
  byte in any mode, or two where the reader took the second with it, keeps them alike, and a
  byte that is peeked at and left is not the one psql waits for. `UnpeekedDecides` follows:
  where the reader does not peek, psql is not waiting. `ReaderInv` puts this beside the
  buffer: the next part starts where it should (`PartsInv`), what the byte ahead may be
  (`AheadInv`), and where psql is outside statements and in a payload line (`PlaceInv`).

Only model-checked: liveness (`EventuallyReleased`, `EventuallySettles`, the fairness of
`KeepsContract`), which is out of the prover's reach, as ENABLED is.

## Assumptions

* The connection is a `PgConnectionAdapter` over one node-postgres client; a
  caller's own implementation of `PostgresConnection` is outside the models.
* A cancel request interrupts the orphaned statement or comes too late; it
  never hits a later statement.
* Callbacks may throw but do not call back into the dump or the restore.
* A dump's `ROLLBACK` and its savepoint statements are not among the kinds of a
  restored operation; `END` stands for what the estimate does not follow.
* psql's rules and what PostgreSQL needs and refuses are external: modelled
  from their documentation, as far as the code relies on them.
* A row is one unit of output; the bytes of a value are not modelled, so
  escaping is outside the models.
* A write either reaches the stream or not; a prefix of a chunk on a
  broken stream is covered by "not", since every property of the output
  speaks of dumps that went on after it.

## Not modelled

* Value encodings: COPY escaping, INSERT literals and identifier quoting are
  functions of one value without state. They would be pure operators checked
  against PostgreSQL's unescaping; the repository's tests cover them by example.
* The text of catalog queries and of DDL, attribute by attribute: the models keep
  what decides existence, order, needs and loss.
* The page loop of `LargeObjectExporter` (one step of `DataHook`), the
  normalisation of one value and row-security modes of the planner, and the wait for
  `drain` in `DumpWriter.flush`, which needs the stream's own events.
* Security labels, default privileges and the database entry have their rules in
  `ArchiveEntries` and `ArchiveSelection` but no row in the catalog of `MCPlainDump`.
  `createOrReplaceViews`, `WITH NO DATA` and role and tablespace mappings are left out.
* Header, comments, counters and progress of a dump; redaction, the list of
  warnings, error classes and type declarations.

## Plan

Proofs: none is left among the properties the runs check that the prover can reach.

Models: COPY escaping and literals as pure operators; catalog rows for the kinds
that have none.
