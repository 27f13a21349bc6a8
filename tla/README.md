# A TLA+ development for workmem

`workmem` is a local memory server for MCP clients: tools write facts into
SQLite databases and read them back, `workmem reconcile` hides exact
duplicates and reports near ones, `workmem backup` makes encrypted snapshots,
and project-scoped memory lives either in the project's directory or in a
central store that all server processes share. The modules in this directory
model that behaviour from the code under `src/`; TLC checks them on small
instances, and TLAPS checks theorems about nine of them for every value of their
constants.

## 1. Inventory

### Components

| Component | Code | State it keeps | Operations | Modules |
|---|---|---|---|---|
| Memory tables and the tools that write | `internal/store/sqlite.go`, `events.go`, `tools.go` | `entities`, `observations`, `relations`, `events`, the contentless index `memory_fts`, `observation_embeddings` | `remember`, `remember_batch`, `remember_event`, `relate`, `forget` by id and by name | `MemoryTables`, `MemoryServer`, `MemoryGraph` |
| Exact-duplicate reconcile | `internal/store/reconcile.go` | `reconcile_runs`, `reconcile_decisions`, the four `superseded_*` columns | scan, apply, rollback | `Reconcile` (composed in `MemoryServer`) |
| The tools that read | `internal/store/search.go`, `events.go` | `access_count`, `last_accessed` | `recall`, `recall_entity`, `recall_event`, `get_observations`, `get_event_observations`; `list_entities`, `recall_events` | `Recall`; the listings in `MemoryTables` and `MemoryGraph` |
| Semantic report | `internal/semantic/report.go`, `internal/store/embeddings.go` | the vector cache | scan, select, look up vectors, call the provider, cache, emit | `SemanticReport` |
| Project handle cache | `internal/store/project.go` | LRU list and map of open databases with lease counts, the registry's handle | configure, acquire, release, evict, close idle, reset | `ProjectCache` |
| MCP runtime | `internal/mcpserver`, `internal/telemetry/client.go`, `runMCP` in `cmd/workmem/main.go` | the default database, the telemetry client with its mutex, connections, calls in flight | new, run, close; handle a call, log it | `Runtime` (composed with `ProjectCache`) |
| Telemetry store | `internal/telemetry` | the schema of the telemetry file and its `schema_migrations` | `InitIfEnabled`, `applyMigrations` | `TelemetryStore` |
| Central project registry | `internal/store/projectstore.go`, `cmd/workmem/project.go` | `registry.db`, one store directory per id, `discarded/` | lookup, register, open, `project move`, `project import` | `ProjectRegistry` |
| Schema and migrations | `internal/store/sqlite.go` | columns, indexes, `schema_migrations`, journal mode | `openSQLite`, `InitSchema`, `applySchemaMigrations` | `SchemaMigration` |
| Backup | `internal/backup/backup.go` | plaintext snapshot, temporary file, destination | snapshot, encrypt, sync, rename, sync the directory, clean up | `Backup` |
| Command line, embedding client, rendering, dotenv, sanitizing | `cmd/workmem`, `internal/embedding`, `internal/reconcile`, `internal/dotenv`, `internal/telemetry/sanitize.go` | none | | not modelled: parsing, arithmetic and formatting |

### How they interact

- Handlers of one server run concurrently, and several server processes and
  commands open the same files. Each process has one connection per database
  (`SetMaxOpenConns(1)`), and every transaction of the store begins
  `IMMEDIATE`: at most one writes at a time and the others wait up to the busy
  timeout. Between two statements that are not in one transaction anything may
  happen. Telemetry's transactions are deferred, and differ.
- Handlers get a database from `AcquireDB`, hold a lease on it while they run
  and release it. Opening happens under `projectDBMu`; evicted handles are
  closed after the unlock.
- `Run` defers `Close`, which takes the default database, the telemetry client
  and the project handles while calls may still be in flight.
- Deletion is soft. A row can be hidden in four ways: its own `deleted_at`,
  a supersession, the tombstone of its entity, the end of its event. The code
  spells the predicate out in every query (`activeObservationSQL` and the join
  with live entities), so each query may get it wrong on its own.
- `memory_fts` is contentless: it can only drop a row when it is told exactly
  what it was given, so each row keeps a snapshot of its entity's type.
- The registry, the stores and `discarded/` are separate files. `project move`
  and `project import` change two of them with one transaction on the first.
- A backup reads the source through its own connection while servers write.

### What is hard here

`PROJECT.json` lists every hazard at its line with the properties that would
catch it. In short: names that are revived after a forget; rollbacks long after
their apply; clocks that pass an event's end inside a transaction or while a
writer waits for the lock; ids that are read in one statement and used in a
later one; vectors written after a network call; processes that register, move
and import one project at once and are killed half way; migrations raced by
several openers on a file of any release; leases, evictions and shutdown; one
connection that a call asks for twice; backups that overlap, fail or lose power.

## 2. Modules

```
MemoryTables  <-  Reconcile  <-  MemoryServer  <-  Recall
                                      |     \
                                      |      SemanticReport
             MemoryGraph  (refined by MemoryServer)
             MemoryServerProofs  (theorems about MemoryServer)
             ReaderProofs        (theorems about Recall and SemanticReport)
ProjectCache  <-  Runtime
     |               |
ProjectCacheProofs  <-  RuntimeProofs  (theorems; Runtime refines ProjectCache)
SchemaMigration  <-  SchemaMigrationProofs
TelemetryStore   <-  TelemetryStoreProofs
Backup           <-  BackupProofs
ProjectRegistry  <-  ProjectRegistryProofs
```

An arrow means that the module on the right EXTENDS the one on the left. Each
`MC...` module gives one of them values for TLC.

**MemoryTables** is one database as a record: `ent` (a name is absent, live or
a tombstone, with its type of today), `obs` (the row of an id, a sequence as ids
are never reused), `fts` (what the index was given), `rel`, `events` (their
expiry), `emb` (rows with a vector), `runs` and `dec` (the audit). Its operators
are the store functions, from a database to a database: `UpsertEntity`,
`AddObservation`, `CreateEvent`, `RelateEntities`, `ForgetObservation`,
`ForgetEntity`. `Visible` is the predicate of the read surfaces; `ListEntities`,
`SearchEvents`, `RelationsOutgoing` and `RelationsIncoming` are the listings,
each as its own query has it.

**Reconcile** adds `ApplyExactDuplicates` and `RollbackRun`, and the scan they
rest on, all judged at the second the command read its clock (`asOf`).

**MemoryServer** turns them into actions. `db` is the committed database. A
handler that passes over the tables once in one transaction is one action, as
the write lock makes it atomic. `remember_batch` and `remember_event` loop over
facts and can fail at each, so they run step by step on `tx.work`, which only
`CommitFacts` publishes and `AbortFacts` (an error or a kill) drops; `tx` being
open is the write lock. Every statement reads `CURRENT_TIMESTAMP` for itself:
the second of the event check, the second of the duplicate lookup and the second
of the insert are parameters at most `MaxLag` apart, and reconcile's clock is at
most `MaxLag` older than its writes.

**MemoryGraph** is what a client may rely on, without rows or indexes: a set of
facts, a set of edges, the entities and the events that are listed, the time,
the number of runs. Remembering only adds; forgetting takes exactly what was
named; relating brings back no fact, even when it revives an endpoint; time only
takes away; apply and rollback are invisible; whatever has a fact or an edge is
listed, and events are never unlisted except by time. `ImplementsGraph` is the
refinement, with `facts <- VisibleFacts(db, clock)`, `edges <- RecalledEdges(db)`,
`listed <- ListEntities(db)` and `events <- SearchEvents(db, clock)`.

**Recall** adds the tools that read. They are no transactions: `recall` runs one
statement per channel (`CollectChannel`), then `Hydrate`, then `Touch`;
`recall_entity` and `recall_event` read a header and then the rows
(`SelectRows`). Any writer's step and the clock fit between two of them. A query
is the sets of values that each channel matches. Which rows a full channel or
the final ranking prefers is arithmetic no property looks at, so every choice is
allowed where ranks or scores decide, and only `ORDER BY o.id` is kept. For its
properties a call remembers `always`, the pairs of a channel and a row that this
channel would have found in every state since the call began, and `ever`, the
rows any channel would have found in some.

**SemanticReport** is the report command: scan, row selection and cache lookup
are separate reads, the provider is asked with no transaction open, and the
vectors are written afterwards.

**ProjectCache** has one step per section of `projectDBMu`. `closing` holds the
handles a call took out of the cache and will close after the unlock. The
recency list `lru` is kept as the order it stands for, a set of pairs, so that
what is evicted is said by counting idle keys and can be proved about. Handles
are reusable slots. `Reset` is the shutdown and happens at most once: exact
counts and open leases are claimed until then. `Configure` happens before the
first acquisition, as `New` does it. In central mode a call first reaches the
registry (`OpenRegistry`), whose handle is cached beside the projects'.

**Runtime** is one server process from `New` to the end of `Close`. `main` is the
goroutine of `Run` and `Close`; `call` is each handler's place. A database has
one connection (`conn`): a statement or a transaction takes it (`TakeConn`) and
gives it back (`LeaveConn`). Closing a database waits for nobody, but the
checkpoint before it needs the connection (`CloseOne`). A call captures the
telemetry client when it begins and logs when it has answered, under the
client's mutex (`mu`); `CloseClient` waits for that mutex. The read of
`r.defaultDB` is a step of its own (`BindDefault`), as nothing synchronizes it
with `Close`. What a call does to its tables is `MemoryServer`'s business. That
the SDK's `Run` may return with calls in flight is external, and what the
comments on `Close` assume; `late` remembers that it did.

**TelemetryStore** is `InitIfEnabled` by several servers. `commits` counts the
changes of the file; a migration's transaction is deferred, so its first write
needs that nobody else holds the lock or has committed since its first read
(`CanUpgrade`), and is refused without a wait otherwise (`GiveUp`).

**Backup** has one step per file operation of a run, from `Begin` over the checks
and the temporary directory (`Refuse`, `MakeDir`) to the read snapshot of `VACUUM
INTO` (`StartVacuum`) and on to the rename. The source is the number of
transactions committed to it, a backup the number it was taken at and whether
all of it is there. `dest` is the destination as processes see it and `safe` as
the disk has it: a file that was not synced may be cut short by a loss of power,
a directory entry that was not synced may be what it was before. `Settle` is the
sync of the destination's directory after the rename. It is best effort, as in
the code: it may fail, and the run reports success all the same; `settled`
remembers for which runs it worked.

**ProjectRegistry** has the shared root (`root`), the registry's write lock,
which only `project move` holds over several steps (`lock`), the acquisition a
server runs (`acq`), its cached handles and leases, and the commands (`cmd`).
Each registry statement, each look at a directory and each change of one is a
step; a server or a command can end after any of them (`Restart`, `Kill`). In
particular a server's `os.Stat` of the store (`StatStore`), its `ensurePrivateDir`
(`MakeStoreDir`) and `InitDB` (`Open`) are three steps between which a command may
rename the directory; only the statements inside `InitDB` are one, and
`SchemaMigration` has those. A store's directory may therefore be `"bare"`,
without a database file. `moved` in `acq` remembers that the directory was
renamed after the server's look at it. A deleted registry row is kept without
its path so that a property can tell an id that was registered once. `Crews` bounds a history: which processes there are, how many ids, and
the root it starts on.

**SchemaMigration** has the schema of one file (`file`), the transaction's view
of it (`work`) and each opener's place (`pc`). A baseline or post-migration
statement is one step and takes the write lock only if it makes something; a
migration is `Begin`, the re-check and `ALTER` (`AlterTable` or `SkipApplied`),
`PostSQL`, `RecordAndCommit`. Files of every kind a release may have left are
initial states: without a version registry, with eight or fourteen recorded
migrations, or new. Only columns that a migration or an index names are kept.

`PROJECT.json` maps every definition to its lines.

## 3. Runs

| Run | What it shows | Bounds and why they suffice |
|---|---|---|
| `tools` | All writing tools from an empty database: `IndexMatchesRows`, `TombstonesHideNothing`, `AttachedWhileActive`, `NoNewDuplicates`, `AcknowledgedFactsKept`, `ImplementsGraph` | Two names, one content, one type, two rows, one event, three seconds, `MaxLag = 1`, two facts per transaction. One name to forget and another to relate it with; a type change between two rows; an event that ends between two facts, or between the statements of one. |
| `reconcile` | Apply and rollback on databases with duplicates, interleaved with the tools: `AuditBacksSupersession`, `RollbackIsWhole`, `SupersededByVisible`, `OnlyRollbackRestores`, `ImplementsGraph` | Three imported databases (two copies; two copies of each of two entities; two lasting copies beside a newer one whose event will end), four rows, three runs (apply, rollback, apply again), `MaxLag = 0`. |
| `recall` | Every read tool beside every writer: `ReadsTypeOK`, `ReadsOnlyVisible`, `RecallFillsLimit`, `TouchedWereReturned` | Four rows of two entities, one on an event that ends; a query of two words that every channel but the types answers; limit 1 with the code's multiplier 3 and a pool of three of the four rows, so that the limits bite; one read at a time, one counted access per row. |
| `report_drift` | A report beside the writers on a live and on a drifted import: `ForgetRepairsDrift`, `OnlyReportsLeakVectors` | Two names, three rows, one provider call: an import with undeleted rows and edges under a tombstone, and one with a row too many for the limits. |
| `runtime` | One server process, every project mode: the handle cache's `LeasedHandleStaysOpen`, `RefsCountLeases`, `OverLimitOnlyInUse`, `HandlesAccountedFor`; `ClosedClientIsSilent`, `ShutdownClosesAll`, and `ShutdownEnds` under fairness; `TypeOK`, which says who holds connections and the mutex | Two handlers and the closing goroutine, two projects and the global database, a cache of one: all entries leased and one more wanted, two calls for one connection, one logging while the client is closed. Five handle slots, the most that are ever open at once. |
| `registry` | Servers that open a project and commands that move and import it (move against move, move against import, import against import), any process ended at any step: `RegisteredStoreIsWhole`, `InitializedStoreExists`, `CallsConverge`, `LostStoreStaysLost`, `MemoryIsNeverDeleted`, `TypeOK` | Two paths. On a root that is fresh or has lost its registry: two servers, or a server and a command, and two ids. With a project in use: two servers and a command, or a server and two commands, with two ids; a server and a command, or two commands alone, with three, as a path registered again after its store was moved or discarded takes a third. One call in progress per server, one cached handle besides those in use. |
| `schema` | Two openers, files of every kind, one open cut short: `RecordedIsPresent`, `ServingIsComplete` and, under fairness, `OpensSucceed` | Two openers are what the re-check under the lock is for. The releases chosen lie on both sides of the version registry and of `content_snapshot`. |
| `backup` | Backups to one destination beside a writing server, with failures, cancellation, kills and losses of power: `DestIsWhole`, `AcknowledgedSurvives`, `OnlyOverlapsGoBack`, `NothingLeftBehind`, `TypeOK` | Three runs: one killed, one acknowledged, one that overtakes it; one commit, before, between or during the runs, which makes two snapshots differ; a destination that is new or holds an older backup. |

Four runs expect a violation; each shows a disagreement between the code and
its documentation (`findings` in `PROJECT.json`):

- `stale_apply` (`SupersededByVisible` with `MaxLag = 1`). Apply reads its clock
  before it waits for the write lock (`reconcile.go:177`, `Begin` at 190) and
  judges activity at that second; `API_CONTRACT.md` 195-197 says it validates
  inside the transaction that every observation is still active. If the newest
  copy's event ends during the wait, apply hides the lasting copy behind an
  expired one.
- `report_leak` (`NoVectorOfForgotten`). The report writes vectors after the
  provider call without looking at the rows again, so a row forgotten meanwhile
  gets an embedding row that nothing removes (`report.go:204`;
  `API_CONTRACT.md` 243-244).
- `registry_discard` (`DiscardsOnlyEmpty`). `project move -replace-empty` checks
  that the destination store is empty before its transaction and renames it
  without looking again (`projectstore.go:406`, 449; `OPERATIONS.md` 44-45).
- `telemetry_busy` (`ContentionIsWaitedOut`). The telemetry client says it
  mirrors the main store's way to open a database so that brief contention
  retries (`client.go` 70-75), but its DSN lacks `_txlock=immediate`: a migration
  that has read when another server commits is refused at once, and that server
  has no telemetry for the session. The pragmas also set the busy timeout after
  the switch to WAL, a second refusal that the model leaves out.

Observed while modelling, and documented behaviour rather than a divergence:
forgetting the newest copy of a superseded fact does not bring the older one
back; a fact that reuses a duplicate is not attached to its event
(`API_CONTRACT.md` 88-106); migration 4 adds `observations.entity_type` and
leaves it NULL for old rows; a global call that begins before `Close` and reads
`r.defaultDB` after it would crash on nil (`Panic` in `Runtime`), which takes a
call that outlives the SDK's `Run`.

Some properties make an exception the code needs. `AttachedWhileActive` allows
the `MaxLag` seconds between the check of an event and the insert.
`LostStoreStaysLost` says what of the promise about lost stores the code keeps:
it excepts a failed move that renames its store back, a server that read its
record before it was initialized, and a server that found the file in place
(`projectstore.go:697`) and had its directory renamed by `project move
-replace-empty` (449) before `InitDB` (704), which then makes an empty store.
`API_CONTRACT.md` 65-67 says that such a store fails instead of starting empty;
if the move ends before its commit, the path goes on with the new store while
the old one is under `discarded/`. Without the exception TLC shows this trace;
with it there is no other case, for a server that looks for the file when it is
gone makes none. `AcknowledgedSurvives` is about backups whose
directory took the sync; where the sync fails, `backup.go` (207-210) reports
success and a loss of power may bring the previous backup back.
`ShutdownClosesAll` is about shutdowns that no call outlives: a late call may
open a project after the reset, and the process exits with it open.
`NothingLeftBehind` is about runs that end by themselves; a killed run leaves
its files. `OnlyOverlapsGoBack` lets a backup be replaced by an older one only
when the two runs overlapped, which the code does not prevent.

Deadlock is checked for the registry and the schema, where some process can
always go on. In the memory modules the bounds on rows, runs and time let a
behaviour end, and a server process and a backup end by design, so it is off
there; that a server does not wait for ever is `ShutdownEnds`.

### Fairness

All properties but two are safety. `OpensSucceed` assumes weak fairness of each
opener's `Step`: an opener that is not killed runs its next statement. SQLite
gives waiting writers no order, but a version is recorded once and a statement
that finds its object takes no lock, so the other opener holds the write lock a
bounded number of times and weak fairness is enough. Nothing is assumed of
`Start`, `Stop` or `Close`, and a lock that stays taken for the busy timeout is a
`Stop`.

`ShutdownEnds` says that `Close` comes to an end. It assumes strong fairness of
the closing goroutine and of each handler. Strong, because they wait for a
connection or a mutex that others take and give back in between: `sync.Mutex`
hands itself over to a waiter that has starved for a millisecond, and
`database/sql` hands a returned connection to a waiting request. It also assumes
that a tool comes to its last statement (`LeaveConn(c, "finished")`): loops over
a batch are finite. Nothing is assumed of `Begin` and `RunReturns`, which are the
client's.

## 4. Theorems

| Module | Theorem | Statement |
|---|---|---|
| `MemoryServerProofs` | `TypeCorrect` | `Spec => []TypeOK` |
| | `IndexCorrect` | `Spec => []IndexMatchesRows`: the index holds exactly the undeleted rows, under the values it was given |
| | `AuditCorrect` | `Spec => []AuditBacksSupersession`: supersession marks and audit decisions tell one story |
| | `AttachedCorrect` | `Spec => []AttachedWhileActive`: no fact joins an event that expired more than the lag ago |
| | `TombstonesCorrect` | `NoDrift /\ Spec => []TombstonesHideNothing` |
| | `AcknowledgedCorrect` | `Spec => AcknowledgedFactsKept` |
| | `NoDuplicates` | `Spec => NoNewDuplicates` |
| | `RollbackAloneRestores` | `NoDrift /\ Spec => OnlyRollbackRestores` |
| | `SupersessionCorrect` | `NoLag /\ Spec => SupersededByVisible` |
| | `RollbackCorrect` | `NoLag /\ Spec => RollbackIsWhole` |
| | `GraphRefinement` | `NoDrift /\ Prompt /\ Spec => ImplementsGraph`: the tables implement the client's view |
| `ReaderProofs` | `ImplementsServer` | `RecallSpec => Spec`: readers leave the memory to the writers |
| | `ReadTypes` | `RecallSpec => []ReadsTypeOK` |
| | `OvercollectionCorrect` | `RecallSpec => []RecallFillsLimit` |
| | `OnlyVisibleIsRead` | `NoDrift /\ RecallSpec => ReadsOnlyVisible` |
| | `AccessesCorrect` | `RecallSpec => TouchedWereReturned` |
| | `DriftIsRepaired` | `ReportSpec => ForgetRepairsDrift` |
| | `LeaksAreTheReports` | `ReportSpec => OnlyReportsLeakVectors` |
| `SchemaMigrationProofs` | `SchemaTypeCorrect` | `Spec => []TypeOK`: the write lock belongs to exactly the opener inside a migration's transaction |
| | `RecordsCorrect` | `Spec => []RecordedIsPresent`: a recorded version has its column |
| | `ServingCorrect` | `Spec => []ServingIsComplete`: who serves has the whole schema under it |
| `ProjectCacheProofs` | `CountsCorrect` | `CacheSpec => []RefsCountLeases` |
| | `HandlesCorrect` | `CacheSpec => []HandlesAccountedFor`: no handle leaks, none is closed twice |
| | `LeasesCorrect` | `CacheSpec => []LeasedHandleStaysOpen` |
| | `LimitCorrect` | `CacheSpec => []OverLimitOnlyInUse` |
| | `CacheTypesCorrect` | `CacheSpec => []CacheTypeOK`: the recency list is a total order of the cached keys |
| `RuntimeProofs` | `ImplementsCache` | `Spec => CacheSpec`: the server process refines the cache |
| | `ServerLeasesCorrect` | `Spec => []LeasedHandleStaysOpen` in the process, through the refinement |
| | `ServerCacheCorrect` | the cache's other three invariants in the process |
| | `ClientCorrect` | `Spec => []ClosedClientIsSilent` |
| | `ShutdownCorrect` | `Spec => []ShutdownClosesAll` |
| | `ProcessTypes` | `Spec => []TypeOK`: who holds a connection and the mutex |
| `ProjectRegistryProofs` | `RegistryTypes` | `Spec => []TypeOK`: ids and paths of entries are unique, a call's handle is open |
| | `StoresAreWhole` | `Spec => []RegisteredStoreIsWhole` |
| | `InitializedStores` | `Spec => []InitializedStoreExists` |
| | `Convergence` | `Spec => []CallsConverge` |
| | `LostStores` | `Spec => LostStoreStaysLost`: a server that looks for a lost file makes none, whatever moves or ends between its steps |
| | `MemorySurvives` | `Spec => MemoryIsNeverDeleted` |
| `BackupProofs` | `DestCorrect` | `Spec => []DestIsWhole` |
| | `AcknowledgedCorrect` | `Spec => []AcknowledgedSurvives`: a backup whose directory was synced is lost only to a later one |
| | `OverlapsCorrect` | `Spec => OnlyOverlapsGoBack`: of two runs one after the other the second has all the first has |
| | `CleanupCorrect` | `Spec => []NothingLeftBehind` |
| | `BackupTypeCorrect` | `Spec => []TypeOK` |
| `TelemetryStoreProofs` | `TelemetryRecordsCorrect` | `Spec => []RecordedIsPresent`: refusals cost a session its telemetry and never the file its order |

Every safety property that a passing run checks is one of these theorems.

### The memory tables

For all names, contents, types, kinds, scopes, bounds, imported databases and
lags. Assumptions: `NoTypeAssumption` (NULL is not a type), `ScanAssumption` (the
scan's limits are numbers), `BoundsAssumption` (bounds and lag are naturals) and
`SeedsAssumption`: an imported database has the tables' shape, an index that
matches, an audit trail that backs its supersessions, no row from the future,
and the foreign keys SQLite enforces (a row's event and entity, the ends of an
edge). TLC evaluates all of them in every run of these modules. Drift, rows
under a tombstoned entity, is allowed by them.

Three hypotheses appear in theorems because the property is false without them:

- `NoDrift`: no imported database has rows or edges under a tombstone.
  `OPERATIONS.md` 127-131 knows databases that do, and `DriftIsRepaired` is about
  them. The runs `tools`, `reconcile` and `recall` satisfy it.
- `NoLag` (`MaxLag = 0`): apply and rollback read their clock under the lock. The
  run `stale_apply` shows what happens otherwise; `reconcile` satisfies it.
- `Prompt`: `NoLag`, or no reconcile run at all. A late apply shows the client
  that a fact disappeared, which `MemoryGraph` does not allow; the lag of a
  remembering tool does no harm, and `tools` has it.

The index and the audit are not inductive. Those of the *committed* database
after `CommitFacts` are those of the open transaction's copy, and "every source
of a decision is older than its target" needs the rows' times to lie in the
past, or the next row could be older than one that exists. So

    Good(d, now) == d \in Database /\ IndexMatches(d) /\ AuditBacks(d)
                    /\ no row of d was created after now
    IInv == clock \in Nat /\ tx \in Transaction
            /\ Good(db, clock) /\ Good(tx.work, clock)

is the invariant. One lemma per store operation shows that it keeps `Good`
(`UpsertKeeps`, `AddObservationKeeps`, `EraseKeeps`, `ForgetEntityKeeps`,
`ApplyKeeps`, `RollbackKeeps`, ...); the step lemma has one case per action and
cites them. The two long ones are `ApplyKeeps`, which needs `TargetIsNewest` (the
target of a group is newer than all its sources, from a maximum of a bounded set
of numbers), and `RollbackKeeps`, which needs that the checks of
`rollbackReconcileDecision` cover every decision of the run before any row is
touched.

The other properties do not look at the operations again. Relations say what an
operation does to the tables: `Stored` (a fact was added, or found), `Related`,
`Erased` and `Forgotten`, `Remarked` (only supersession marks moved). `Written` is
what one committed write does and `Worked` what one fact does to an open
transaction (`Steps`), and each property is proved once per relation. Three
strengthenings of `IInv` carry them: `AInv` adds that the rows of both databases
were `Attached` to events that were not over; `TInv` that both are `Tidy`
(nothing is left under a tombstone); `WInv` that the open transaction `Continues`
the committed database, that a row it added is the only active one of its fact,
and that each fact it has stored is still there. The last one is what
`AcknowledgedFactsKept` and `NoNewDuplicates` need at the commit, long after the
lookups that justified them.

`GraphRefinement` maps steps to steps. `Moves` says what a step is, seen from the
tables alone, and one lemma per kind of move shows which disjunct of
`MemoryGraph` it is: remembering adds at most one fact and lists its entity,
relating shows no fact, forgetting takes what was named, and a reconcile run
takes and brings back nothing the client sees, as a target stays visible for
each source.

### The readers and the report

For all queries, limits and multipliers, on top of the above. Assumptions:
`SearchAssumption` (limits and caps are numbers, the multiplier is not zero),
`AskedAssumption`, and `SeedsFitAssumption` (an import has no more rows than ids
are enumerated).

`ImplementsServer` makes every theorem about `MemoryServer` one about the
composition. `ReadInv` says what a call in progress has: `CallShape` and
`AccessShape` its type; `Seen` what `always` and `ever` mean now; `Collected` that
the channels already run have brought in all of their `always` rows, or as many
rows as a recall collects. `RecallFillsLimit` then follows by counting: a pool of
`limit * multiplier` rows has at least `limit` visible ones unless more than the
surplus have gone.

The property had to change for this. It used to promise every row that *some*
channel matches at every moment, and the invariant could not be proved: a fact
whose entity changes its type between two channels' statements may be matched by
the later channel first and by the earlier one afterwards, and is missed by both.
So `always` is kept for each channel. The run `recall` has no types and could not
have shown it; the theorem is for any.

`OnlyVisibleIsRead` needs `NoDrift` because `recall_entity` reads the rows of an
entity it saw live a statement earlier without asking for the entity again: only
`TInv` says that the rows of a forgotten entity are gone with it.

For the report, `ReportInv` says of the committed database and of the open
transaction's copy that every row and edge has its entity (`Owned`), and that the
copy has nothing under a tombstone and no vector of a deleted row that the
committed database has not (`NoWorse`). Without the second part a commit could
bring back what was cleaned: `DriftIsRepaired` is about the step that forgets and
about every later one. Imports are not assumed to be without drift, nor without
leaked vectors.

### The migrations

For all openers, releases and any number of kills. Assumptions:
`NoOneAssumption`, `KillsAssumption` (a bound is a natural) and
`ReleasesAssumption` (a release knew at most the sixteen migrations).
`RecordedIsPresent` speaks of the committed schema, and a commit installs the
transaction's view. `IInv` therefore says of both that recorded versions have
their columns, that a process past the `ALTER` has its column in its view, that
the lock tells who has a view, and that every process is at a statement that
exists. `MigrationColumns` reads off the list that a migration adds the column
`columnExists` will look for, and `LeftSound` that every release's file starts
sound, the missing `content_snapshot` included. `GoInside` and `GoOutside` say
what a change of one process's place keeps for the others; each action cites one
of them.

`ServingCorrect` adds `PInv`: a table that exists has the columns it was born with
(`WholeTables`), everything before an opener's place exists (`Done`), and nothing
is ever taken away (`Grows`), so what one opener has seen stays true while others
work. In the middle of a migration the transaction's view may have the column
and not its values; `Working` says at which statements.

Telemetry's migrations take no lock when they begin, so the view of a
transaction may be out of date. `View` in `TelemetryStoreProofs` says that it is
not for whoever may still write: it has all that is recorded in the file if no
commit came after its read, and keeps it while it holds the lock. `OthersKeep`
and `OthersLate` say what a step of one opener means for the others: nothing, or
that they can no longer write.

### The handle cache and the server

For all calls, projects, handles and cache limits. Assumptions:
`CacheMaxAssumption`, `CallsAssumption` (finitely many goroutines, so that counts
are cardinalities), `NoValuesAssumption`, and in `Runtime` that the closing
goroutine and the default database are no handler's. The invariant of the cache
adds to the three properties that a leased key is cached under the leased
handle, that no two keys share one, and that the LRU list is the cached keys.
`NewHandle` is only known to be some handle nobody refers to.

The limit is an invariant of its own, `LimitInv`: the recency list is a total
order of a finite set of keys. An eviction removes the idle keys that have fewer
idle keys behind them than there are keys too many. If an idle key is kept, the
last one kept has at least that many behind it, and all of them go
(`EvictionSuffices`).

`ImplementsCache` maps each action of the process to a cache action or to a
stutter (`RuntimeCacheStep`), so the cache's invariants are invariants of the
process without another proof. On top of it `RuntimeInv` says where each
goroutine may be while it holds a lease, the mutex or handles to close, and what
`Close` has dropped by which step; `Quiet` and `Dropped` carry
`ShutdownClosesAll`, `Silent` carries `ClosedClientIsSilent`, and `Locks` says that a
call holds a connection exactly while it is inside a statement and the mutex
exactly while it inserts, also when a shutdown has taken its handle from the
cache.

### The registry

For any servers, commands, paths and ids, on any root that is at rest
(`RootsAssumption`: entries are unique, registered stores are whole, initialized
ones are there or archived, and no id is in use that was not generated); a
process may end at any step. Nothing but the file system ties the processes
together, so `IInv` says who may still touch which id: an id is registered, and
then its store is there for good, or it belongs to the one import that generated
it (`OwnIds`). `ServerOK` and `CommandOK` say it at each step of a server and of a
command. A step of one process is shown to spare the others by what it does to
the root (`RootStep`, `Spared`, `Stable`): only the holder of the registry's lock
takes an entry from a path, and only an import writes a store nobody knows.
The action properties follow from `FileStep`, the list of what one step can do to
the files of one id. For `LostStores` the invariant has `Found`: a server that read
an initialized record and is past its look at the file still has the file there,
unless the directory was moved since. So whoever makes a file (`Opener`) makes it
where one is already, or is one of the exceptions.

### Backup

### Backup

For all runs and numbers of transactions. `Made` says what a run has made by the
time it is at a step, `Good` what may be at the destination, and `Place` how a
run's step relates to the order of renames. `AcknowledgedSurvives` needs the
last of them: between a run's rename and its sync of the directory the
destination is that of the last run that renamed, unless the power was lost,
which ends every run; from a sync that worked on, `dest` and `safe` hold that run's
backup or a later one (`Holds`), whatever the syncs of other runs come to.

`OnlyOverlapsGoBack` looks at the destination at a run's rename and speaks of its
beginning, many steps of others before. `Fresh` connects them: of the two files
that may be at the destination, one that was there or published before the run
began is no newer than what the run has read or copied, at every step in between
and also when a loss of power brings the older of the two back.


### Only model-checked

The two liveness properties, `OpensSucceed` and `ShutdownEnds`: fairness is out of
the prover's reach, and so is ENABLED. So are induction over data and RECURSIVE
operators; no module here declares one. The four properties of the runs that
expect a violation are false, and stay with TLC.

## 5. What is left out

- Scores, decay, FTS ranks, grouping, truncation, clustering: computed from what
  was read, they change nothing. Conflict hints of `remember` are reads inside
  its own transaction.
- Case folding of names, spelling of paths, trimming: a name or a path is what
  the code compares after it.
- In `MemoryServer`, relations' context, sources, confidences and timestamps
  other than `created_at`; the argument checks before any statement.
- Legacy databases in project directories beside a central store, the read-only
  lookups, Windows file locking (renames are POSIX).
- The canary and the read-only openers of `sqlite.go`.
- Rows older than migration 4, whose index entries cannot be dropped exactly.
- Telemetry's switch to WAL; in `Backup`, a removal of one's own file that fails,
  which `backup.go` ignores.
- Loss of power, except in `Backup`: a committed transaction and a finished
  rename stay.
- Not modelled at all: the embedding client (HTTP and vector arithmetic, seen by
  the report as a call that answers or fails), report rendering, dotenv parsing,
  sanitizing, and the command line's flags. They keep no state.

## 6. Plan

Models next: legacy stores and the read-only lookup in `ProjectRegistry`;
conflict hints in `Recall`; the busy timeout of the registry's statements as a
step of its own.

Theorems next: the refinement of `MemoryGraph` carried over to `RecallSpec` and
to the report (which is not a `Spec` behaviour, as it writes vectors); what the
listings of one call say of those of the next; the safety half of the two
liveness properties, that an opener which is not killed has a statement it can
run, and that a closing goroutine waits only for calls that can go on.

## 7. Running

    tlc -workers 2 -config MCMemoryServer_tools.cfg MCMemoryServer
    tlapm MemoryServerProofs.tla

Each run's module and configuration are in `PROJECT.json`. `backup`
has some 1,800,000 states and `registry` 760,000; `backup`, `runtime` and `recall`
take about two minutes, the others a minute or so. The operators that a comment
calls a mutant are deliberate errors: replacing the definition that follows by
one of them must make TLC report the property named
in `PROJECT.json`, which shows that the property can fail.
