------------------------- MODULE SchemaMigration -------------------------
(***************************************************************************)
(* Opening a memory database (openSQLite and InitSchema in                  *)
(* internal/store/sqlite.go): the switch to WAL, the baseline statements,   *)
(* the versioned migrations, the statements that need the migrated columns. *)
(* Several server processes open one file at once; each of them may find a  *)
(* database of any earlier release and may be killed between any two        *)
(* statements.                                                              *)
(*                                                                          *)
(* A column is <<table, name>>; only the columns that a migration or an     *)
(* index mentions are kept.  A statement outside a transaction is one step. *)
(***************************************************************************)
EXTENDS Integers, Sequences, FiniteSets

CONSTANTS
    Openers,    \* processes that open the database
    NoOne,      \* nobody holds the write lock
    Releases,   \* earlier releases the file may come from: the number of
                \* migrations each of them knew
    MaxKills    \* bound: opens cut short by a kill or a busy timeout

ASSUME NoOneAssumption  == NoOne \notin Openers
ASSUME KillsAssumption  == MaxKills \in Nat
ASSUME ReleasesAssumption == Releases \subseteq 0 .. 16

---------------------------------------------------------------------------
(* The statements of InitSchema, in order.                                 *)

Cols(t, C) == {<<t, c>> : c \in C}

Table(t, C)    == [table |-> TRUE,  name |-> t, cols |-> Cols(t, C)]
Index(i, t, C) == [table |-> FALSE, name |-> i, cols |-> Cols(t, C)]

Runs       == Table("reconcile_runs", {"id"})
Embeddings == Table("observation_embeddings", {"observation_id", "provider"})

Baseline == <<
    Table("schema_migrations", {"version"}),
    Table("entities", {"name", "entity_type", "deleted_at", "created_at",
                       "updated_at"}),
    Runs,
    Table("observations", {"entity_id", "content", "access_count",
        "last_accessed", "event_id", "entity_type", "deleted_at",
        "superseded_by", "superseded_at", "superseded_reason",
        "superseded_by_run"}),
    Table("relations", {"from_entity_id", "to_entity_id"}),
    Table("events", {"label", "event_date", "event_type"}),
    Table("reconcile_decisions", {"id", "run_id", "kind", "entity_id",
                                  "content_snapshot"}),
    Embeddings,
    Index("idx_obs_entity", "observations", {"entity_id"}),
    Index("idx_obs_content", "observations", {"content"}),
    Index("idx_rel_from", "relations", {"from_entity_id"}),
    Index("idx_rel_to", "relations", {"to_entity_id"}),
    Index("idx_entities_type", "entities", {"entity_type"}),
    Index("idx_entities_name", "entities", {"name"}),
    Index("idx_events_date", "events", {"event_date"}),
    Index("idx_events_type", "events", {"event_type"}),
    Index("idx_events_label", "events", {"label"}),
    Table("memory_fts", {"observation_content"}) >>

\* ALTER TABLE t ADD COLUMN c, and the column a PostSQL backfills.
Alter(t, c)    == [column |-> <<t, c>>, adds |-> {<<t, c>>}, fills |-> {}]
AlterFill(t, c) == [Alter(t, c) EXCEPT !.fills = {<<t, c>>}]
\* CREATE TABLE, recognised by one of its columns.
Create(t, c, C) == [column |-> <<t, c>>, adds |-> Cols(t, C), fills |-> {}]

\* reconcile_decisions was born without its content_snapshot.
Migrations == <<
    Alter("observations", "event_id"),
    Alter("entities", "deleted_at"),
    Alter("observations", "deleted_at"),
    Alter("observations", "entity_type"),
    Alter("observations", "access_count"),
    Alter("observations", "last_accessed"),
    AlterFill("entities", "created_at"),
    AlterFill("entities", "updated_at"),
    Create("reconcile_runs", "id", {"id"}),
    Alter("observations", "superseded_by"),
    Alter("observations", "superseded_at"),
    Alter("observations", "superseded_reason"),
    Alter("observations", "superseded_by_run"),
    Create("reconcile_decisions", "id", {"id", "run_id", "kind", "entity_id",
                                         "content_snapshot"}),
    Alter("reconcile_decisions", "content_snapshot"),
    Create("observation_embeddings", "observation_id",
           {"observation_id", "provider"}) >>

PostMigration == <<
    Index("idx_obs_event", "observations", {"event_id"}),
    Index("idx_obs_active_entity_content", "observations",
          {"entity_id", "content", "deleted_at", "superseded_by"}),
    Index("idx_obs_active_event", "observations",
          {"event_id", "deleted_at", "superseded_by"}),
    Index("idx_obs_superseded", "observations", {"superseded_by"}),
    Index("idx_obs_superseded_run", "observations", {"superseded_by_run"}),
    Index("idx_reconcile_decisions_run", "reconcile_decisions", {"run_id"}),
    Index("idx_reconcile_decisions_kind", "reconcile_decisions", {"kind"}),
    Index("idx_reconcile_decisions_entity", "reconcile_decisions",
          {"entity_id"}),
    Index("idx_observation_embeddings_model", "observation_embeddings",
          {"provider"}),
    Index("idx_entities_deleted", "entities", {"deleted_at"}),
    Index("idx_obs_deleted", "observations", {"deleted_at"}),
    Index("trg_entities_insert_timestamps", "entities",
          {"created_at", "updated_at"}) >>

Versions == 1 .. Len(Migrations)

---------------------------------------------------------------------------
(* A schema: the columns of its tables, its indexes and trigger, the        *)
(* versions schema_migrations records, the timestamp columns some entity    *)
(* holds NULL in, and whether the file is in WAL mode.                      *)

Statements == {Baseline[i] : i \in DOMAIN Baseline}
                \cup {PostMigration[i] : i \in DOMAIN PostMigration}

Columns == UNION ({s.cols : s \in Statements}
                  \cup {Migrations[v].adds : v \in Versions})

Schema == [cols    : SUBSET Columns,
           made    : SUBSET {s.name : s \in Statements},
           applied : SUBSET Versions,
           nulls   : SUBSET Columns,
           wal     : BOOLEAN]

NewFile == [cols |-> {}, made |-> {}, applied |-> {}, nulls |-> {},
            wal |-> FALSE]

HasTable(d, t) == \E c \in d.cols : c[1] = t

\* The tables of the first release without the columns that migrations add.
FirstRelease ==
    (UNION {Baseline[i].cols : i \in {2, 4, 5, 6}})
        \ {Migrations[v].column : v \in Versions}

\* A file some release left that knew the first k migrations.  The version
\* registry came with the eighth; content_snapshot with the fifteenth.
Left(k, registry) ==
    LET later == IF k < 15 THEN {Migrations[15].column} ELSE {}
        cols  == (UNION {Migrations[v].adds : v \in 1 .. k}) \ later
    IN  [NewFile EXCEPT
            !.cols = FirstRelease \cup cols \cup
                        (IF registry THEN Baseline[1].cols ELSE {}),
            !.applied = IF registry THEN 1 .. k ELSE {},
            !.wal = registry]

Files == {NewFile} \cup {Left(k, FALSE) : k \in {i \in Releases : i <= 8}}
                   \cup {Left(k, TRUE)  : k \in {i \in Releases : i >= 8}}

---------------------------------------------------------------------------
(* One statement on a schema.                                              *)

\* IF NOT EXISTS finds the object: the statement does nothing.
Exists(d, s) == IF s.table THEN \E c \in s.cols : HasTable(d, c[1])
                           ELSE s.name \in d.made

\* An index or a trigger on a column that is missing is an error.
Valid(d, s) == Exists(d, s) \/ s.table \/ s.cols \subseteq d.cols

Make(d, s) == IF Exists(d, s) THEN d
              ELSE IF s.table THEN [d EXCEPT !.cols = @ \cup s.cols]
                              ELSE [d EXCEPT !.made = @ \cup {s.name}]

\* Mutant: the table is looked for instead of the column.
PresentTable(d, v) == HasTable(d, Migrations[v].column[1])

\* columnExists
Present(d, v) == Migrations[v].column \in d.cols

\* migration.SQL: every entity row holds NULL in a column just added.
AddColumns(d, v) == [d EXCEPT !.cols = @ \cup Migrations[v].adds,
                              !.nulls = @ \cup Migrations[v].fills]

\* Mutant: the new column is left NULL.
BackfillNothing(d, v) == d

\* migration.PostSQL
Backfill(d, v) == [d EXCEPT !.nulls = @ \ Migrations[v].fills]

Record(d, v) == [d EXCEPT !.applied = @ \cup {v}]

---------------------------------------------------------------------------

VARIABLES
    file,   \* the committed schema
    lock,   \* the process that holds the write lock
    work,   \* the schema its transaction sees
    pc,     \* where each process is in the open
    kills   \* opens cut short so far

vars == <<file, lock, work, pc, kills>>

\* In the order of InitSchema; alter, fill and record are the statements of
\* the transaction of migration step.
Phases == {"down", "wal", "baseline", "check", "begin", "alter", "fill",
           "record", "post", "serving", "failed"}

TxPhases == {"alter", "fill", "record"}

At(o, phase) == pc[o].phase = phase

Goto(o, phase, step) == pc' = [pc EXCEPT ![o] = [phase |-> phase, step |-> step]]

Free == lock = NoOne

EndTx == lock' = NoOne /\ work' = NewFile

Committed(d) == file' = d /\ UNCHANGED <<lock, work>>

\* The statement after number i of a list, or the first of the next phase.
Advance(o, phase, i, list, next) ==
    IF i < Len(list) THEN Goto(o, phase, i + 1) ELSE Goto(o, next, 1)

Start(o) ==
    /\ At(o, "down")
    /\ Goto(o, "wal", 1)
    /\ UNCHANGED <<file, lock, work, kills>>

\* enableWALMode: the exclusive lock is retried for; the mode is persistent.
EnableWAL(o) ==
    /\ At(o, "wal")
    /\ file.wal \/ Free
    /\ Committed([file EXCEPT !.wal = TRUE])
    /\ Goto(o, "baseline", 1)
    /\ UNCHANGED kills

\* A baseline or post-migration statement, each its own transaction, which
\* needs the write lock only when it makes something.
Execute(o, phase, list, next) ==
    LET i == pc[o].step
    IN  /\ At(o, phase)
        /\ Exists(file, list[i]) \/ Free
        /\ IF Valid(file, list[i])
           THEN /\ Committed(Make(file, list[i]))
                /\ Advance(o, phase, i, list, next)
           ELSE /\ UNCHANGED <<file, lock, work>>
                /\ Goto(o, "failed", 1)
        /\ UNCHANGED kills

\* migrationApplied outside a transaction.
Check(o) ==
    LET v == pc[o].step
    IN  /\ At(o, "check")
        /\ IF v \in file.applied THEN Advance(o, "check", v, Migrations, "post")
                                 ELSE Goto(o, "begin", v)
        /\ UNCHANGED <<file, lock, work, kills>>

\* BEGIN IMMEDIATE.
Begin(o) ==
    /\ At(o, "begin")
    /\ Free
    /\ lock' = o
    /\ work' = file
    /\ Goto(o, "alter", pc[o].step)
    /\ UNCHANGED <<file, kills>>

\* Mutant: no re-check, so the version is inserted twice, which the primary
\* key of schema_migrations refuses.
SkipAppliedUnchecked(o) ==
    /\ At(o, "alter")
    /\ pc[o].step \in work.applied
    /\ EndTx
    /\ Goto(o, "failed", 1)
    /\ UNCHANGED <<file, kills>>

\* The re-check under the lock: another process may have applied it.
SkipApplied(o) ==
    LET v == pc[o].step
    IN  /\ At(o, "alter")
        /\ v \in work.applied
        /\ EndTx
        /\ Advance(o, "check", v, Migrations, "post")
        /\ UNCHANGED <<file, kills>>

\* columnExists, and the SQL of the migration when it finds nothing.
AlterTable(o) ==
    LET v == pc[o].step
    IN  /\ At(o, "alter")
        /\ v \notin work.applied
        /\ work' = IF Present(work, v) THEN work ELSE AddColumns(work, v)
        /\ Goto(o, IF Present(work, v) THEN "record" ELSE "fill", v)
        /\ UNCHANGED <<file, lock, kills>>

PostSQL(o) ==
    LET v == pc[o].step
    IN  /\ At(o, "fill")
        /\ work' = Backfill(work, v)
        /\ Goto(o, "record", v)
        /\ UNCHANGED <<file, lock, kills>>

RecordAndCommit(o) ==
    LET v == pc[o].step
    IN  /\ At(o, "record")
        /\ file' = Record(work, v)
        /\ EndTx
        /\ Advance(o, "check", v, Migrations, "post")
        /\ UNCHANGED kills

\* A kill at any step, or a lock that stayed taken for the busy timeout: the
\* open transaction rolls back and its lock goes.  The next open starts over.
Stop(o) ==
    /\ ~At(o, "down") /\ ~At(o, "failed")
    /\ kills < MaxKills
    /\ kills' = kills + 1
    /\ IF lock = o THEN EndTx ELSE UNCHANGED <<lock, work>>
    /\ Goto(o, "down", 1)
    /\ UNCHANGED file

\* The handle is closed by its cache or at exit; the file may be opened again.
Close(o) ==
    /\ At(o, "serving")
    /\ Goto(o, "down", 1)
    /\ UNCHANGED <<file, lock, work, kills>>

---------------------------------------------------------------------------

Init == /\ file \in Files
        /\ lock = NoOne
        /\ work = NewFile
        /\ pc = [o \in Openers |-> [phase |-> "down", step |-> 1]]
        /\ kills = 0

Step(o) == \/ EnableWAL(o)
           \/ Execute(o, "baseline", Baseline, "check")
           \/ Check(o)
           \/ Begin(o)
           \/ SkipApplied(o)
           \/ AlterTable(o)
           \/ PostSQL(o)
           \/ RecordAndCommit(o)
           \/ Execute(o, "post", PostMigration, "serving")

Next == \E o \in Openers : Start(o) \/ Step(o) \/ Stop(o) \/ Close(o)

\* An opener that is not killed goes on to its next statement.  A version is
\* recorded once, so the others hold the lock a bounded number of times and
\* weak fairness is enough.
Spec == /\ Init
        /\ [][Next]_vars
        /\ \A o \in Openers : WF_vars(Step(o))

---------------------------------------------------------------------------
(* Properties.                                                             *)

\* The variables have their types, and the write lock belongs to exactly the
\* process that is inside a migration's transaction (applySchemaMigration's
\* commit on every path).
TypeOK == /\ file \in Schema
          /\ work \in Schema
          /\ kills \in 0 .. MaxKills
          /\ pc \in [Openers -> [phase : Phases, step : Nat]]
          /\ \A o \in Openers : lock = o <=> pc[o].phase \in TxPhases
          /\ lock \in Openers \cup {NoOne}

\* A version that schema_migrations records has its column, whatever release
\* left the file, whoever else migrated it and whoever was killed: a later
\* open, which believes the record, never skips a migration that is missing.
RecordedIsPresent == \A v \in file.applied : Migrations[v].column \in file.cols

\* A process that serves found every table, column, index and trigger that
\* the handlers and the reports use, and no entity row without a timestamp.
ServingIsComplete ==
    \A o \in Openers : At(o, "serving") =>
        /\ file.applied = Versions
        /\ file.nulls = {}
        /\ \A s \in Statements : s.cols \subseteq file.cols /\ Exists(file, s)

\* Every open that is not cut short ends in a process that serves: no
\* statement fails on any release's file in any interleaving (no duplicate
\* column, no index before its column) and no opener waits for ever for the
\* write lock.
OpensSucceed == \A o \in Openers : At(o, "wal") ~> At(o, "serving") \/ At(o, "down")

===========================================================================
