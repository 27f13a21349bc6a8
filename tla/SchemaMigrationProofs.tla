---------------------- MODULE SchemaMigrationProofs ----------------------
(***************************************************************************)
(* Theorems about SchemaMigration for any number of openers, any releases   *)
(* the file may come from and any number of kills.                          *)
(***************************************************************************)
EXTENDS SchemaMigration, TLAPS

---------------------------------------------------------------------------
(* The lists of statements.                                                *)

LEMMA ListLengths ==
    /\ Len(Migrations) = 16 /\ Versions = 1 .. 16
    /\ Len(Baseline) = 18 /\ DOMAIN Baseline = 1 .. 18
    /\ Len(PostMigration) = 12 /\ DOMAIN PostMigration = 1 .. 12
  <1>1. Len(Migrations) = 16
    BY DEF Migrations
  <1>2. Len(Baseline) = 18 /\ DOMAIN Baseline = 1 .. 18
    BY DEF Baseline
  <1>3. Len(PostMigration) = 12 /\ DOMAIN PostMigration = 1 .. 12
    BY DEF PostMigration
  <1>. QED  BY <1>1, <1>2, <1>3 DEF Versions

LEMMA MigrationList ==
    /\ Migrations[1]  = Alter("observations", "event_id")
    /\ Migrations[2]  = Alter("entities", "deleted_at")
    /\ Migrations[3]  = Alter("observations", "deleted_at")
    /\ Migrations[4]  = Alter("observations", "entity_type")
    /\ Migrations[5]  = Alter("observations", "access_count")
    /\ Migrations[6]  = Alter("observations", "last_accessed")
    /\ Migrations[7]  = AlterFill("entities", "created_at")
    /\ Migrations[8]  = AlterFill("entities", "updated_at")
    /\ Migrations[9]  = Create("reconcile_runs", "id", {"id"})
    /\ Migrations[10] = Alter("observations", "superseded_by")
    /\ Migrations[11] = Alter("observations", "superseded_at")
    /\ Migrations[12] = Alter("observations", "superseded_reason")
    /\ Migrations[13] = Alter("observations", "superseded_by_run")
    /\ Migrations[14] = Create("reconcile_decisions", "id",
           {"id", "run_id", "kind", "entity_id", "content_snapshot"})
    /\ Migrations[15] = Alter("reconcile_decisions", "content_snapshot")
    /\ Migrations[16] = Create("observation_embeddings", "observation_id",
           {"observation_id", "provider"})
  BY DEF Migrations

\* A migration adds the column it is recognised by, and backfills only what
\* it adds.
AddsItsColumn(m) == m.column \in m.adds /\ m.fills \subseteq m.adds

LEMMA Constructors ==
    /\ \A t, c : AddsItsColumn(Alter(t, c)) /\ Alter(t, c).column = <<t, c>>
    /\ \A t, c : /\ AddsItsColumn(AlterFill(t, c))
                 /\ AlterFill(t, c).column = <<t, c>>
    /\ \A t, c : \A C : c \in C => /\ AddsItsColumn(Create(t, c, C))
                                  /\ Create(t, c, C).column = <<t, c>>
  <1>1. \A t, c : AddsItsColumn(Alter(t, c)) /\ Alter(t, c).column = <<t, c>>
    BY DEF Alter, AddsItsColumn
  <1>2. \A t, c : /\ AddsItsColumn(AlterFill(t, c))
                 /\ AlterFill(t, c).column = <<t, c>>
    BY DEF AlterFill, Alter, AddsItsColumn
  <1>3. \A t, c : \A C : c \in C => /\ AddsItsColumn(Create(t, c, C))
                                  /\ Create(t, c, C).column = <<t, c>>
    BY DEF Create, Cols, AddsItsColumn
  <1>. QED  BY <1>1, <1>2, <1>3

\* Only the fifteenth migration adds content_snapshot to a table that exists.
LEMMA MigrationColumns ==
    ASSUME NEW v \in 1 .. 16
    PROVE  /\ AddsItsColumn(Migrations[v])
           /\ Migrations[v].adds \subseteq Columns
           /\ v # 15 => Migrations[v].column # Migrations[15].column
  <1>1. AddsItsColumn(Migrations[v])
    BY MigrationList, Constructors
  <1>2. v # 15 => Migrations[v].column # Migrations[15].column
    BY MigrationList, Constructors
  <1>3. Migrations[v].adds \subseteq Columns
    BY ListLengths DEF Columns
  <1>. QED  BY <1>1, <1>2, <1>3

LEMMA StatementColumns ==
    ASSUME NEW s \in Statements
    PROVE  s.cols \subseteq Columns
  BY DEF Columns

---------------------------------------------------------------------------
(* One statement on a schema.                                              *)

\* Every recorded version has its column.
Recorded(d) == \A v \in d.applied : Migrations[v].column \in d.cols

Sound(d) == d \in Schema /\ Recorded(d)

LEMMA MakeKeeps ==
    ASSUME NEW d, Sound(d), NEW s \in Statements
    PROVE  Sound(Make(d, s))
  <1>1. s.cols \subseteq Columns
    BY StatementColumns
  <1>2. s.name \in {q.name : q \in Statements}
    OBVIOUS
  <1>. QED  BY <1>1, <1>2 DEF Sound, Recorded, Schema, Make

LEMMA AddColumnsKeeps ==
    ASSUME NEW d, Sound(d), NEW v \in 1 .. 16
    PROVE  /\ Sound(AddColumns(d, v))
           /\ Migrations[v].column \in AddColumns(d, v).cols
  <1>1. Migrations[v].adds \subseteq Columns /\ Migrations[v].fills \subseteq Columns
    BY MigrationColumns DEF AddsItsColumn
  <1>2. Migrations[v].column \in Migrations[v].adds
    BY MigrationColumns DEF AddsItsColumn
  <1>. QED  BY <1>1, <1>2 DEF Sound, Recorded, Schema, AddColumns

LEMMA BackfillKeeps ==
    ASSUME NEW d, Sound(d), NEW v
    PROVE  Sound(Backfill(d, v)) /\ Backfill(d, v).cols = d.cols
  BY DEF Sound, Recorded, Schema, Backfill

LEMMA RecordKeeps ==
    ASSUME NEW d, Sound(d), NEW v \in 1 .. 16, Migrations[v].column \in d.cols
    PROVE  Sound(Record(d, v))
  BY ListLengths DEF Sound, Recorded, Schema, Record

LEMMA NewFileSound == Sound(NewFile)
  BY DEF Sound, Recorded, Schema, NewFile

\* Whatever release left the file.
LEMMA LeftSound ==
    ASSUME NEW k \in 0 .. 16, NEW registry \in BOOLEAN
    PROVE  Sound(Left(k, registry))
  <1>. DEFINE later == IF k < 15 THEN {Migrations[15].column} ELSE {}
              cols  == (UNION {Migrations[v].adds : v \in 1 .. k}) \ later
              all   == FirstRelease \cup cols \cup
                          (IF registry THEN Baseline[1].cols ELSE {})
              known == IF registry THEN 1 .. k ELSE {}
  <1>1. Left(k, registry) = [NewFile EXCEPT !.cols = all, !.applied = known,
                                            !.wal = registry]
    BY DEF Left
  <1>2. FirstRelease \subseteq Columns
    <2>1. \A i \in {2, 4, 5, 6} : Baseline[i] \in Statements
      BY ListLengths DEF Statements
    <2>. QED  BY <2>1, StatementColumns DEF FirstRelease
  <1>3. cols \subseteq Columns
    BY MigrationColumns
  <1>4. Baseline[1].cols \subseteq Columns
    <2>1. Baseline[1] \in Statements
      BY ListLengths DEF Statements
    <2>. QED  BY <2>1, StatementColumns
  <1>5. all \subseteq Columns
    BY <1>2, <1>3, <1>4
  <1>6. known \subseteq Versions
    BY ListLengths
  <1>7. ASSUME NEW v \in known
        PROVE  Migrations[v].column \in all
    <2>1. v \in 1 .. k /\ v \in 1 .. 16
      BY <1>7
    <2>2. Migrations[v].column \in UNION {Migrations[w].adds : w \in 1 .. k}
      BY <2>1, MigrationColumns DEF AddsItsColumn
    <2>3. Migrations[v].column \notin later
      BY <2>1, MigrationColumns
    <2>. QED  BY <2>2, <2>3
  <1>. HIDE DEF all, known
  <1>8. Left(k, registry) \in Schema
    BY <1>1, <1>5, <1>6 DEF Schema, NewFile
  <1>9. Left(k, registry).cols = all /\ Left(k, registry).applied = known
    BY <1>1 DEF NewFile
  <1>10. Recorded(Left(k, registry))
    BY <1>7, <1>9 DEF Recorded
  <1>. QED  BY <1>8, <1>10 DEF Sound

LEMMA FilesSound ==
    ASSUME NEW d \in Files
    PROVE  Sound(d)
  BY NewFileSound, LeftSound, ReleasesAssumption DEF Files

---------------------------------------------------------------------------
(* The specification.                                                      *)

\* The statements of a phase that there are.
Steps(phase) == CASE phase = "baseline" -> 1 .. 18
                  [] phase = "post"     -> 1 .. 12
                  [] phase \in {"check", "begin", "alter", "fill", "record"}
                                        -> 1 .. 16
                  [] OTHER              -> Nat

Place == [phase : Phases, step : Nat]

\* What every step keeps: both schemas are sound, a process is at a statement
\* that exists, the lock is held by who is in a transaction, and who is past
\* the ALTER has the column in its view.
IInv == /\ Sound(file) /\ Sound(work)
        /\ kills \in 0 .. MaxKills
        /\ pc \in [Openers -> Place]
        /\ \A o \in Openers : pc[o].step \in Steps(pc[o].phase)
        /\ lock \in Openers \cup {NoOne}
        /\ \A o \in Openers : lock = o <=> pc[o].phase \in TxPhases
        /\ \A o \in Openers :
              pc[o].phase \in {"fill", "record"} =>
                 Migrations[pc[o].step].column \in work.cols

LEMMA InvStart == Init => IInv
  <1>. SUFFICES ASSUME Init PROVE IInv
    OBVIOUS
  <1>1. Sound(file) /\ Sound(work)
    BY FilesSound, NewFileSound DEF Init
  <1>2. \A o \in Openers : pc[o] = [phase |-> "down", step |-> 1]
    BY DEF Init
  <1>3. kills \in 0 .. MaxKills
    BY KillsAssumption DEF Init
  <1>4. pc \in [Openers -> Place]
    BY DEF Init, Place, Phases
  <1>5. \A o \in Openers : pc[o].step \in Steps(pc[o].phase)
    BY <1>2 DEF Steps
  <1>6. /\ lock \in Openers \cup {NoOne}
        /\ \A o \in Openers : lock = o <=> pc[o].phase \in TxPhases
    BY <1>2, NoOneAssumption DEF Init, TxPhases
  <1>7. \A o \in Openers : pc[o].phase \notin {"fill", "record"}
    BY <1>2
  <1>. QED  BY <1>1, <1>3, <1>4, <1>5, <1>6, <1>7 DEF IInv

\* Where a process may go without the lock, and what the others keep.
LEMMA GoOutside ==
    ASSUME IInv, NEW o \in Openers, NEW phase \in Phases \ TxPhases,
           NEW step \in Nat, step \in Steps(phase),
           Goto(o, phase, step),
           pc[o].phase \in TxPhases => lock' = NoOne,
           pc[o].phase \notin TxPhases => lock' = lock /\ work' = work
    PROVE  /\ pc' \in [Openers -> Place]
           /\ \A q \in Openers : pc'[q].step \in Steps(pc'[q].phase)
           /\ lock' \in Openers \cup {NoOne}
           /\ \A q \in Openers : lock' = q <=> pc'[q].phase \in TxPhases
           /\ \A q \in Openers :
                 pc'[q].phase \in {"fill", "record"} =>
                    Migrations[pc'[q].step].column \in work'.cols
  <1>1. pc' = [pc EXCEPT ![o] = [phase |-> phase, step |-> step]]
    BY DEF Goto
  <1>2. [phase |-> phase, step |-> step] \in Place
    BY DEF Place
  <1>3. pc' \in [Openers -> Place]
    BY <1>1, <1>2 DEF IInv
  <1>4. /\ pc'[o].phase = phase /\ pc'[o].step = step
        /\ \A q \in Openers \ {o} : pc'[q] = pc[q]
    BY <1>1 DEF IInv
  <1>5. \A q \in Openers : pc'[q].step \in Steps(pc'[q].phase)
    BY <1>4 DEF IInv
  <1>6. CASE pc[o].phase \in TxPhases
    <2>1. lock = o /\ lock' = NoOne
      BY <1>6 DEF IInv
    <2>2. \A q \in Openers : pc'[q].phase \notin TxPhases
      BY <1>4, <2>1 DEF IInv
    <2>. QED  BY <1>3, <1>5, <2>1, <2>2, NoOneAssumption DEF TxPhases
  <1>7. CASE pc[o].phase \notin TxPhases
    <2>1. lock # o /\ lock' = lock /\ work' = work
      BY <1>7 DEF IInv
    <2>2. \A q \in Openers : lock' = q <=> pc'[q].phase \in TxPhases
      BY <1>4, <2>1 DEF IInv
    <2>3. \A q \in Openers :
             pc'[q].phase \in {"fill", "record"} =>
                Migrations[pc'[q].step].column \in work'.cols
      BY <1>4, <2>1 DEF IInv, TxPhases
    <2>. QED  BY <1>3, <1>5, <2>1, <2>2, <2>3 DEF IInv
  <1>. QED  BY <1>6, <1>7

\* Where the process that holds the lock may go inside its transaction.
LEMMA GoInside ==
    ASSUME IInv, NEW o \in Openers, NEW phase \in TxPhases,
           NEW step \in 1 .. 16, Goto(o, phase, step),
           lock' = o, lock \in {o, NoOne},
           phase = "alter" \/ Migrations[step].column \in work'.cols
    PROVE  /\ pc' \in [Openers -> Place]
           /\ \A q \in Openers : pc'[q].step \in Steps(pc'[q].phase)
           /\ lock' \in Openers \cup {NoOne}
           /\ \A q \in Openers : lock' = q <=> pc'[q].phase \in TxPhases
           /\ \A q \in Openers :
                 pc'[q].phase \in {"fill", "record"} =>
                    Migrations[pc'[q].step].column \in work'.cols
  <1>1. pc' = [pc EXCEPT ![o] = [phase |-> phase, step |-> step]]
    BY DEF Goto
  <1>2. [phase |-> phase, step |-> step] \in Place
    BY DEF Place, Phases, TxPhases
  <1>3. pc' \in [Openers -> Place]
    BY <1>1, <1>2 DEF IInv
  <1>4. /\ pc'[o].phase = phase /\ pc'[o].step = step
        /\ \A q \in Openers \ {o} : pc'[q] = pc[q]
    BY <1>1 DEF IInv
  <1>5. Steps(phase) = 1 .. 16
    BY DEF Steps, TxPhases
  <1>6. \A q \in Openers : pc'[q].step \in Steps(pc'[q].phase)
    BY <1>4, <1>5 DEF IInv
  <1>7. \A q \in Openers \ {o} : pc'[q].phase \notin TxPhases
    BY <1>4, NoOneAssumption DEF IInv
  <1>8. \A q \in Openers : lock' = q <=> pc'[q].phase \in TxPhases
    BY <1>4, <1>7
  <1>9. \A q \in Openers :
           pc'[q].phase \in {"fill", "record"} =>
              Migrations[pc'[q].step].column \in work'.cols
    BY <1>4, <1>7 DEF TxPhases
  <1>. QED  BY <1>3, <1>6, <1>8, <1>9

\* After a statement comes the next of its list or the next phase.
LEMMA AdvanceGoes ==
    ASSUME NEW o,
           \/ \E v \in 1 .. 16 : Advance(o, "check", v, Migrations, "post")
           \/ \E i \in 1 .. 18 : Advance(o, "baseline", i, Baseline, "check")
           \/ \E i \in 1 .. 12 : Advance(o, "post", i, PostMigration, "serving")
    PROVE  \E phase \in {"baseline", "check", "post", "serving"}, step \in Nat :
              step \in Steps(phase) /\ Goto(o, phase, step)
  <1>1. CASE \E v \in 1 .. 16 : Advance(o, "check", v, Migrations, "post")
    BY <1>1, ListLengths DEF Advance, Steps
  <1>2. CASE \E i \in 1 .. 18 : Advance(o, "baseline", i, Baseline, "check")
    BY <1>2, ListLengths DEF Advance, Steps
  <1>3. CASE \E i \in 1 .. 12 : Advance(o, "post", i, PostMigration, "serving")
    BY <1>3, ListLengths DEF Advance, Steps
  <1>. QED  BY <1>1, <1>2, <1>3

\* A baseline or post-migration statement.
LEMMA ExecuteKeeps ==
    ASSUME IInv, NEW o \in Openers,
           \/ Execute(o, "baseline", Baseline, "check")
           \/ Execute(o, "post", PostMigration, "serving")
    PROVE  IInv'
  <1>1. PICK phase \in Phases \ TxPhases, step \in Nat :
           step \in Steps(phase) /\ Goto(o, phase, step)
    <2>1. CASE Goto(o, "failed", 1)
      BY <2>1 DEF Steps, Phases, TxPhases
    <2>2. CASE Execute(o, "baseline", Baseline, "check") /\ ~Goto(o, "failed", 1)
      <3>1. pc[o].step \in 1 .. 18
        BY <2>2 DEF IInv, Execute, At, Steps
      <3>2. Advance(o, "baseline", pc[o].step, Baseline, "check")
        BY <2>2 DEF Execute
      <3>. QED  BY <3>1, <3>2, AdvanceGoes DEF Phases, TxPhases
    <2>3. CASE Execute(o, "post", PostMigration, "serving") /\ ~Goto(o, "failed", 1)
      <3>1. pc[o].step \in 1 .. 12
        BY <2>3 DEF IInv, Execute, At, Steps
      <3>2. Advance(o, "post", pc[o].step, PostMigration, "serving")
        BY <2>3 DEF Execute
      <3>. QED  BY <3>1, <3>2, AdvanceGoes DEF Phases, TxPhases
    <2>. QED  BY <2>1, <2>2, <2>3
  <1>2. pc[o].phase \notin TxPhases
    BY DEF Execute, At, TxPhases
  <1>3. lock' = lock /\ work' = work /\ kills' = kills
    BY DEF Execute, Committed
  <1>4. \/ file' = file
        \/ \E s \in Statements : file' = Make(file, s)
    <2>1. CASE Execute(o, "baseline", Baseline, "check")
      <3>1. Baseline[pc[o].step] \in Statements
        BY <2>1, ListLengths DEF IInv, Execute, At, Steps, Statements
      <3>. QED  BY <2>1, <3>1 DEF Execute, Committed
    <2>2. CASE Execute(o, "post", PostMigration, "serving")
      <3>1. PostMigration[pc[o].step] \in Statements
        BY <2>2, ListLengths DEF IInv, Execute, At, Steps, Statements
      <3>. QED  BY <2>2, <3>1 DEF Execute, Committed
    <2>. QED  BY <2>1, <2>2
  <1>5. Sound(file') /\ Sound(work')
    BY <1>3, <1>4, MakeKeeps DEF IInv
  <1>6. kills' \in 0 .. MaxKills
    BY <1>3 DEF IInv
  <1>. QED  BY <1>1, <1>2, <1>3, <1>5, <1>6, GoOutside DEF IInv

\* The steps of a migration outside its transaction, and the open's ends.
LEMMA OutsideKeeps ==
    ASSUME IInv, NEW o \in Openers,
           Start(o) \/ EnableWAL(o) \/ Check(o) \/ Stop(o) \/ Close(o)
    PROVE  IInv'
  <1>1. CASE Start(o)
    <2>1. /\ pc[o].phase \notin TxPhases /\ Goto(o, "wal", 1)
          /\ UNCHANGED <<file, lock, work, kills>>
      BY <1>1 DEF Start, At, TxPhases
    <2>2. 1 \in Steps("wal") /\ "wal" \in Phases \ TxPhases
      BY DEF Steps, Phases, TxPhases
    <2>. QED  BY <2>1, <2>2, GoOutside DEF IInv
  <1>2. CASE EnableWAL(o)
    <2>1. /\ pc[o].phase \notin TxPhases /\ Goto(o, "baseline", 1)
          /\ UNCHANGED <<lock, work, kills>>
          /\ file' = [file EXCEPT !.wal = TRUE]
      BY <1>2 DEF EnableWAL, At, TxPhases, Committed
    <2>2. 1 \in Steps("baseline") /\ "baseline" \in Phases \ TxPhases
      BY DEF Steps, Phases, TxPhases
    <2>3. Sound(file')
      BY <2>1 DEF IInv, Sound, Schema, Recorded
    <2>. QED  BY <2>1, <2>2, <2>3, GoOutside DEF IInv
  <1>3. CASE Check(o)
    <2>1. /\ pc[o].phase = "check" /\ pc[o].step \in 1 .. 16
          /\ UNCHANGED <<file, lock, work, kills>>
      BY <1>3 DEF Check, At, IInv, Steps
    <2>2. PICK phase \in Phases \ TxPhases, step \in Nat :
             step \in Steps(phase) /\ Goto(o, phase, step)
      <3>1. CASE Goto(o, "begin", pc[o].step)
        BY <2>1, <3>1 DEF Steps, Phases, TxPhases
      <3>2. CASE Advance(o, "check", pc[o].step, Migrations, "post")
        BY <2>1, <3>2, AdvanceGoes DEF Phases, TxPhases
      <3>. QED  BY <1>3, <3>1, <3>2 DEF Check
    <2>. QED  BY <2>1, <2>2, GoOutside DEF IInv, TxPhases
  <1>4. CASE Stop(o)
    <2>1. /\ Goto(o, "down", 1) /\ file' = file
          /\ kills' \in 0 .. MaxKills
      BY <1>4, KillsAssumption DEF Stop, IInv
    <2>2. 1 \in Steps("down") /\ "down" \in Phases \ TxPhases
      BY DEF Steps, Phases, TxPhases
    <2>3. CASE lock = o
      <3>1. pc[o].phase \in TxPhases /\ lock' = NoOne /\ work' = NewFile
        BY <1>4, <2>3 DEF Stop, EndTx, IInv
      <3>. QED  BY <2>1, <2>2, <3>1, NewFileSound, GoOutside DEF IInv
    <2>4. CASE lock # o
      <3>1. pc[o].phase \notin TxPhases /\ lock' = lock /\ work' = work
        BY <1>4, <2>4 DEF Stop, IInv
      <3>. QED  BY <2>1, <2>2, <3>1, GoOutside DEF IInv
    <2>. QED  BY <2>3, <2>4
  <1>5. CASE Close(o)
    <2>1. /\ pc[o].phase \notin TxPhases /\ Goto(o, "down", 1)
          /\ UNCHANGED <<file, lock, work, kills>>
      BY <1>5 DEF Close, At, TxPhases
    <2>2. 1 \in Steps("down") /\ "down" \in Phases \ TxPhases
      BY DEF Steps, Phases, TxPhases
    <2>. QED  BY <2>1, <2>2, GoOutside DEF IInv
  <1>. QED  BY <1>1, <1>2, <1>3, <1>4, <1>5

\* The transaction of one migration.
LEMMA MigrateKeeps ==
    ASSUME IInv, NEW o \in Openers,
           \/ Begin(o) \/ SkipApplied(o) \/ AlterTable(o)
           \/ PostSQL(o) \/ RecordAndCommit(o)
    PROVE  IInv'
  <1>. DEFINE v == pc[o].step
  <1>1. v \in 1 .. 16 /\ v \in Nat
    BY DEF IInv, Begin, SkipApplied, AlterTable, PostSQL, RecordAndCommit, At,
           Steps
  <1>2. CASE Begin(o)
    <2>1. /\ Goto(o, "alter", v) /\ lock = NoOne /\ lock' = o
          /\ work' = file /\ UNCHANGED <<file, kills>>
      BY <1>2 DEF Begin, Free
    <2>. QED  BY <1>1, <2>1, GoInside DEF IInv, TxPhases
  <1>3. CASE SkipApplied(o)
    <2>1. /\ pc[o].phase \in TxPhases /\ lock' = NoOne /\ work' = NewFile
          /\ Advance(o, "check", v, Migrations, "post")
          /\ UNCHANGED <<file, kills>>
      BY <1>3 DEF SkipApplied, At, EndTx, TxPhases
    <2>2. PICK phase \in {"baseline", "check", "post", "serving"}, step \in Nat :
             step \in Steps(phase) /\ Goto(o, phase, step)
      BY <1>1, <2>1, AdvanceGoes
    <2>3. phase \in Phases \ TxPhases
      BY DEF Phases, TxPhases
    <2>. QED  BY <2>1, <2>2, <2>3, NewFileSound, GoOutside DEF IInv
  <1>4. CASE AlterTable(o)
    <2>1. /\ lock = o /\ UNCHANGED <<file, lock, kills>>
      BY <1>4 DEF AlterTable, At, IInv, TxPhases
    <2>2. /\ Sound(work') /\ Migrations[v].column \in work'.cols
          /\ Goto(o, "record", v) \/ Goto(o, "fill", v)
      <3>1. CASE Present(work, v)
        BY <1>4, <3>1 DEF AlterTable, Present, IInv
      <3>2. CASE ~Present(work, v)
        BY <1>1, <1>4, <3>2, AddColumnsKeeps DEF AlterTable, IInv
      <3>. QED  BY <3>1, <3>2
    <2>. QED  BY <1>1, <2>1, <2>2, GoInside DEF IInv, TxPhases
  <1>5. CASE PostSQL(o)
    <2>1. /\ lock = o /\ UNCHANGED <<file, lock, kills>>
          /\ Goto(o, "record", v) /\ work' = Backfill(work, v)
          /\ Migrations[v].column \in work.cols
      BY <1>5 DEF PostSQL, At, IInv, TxPhases
    <2>2. Sound(work') /\ Migrations[v].column \in work'.cols
      BY <2>1, BackfillKeeps DEF IInv
    <2>. QED  BY <1>1, <2>1, <2>2, GoInside DEF IInv, TxPhases
  <1>6. CASE RecordAndCommit(o)
    <2>1. /\ pc[o].phase \in TxPhases /\ lock' = NoOne /\ work' = NewFile
          /\ Advance(o, "check", v, Migrations, "post")
          /\ kills' = kills /\ file' = Record(work, v)
          /\ Migrations[v].column \in work.cols
      BY <1>6 DEF RecordAndCommit, At, EndTx, TxPhases, IInv
    <2>2. PICK phase \in {"baseline", "check", "post", "serving"}, step \in Nat :
             step \in Steps(phase) /\ Goto(o, phase, step)
      BY <1>1, <2>1, AdvanceGoes
    <2>3. phase \in Phases \ TxPhases
      BY DEF Phases, TxPhases
    <2>4. Sound(file')
      BY <1>1, <2>1, RecordKeeps DEF IInv
    <2>. QED  BY <2>1, <2>2, <2>3, <2>4, NewFileSound, GoOutside DEF IInv
  <1>. QED  BY <1>2, <1>3, <1>4, <1>5, <1>6

LEMMA InvStep == IInv /\ [Next]_vars => IInv'
  <1>1. ASSUME IInv, UNCHANGED vars
        PROVE  IInv'
    BY <1>1 DEF IInv, vars, Sound, Recorded
  <1>2. ASSUME IInv, NEW o \in Openers, Start(o) \/ Step(o) \/ Stop(o) \/ Close(o)
        PROVE  IInv'
    BY <1>2, OutsideKeeps, ExecuteKeeps, MigrateKeeps DEF Step
  <1>. QED  BY <1>1, <1>2 DEF Next

\* The schema keeps its shape and the write lock belongs to exactly the process
\* that is inside the transaction of a migration (applySchemaMigration), for
\* any number of openers and kills.
THEOREM SchemaTypeCorrect == Spec => []TypeOK
  <1>1. IInv => TypeOK
    BY DEF IInv, TypeOK, Sound, Place
  <1>. QED  BY InvStart, InvStep, <1>1, PTL DEF Spec

\* A version recorded in schema_migrations has its column in the file,
\* whichever release left it and however its openers interleave and die.
THEOREM RecordsCorrect == Spec => []RecordedIsPresent
  <1>1. IInv => RecordedIsPresent
    BY DEF IInv, RecordedIsPresent, Sound, Recorded
  <1>. QED  BY InvStart, InvStep, <1>1, PTL DEF Spec

---------------------------------------------------------------------------
(* A schema that is complete.                                              *)

\* The statements that create a table, by their place in the baseline.
TableNumbers == 1 .. 8 \cup {18}

LEMMA BaselineTables ==
    /\ Baseline[1] = Table("schema_migrations", {"version"})
    /\ Baseline[2] = Table("entities", {"name", "entity_type", "deleted_at",
                                        "created_at", "updated_at"})
    /\ Baseline[3] = Table("reconcile_runs", {"id"})
    /\ Baseline[4] = Table("observations", {"entity_id", "content",
           "access_count", "last_accessed", "event_id", "entity_type",
           "deleted_at", "superseded_by", "superseded_at",
           "superseded_reason", "superseded_by_run"})
    /\ Baseline[5] = Table("relations", {"from_entity_id", "to_entity_id"})
    /\ Baseline[6] = Table("events", {"label", "event_date", "event_type"})
    /\ Baseline[7] = Table("reconcile_decisions", {"id", "run_id", "kind",
           "entity_id", "content_snapshot"})
    /\ Baseline[8] = Table("observation_embeddings", {"observation_id",
                                                      "provider"})
    /\ Baseline[18] = Table("memory_fts", {"observation_content"})
  BY DEF Baseline, Runs, Embeddings

LEMMA BaselineIndexes ==
    /\ Baseline[9]  = Index("idx_obs_entity", "observations", {"entity_id"})
    /\ Baseline[10] = Index("idx_obs_content", "observations", {"content"})
    /\ Baseline[11] = Index("idx_rel_from", "relations", {"from_entity_id"})
    /\ Baseline[12] = Index("idx_rel_to", "relations", {"to_entity_id"})
    /\ Baseline[13] = Index("idx_entities_type", "entities", {"entity_type"})
    /\ Baseline[14] = Index("idx_entities_name", "entities", {"name"})
    /\ Baseline[15] = Index("idx_events_date", "events", {"event_date"})
    /\ Baseline[16] = Index("idx_events_type", "events", {"event_type"})
    /\ Baseline[17] = Index("idx_events_label", "events", {"label"})
  BY DEF Baseline

LEMMA PostMigrationIndexes ==
    /\ PostMigration[1] = Index("idx_obs_event", "observations", {"event_id"})
    /\ PostMigration[2] = Index("idx_obs_active_entity_content",
           "observations", {"entity_id", "content", "deleted_at", "superseded_by"})
    /\ PostMigration[3] = Index("idx_obs_active_event", "observations",
           {"event_id", "deleted_at", "superseded_by"})
    /\ PostMigration[4] = Index("idx_obs_superseded", "observations",
           {"superseded_by"})
    /\ PostMigration[5] = Index("idx_obs_superseded_run", "observations",
           {"superseded_by_run"})
    /\ PostMigration[6] = Index("idx_reconcile_decisions_run",
           "reconcile_decisions", {"run_id"})
    /\ PostMigration[7] = Index("idx_reconcile_decisions_kind",
           "reconcile_decisions", {"kind"})
    /\ PostMigration[8] = Index("idx_reconcile_decisions_entity",
           "reconcile_decisions", {"entity_id"})
    /\ PostMigration[9] = Index("idx_observation_embeddings_model",
           "observation_embeddings", {"provider"})
    /\ PostMigration[10] = Index("idx_entities_deleted", "entities", {"deleted_at"})
    /\ PostMigration[11] = Index("idx_obs_deleted", "observations", {"deleted_at"})
    /\ PostMigration[12] = Index("trg_entities_insert_timestamps", "entities",
           {"created_at", "updated_at"})
  BY DEF PostMigration

LEMMA StatementShapes ==
    /\ \A t, C : /\ Table(t, C).table /\ Table(t, C).name = t
                 /\ Table(t, C).cols = Cols(t, C)
    /\ \A i, t, C : ~Index(i, t, C).table /\ Index(i, t, C).cols = Cols(t, C)
    /\ \A t, C : \A c \in Cols(t, C) : c[1] = t
    /\ \A t, c : \A C : c \in C => <<t, c>> \in Cols(t, C)
    /\ \A t : \A C, D : C \subseteq D => Cols(t, C) \subseteq Cols(t, D)
  BY DEF Table, Index, Cols

LEMMA TableShapes ==
    /\ \A i \in 1 .. 18 : Baseline[i].table <=> i \in TableNumbers
    /\ \A i \in 1 .. 12 : ~PostMigration[i].table
    /\ \A i \in TableNumbers : /\ Baseline[i].cols # {}
                               /\ \A c \in Baseline[i].cols : c[1] = Baseline[i].name
    /\ \A i, j \in TableNumbers : Baseline[i].name = Baseline[j].name => i = j
  <1>1. \A i \in 1 .. 18 : Baseline[i].table <=> i \in TableNumbers
    BY BaselineTables, BaselineIndexes, StatementShapes DEF TableNumbers
  <1>2. \A i \in 1 .. 12 : ~PostMigration[i].table
    BY PostMigrationIndexes, StatementShapes
  <1>3. \A i \in TableNumbers : /\ Baseline[i].cols # {}
                                /\ \A c \in Baseline[i].cols : c[1] = Baseline[i].name
    <2>1. \A i \in TableNumbers : \E t, C : C # {} /\ Baseline[i] = Table(t, C)
      BY BaselineTables DEF TableNumbers
    <2>2. \A t, C : C # {} => Cols(t, C) # {}
      BY DEF Cols
    <2>. QED  BY <2>1, <2>2, StatementShapes
  <1>4. /\ Baseline[1].name = "schema_migrations" /\ Baseline[2].name = "entities"
        /\ Baseline[3].name = "reconcile_runs" /\ Baseline[4].name = "observations"
        /\ Baseline[5].name = "relations" /\ Baseline[6].name = "events"
        /\ Baseline[7].name = "reconcile_decisions"
        /\ Baseline[8].name = "observation_embeddings"
        /\ Baseline[18].name = "memory_fts"
    BY BaselineTables, StatementShapes
  <1>5. \A i, j \in TableNumbers : Baseline[i].name = Baseline[j].name => i = j
    BY <1>4 DEF TableNumbers
  <1>. QED  BY <1>1, <1>2, <1>3, <1>5

\* An index or a trigger is on columns of one table of the baseline.
LEMMA IndexedColumns ==
    /\ \A i \in 1 .. 18 : \E j \in TableNumbers : Baseline[i].cols \subseteq Baseline[j].cols
    /\ \A i \in 1 .. 12 : \E j \in TableNumbers : PostMigration[i].cols \subseteq Baseline[j].cols
  <1>1. \A i \in {9, 10} : Baseline[i].cols \subseteq Baseline[4].cols
    BY BaselineTables, BaselineIndexes, StatementShapes
  <1>2. \A i \in {11, 12} : Baseline[i].cols \subseteq Baseline[5].cols
    BY BaselineTables, BaselineIndexes, StatementShapes
  <1>3. \A i \in {13, 14} : Baseline[i].cols \subseteq Baseline[2].cols
    BY BaselineTables, BaselineIndexes, StatementShapes
  <1>4. \A i \in {15, 16, 17} : Baseline[i].cols \subseteq Baseline[6].cols
    BY BaselineTables, BaselineIndexes, StatementShapes
  <1>5. \A i \in {1, 2, 3, 4, 5, 11} : PostMigration[i].cols \subseteq Baseline[4].cols
    BY BaselineTables, PostMigrationIndexes, StatementShapes
  <1>6. \A i \in {6, 7, 8} : PostMigration[i].cols \subseteq Baseline[7].cols
    BY BaselineTables, PostMigrationIndexes, StatementShapes
  <1>7. PostMigration[9].cols \subseteq Baseline[8].cols
    BY BaselineTables, PostMigrationIndexes, StatementShapes
  <1>8. \A i \in {10, 12} : PostMigration[i].cols \subseteq Baseline[2].cols
    BY BaselineTables, PostMigrationIndexes, StatementShapes
  <1>9. 1 .. 18 = TableNumbers \cup 9 .. 17
    BY DEF TableNumbers
  <1>10. ASSUME NEW i \in 1 .. 18
         PROVE  \E j \in TableNumbers : Baseline[i].cols \subseteq Baseline[j].cols
    BY <1>1, <1>2, <1>3, <1>4 DEF TableNumbers
  <1>11. ASSUME NEW i \in 1 .. 12
         PROVE  \E j \in TableNumbers : PostMigration[i].cols \subseteq Baseline[j].cols
    BY <1>5, <1>6, <1>7, <1>8 DEF TableNumbers
  <1>. QED  BY <1>10, <1>11

\* The columns a migration is recognised by.
Recognised == {Migrations[v].column : v \in Versions}

\* A table that is there has the columns it was born with.
WholeTables(d) ==
    \A i \in TableNumbers :
        Exists(d, Baseline[i]) => Baseline[i].cols \ Recognised \subseteq d.cols

\* w has what d has.
Grows(d, w) == /\ d.cols \subseteq w.cols /\ d.made \subseteq w.made
               /\ d.applied \subseteq w.applied

LEMMA ExistsStays ==
    ASSUME NEW d, NEW w, Grows(d, w), NEW s, Exists(d, s)
    PROVE  Exists(w, s)
  BY DEF Grows, Exists, HasTable

\* What the open of a process at place p has behind it.
Done(d, p) ==
    LET Base(n)    == \A i \in 1 .. n : Exists(d, Baseline[i])
        Applied(n) == 1 .. n \subseteq d.applied
        Post(n)    == \A i \in 1 .. n : Exists(d, PostMigration[i])
    IN  /\ p.phase = "baseline" => Base(p.step - 1)
        /\ p.phase \in {"check", "begin"} \cup TxPhases => Base(18) /\ Applied(p.step - 1)
        /\ p.phase = "post" => Base(18) /\ Applied(16) /\ Post(p.step - 1)
        /\ p.phase = "serving" => Base(18) /\ Applied(16) /\ Post(12)

LEMMA DoneStays ==
    ASSUME NEW d, NEW w, Grows(d, w), NEW p, Done(d, p)
    PROVE  Done(w, p)
  BY ExistsStays DEF Done, Grows

\* The working schema w of a process at place p of a migration's transaction,
\* beside the committed schema d.
Working(p, d, w) ==
    /\ p.phase = "alter" => Grows(d, w) /\ Grows(w, d) /\ w.nulls = {}
    /\ p.phase = "fill" => /\ Grows(d, w) /\ WholeTables(w)
                           /\ w.nulls \subseteq Migrations[p.step].fills
    /\ p.phase = "record" => Grows(d, w) /\ WholeTables(w) /\ w.nulls = {}

PInv == /\ IInv
        /\ file.nulls = {} /\ WholeTables(file)
        /\ \A o \in Openers : Done(file, pc[o]) /\ Working(pc[o], file, work)

\* A complete file is all that a serving process relies on.
LEMMA ServingComplete == PInv => ServingIsComplete
  <1>. SUFFICES ASSUME PInv, NEW o \in Openers, At(o, "serving")
                PROVE  /\ file.applied = Versions
                       /\ file.nulls = {}
                       /\ \A s \in Statements : s.cols \subseteq file.cols /\ Exists(file, s)
    BY DEF ServingIsComplete
  <1>1. /\ \A i \in 1 .. 18 : Exists(file, Baseline[i])
        /\ \A i \in 1 .. 12 : Exists(file, PostMigration[i])
        /\ 1 .. 16 \subseteq file.applied
    BY DEF PInv, Done, At
  <1>2. file.applied = Versions
    BY <1>1, ListLengths DEF PInv, IInv, Sound, Schema
  <1>3. Recognised \subseteq file.cols
    BY <1>2 DEF Recognised, PInv, IInv, Sound, Recorded
  <1>4. \A i \in TableNumbers : Baseline[i].cols \subseteq file.cols
    BY <1>1, <1>3 DEF PInv, WholeTables, TableNumbers
  <1>5. /\ \A i \in 1 .. 18 : Baseline[i].cols \subseteq file.cols
        /\ \A i \in 1 .. 12 : PostMigration[i].cols \subseteq file.cols
    BY <1>4, IndexedColumns
  <1>6. \A s \in Statements : s.cols \subseteq file.cols /\ Exists(file, s)
    BY <1>1, <1>5, ListLengths DEF Statements
  <1>. QED  BY <1>2, <1>6 DEF PInv

\* One statement of the two lists: what it makes is there, and so is all
\* that was.
LEMMA MakeGrows ==
    ASSUME NEW d \in Schema, NEW s \in Statements, Valid(d, s)
    PROVE  /\ Grows(d, Make(d, s)) /\ Exists(Make(d, s), s)
           /\ Make(d, s).nulls = d.nulls
           /\ WholeTables(d) => WholeTables(Make(d, s))
  <1>1. s.table => \E i \in TableNumbers : s = Baseline[i]
    BY TableShapes, ListLengths DEF Statements
  <1>2. CASE Exists(d, s)
    <2>1. Make(d, s) = d
      BY <1>2 DEF Make
    <2>. QED  BY <1>2, <2>1 DEF Grows
  <1>3. CASE ~Exists(d, s) /\ s.table
    <2>1. PICK i \in TableNumbers : s = Baseline[i]
      BY <1>1, <1>3
    <2>. DEFINE w == Make(d, s)
    <2>2. /\ w.cols = d.cols \cup s.cols /\ w.made = d.made
          /\ w.applied = d.applied /\ w.nulls = d.nulls
      BY <1>3 DEF Make, Schema
    <2>. HIDE DEF w
    <2>3. Exists(w, s)
      BY <1>3, <2>1, <2>2, TableShapes DEF Exists, HasTable
    <2>4. ASSUME WholeTables(d), NEW j \in TableNumbers, Exists(w, Baseline[j])
          PROVE  Baseline[j].cols \ Recognised \subseteq w.cols
      <3>1. CASE Exists(d, Baseline[j])
        BY <2>2, <2>4, <3>1 DEF WholeTables
      <3>2. CASE ~Exists(d, Baseline[j])
        <4>1. Baseline[j].table
          BY TableShapes DEF TableNumbers
        <4>2. PICK b \in Baseline[j].cols, c \in s.cols : b[1] = c[1]
          BY <2>2, <2>4, <3>2, <4>1 DEF Exists, HasTable
        <4>3. Baseline[j].name = Baseline[i].name
          BY <2>1, <4>2, TableShapes
        <4>4. j = i
          BY <4>3, TableShapes
        <4>. QED  BY <2>1, <2>2, <4>4
      <3>. QED  BY <3>1, <3>2
    <2>5. WholeTables(d) => WholeTables(w)
      BY <2>4 DEF WholeTables
    <2>. QED  BY <2>2, <2>3, <2>5 DEF Grows, w
  <1>4. CASE ~Exists(d, s) /\ ~s.table
    <2>. DEFINE w == Make(d, s)
    <2>1. /\ w.cols = d.cols /\ w.made = d.made \cup {s.name}
          /\ w.applied = d.applied /\ w.nulls = d.nulls
      BY <1>4 DEF Make, Schema
    <2>. HIDE DEF w
    <2>2. Exists(w, s)
      BY <1>4, <2>1 DEF Exists
    <2>3. \A i \in TableNumbers : Exists(w, Baseline[i]) <=> Exists(d, Baseline[i])
      <3>1. \A i \in TableNumbers : Baseline[i].table
        BY TableShapes DEF TableNumbers
      <3>. QED  BY <2>1, <3>1 DEF Exists, HasTable
    <2>. QED  BY <2>1, <2>2, <2>3 DEF Grows, WholeTables, w
  <1>. QED  BY <1>2, <1>3, <1>4

---------------------------------------------------------------------------
(* Every release left whole tables.                                        *)

LEMMA MigratedTables ==
    ASSUME NEW v \in 1 .. 16
    PROVE  /\ \A c \in Migrations[v].adds : c[1] = Migrations[v].column[1]
           /\ Migrations[v].column[1] = "reconcile_decisions" => v \in {14, 15}
           /\ Migrations[v].column[1] = "observation_embeddings" => v = 16
           /\ Migrations[v].column[1] \notin {"schema_migrations", "memory_fts"}
  <1>1. /\ \A t, c : Alter(t, c).adds = {<<t, c>>} /\ AlterFill(t, c).adds = {<<t, c>>}
        /\ \A t, c : \A C : Create(t, c, C).adds = Cols(t, C)
        /\ \A t, c : Alter(t, c).column[1] = t /\ AlterFill(t, c).column[1] = t
        /\ \A t, c : \A C : Create(t, c, C).column[1] = t
        /\ \A t, c : <<t, c>>[1] = t
    BY DEF Alter, AlterFill, Create
  <1>. DEFINE On(t) == Migrations[v].column[1] = t
                       /\ \A c \in Migrations[v].adds : c[1] = t
  <1>2. CASE v \in {1, 3, 4, 5, 6, 10, 11, 12, 13}
    <2>1. \E c : Migrations[v] = Alter("observations", c)
      BY <1>2, MigrationList
    <2>2. On("observations")
      BY <1>1, <2>1
    <2>. QED  BY <2>2
  <1>3. CASE v \in {2, 7, 8}
    <2>1. \E c : Migrations[v] \in {Alter("entities", c), AlterFill("entities", c)}
      BY <1>3, MigrationList
    <2>2. On("entities")
      BY <1>1, <2>1
    <2>. QED  BY <2>2
  <1>4. CASE v = 9
    <2>1. On("reconcile_runs")
      BY <1>1, <1>4, MigrationList, StatementShapes
    <2>. QED  BY <2>1
  <1>5. CASE v \in {14, 15}
    <2>1. On("reconcile_decisions")
      BY <1>1, <1>5, MigrationList, StatementShapes
    <2>. QED  BY <1>5, <2>1
  <1>6. CASE v = 16
    <2>1. On("observation_embeddings")
      BY <1>1, <1>6, MigrationList, StatementShapes
    <2>. QED  BY <1>6, <2>1
  <1>. QED  BY <1>2, <1>3, <1>4, <1>5, <1>6

LEMMA LeftWhole ==
    ASSUME NEW k \in 0 .. 16, NEW registry \in BOOLEAN
    PROVE  WholeTables(Left(k, registry)) /\ Left(k, registry).nulls = {}
  <1>. DEFINE later == IF k < 15 THEN {Migrations[15].column} ELSE {}
              added == UNION {Migrations[v].adds : v \in 1 .. k}
              cols  == added \ later
              all   == FirstRelease \cup cols \cup
                          (IF registry THEN Baseline[1].cols ELSE {})
              d     == Left(k, registry)
  <1>1. d.cols = all /\ d.nulls = {}
    BY DEF Left, NewFile
  <1>2. \A c \in FirstRelease : c[1] \in {"entities", "observations", "relations", "events"}
    <2>1. /\ Baseline[2].name = "entities" /\ Baseline[4].name = "observations"
          /\ Baseline[5].name = "relations" /\ Baseline[6].name = "events"
      BY BaselineTables, StatementShapes
    <2>2. \A i \in {2, 4, 5, 6} : \A c \in Baseline[i].cols : c[1] = Baseline[i].name
      BY TableShapes DEF TableNumbers
    <2>. QED  BY <2>1, <2>2 DEF FirstRelease
  <1>3. \A c \in cols : \E v \in 1 .. k : v \in 1 .. 16 /\ c[1] = Migrations[v].column[1]
    BY MigratedTables
  <1>4. later \subseteq Recognised
    BY ListLengths DEF Recognised
  <1>5. \A c \in Baseline[1].cols : c[1] = "schema_migrations"
    BY BaselineTables, StatementShapes
  <1>. HIDE DEF cols, later
  <1>6. \A i \in {2, 4, 5, 6} : Baseline[i].cols \ Recognised \subseteq all
    BY DEF FirstRelease, Recognised
  <1>7. ASSUME NEW i \in TableNumbers, Exists(d, Baseline[i])
        PROVE  \E c \in all : c[1] = Baseline[i].name
    <2>1. Baseline[i].table
      BY TableShapes DEF TableNumbers
    <2>2. PICK b \in Baseline[i].cols, c \in d.cols : c[1] = b[1]
      BY <1>7, <2>1 DEF Exists, HasTable
    <2>. QED  BY <1>1, <2>2, TableShapes
  <1>8. /\ Baseline[1].name = "schema_migrations"
        /\ Baseline[7].name = "reconcile_decisions"
        /\ Baseline[8].name = "observation_embeddings"
        /\ Baseline[18].name = "memory_fts"
    BY BaselineTables, StatementShapes
  <1>. HIDE DEF all, d
  <1>9. ASSUME Exists(d, Baseline[1]) PROVE Baseline[1].cols \ Recognised \subseteq all
    <2>1. PICK c \in all : c[1] = "schema_migrations"
      BY <1>7, <1>8, <1>9 DEF TableNumbers
    <2>2. registry
      BY <1>2, <1>3, <2>1, MigratedTables DEF all
    <2>. QED  BY <2>2 DEF all
  <1>10. Baseline[3].cols \ Recognised \subseteq all
    <2>1. Baseline[3].cols = {<<"reconcile_runs", "id">>}
      BY BaselineTables, StatementShapes DEF Cols
    <2>2. Migrations[9].column = <<"reconcile_runs", "id">>
      BY MigrationList, Constructors
    <2>. QED  BY <2>1, <2>2, ListLengths DEF Recognised
  <1>11. ASSUME Exists(d, Baseline[7]) PROVE Baseline[7].cols \ Recognised \subseteq all
    <2>1. PICK c \in all : c[1] = "reconcile_decisions"
      BY <1>7, <1>8, <1>11 DEF TableNumbers
    <2>2. c \in cols
      BY <1>2, <1>5, <2>1 DEF all
    <2>3. k >= 14
      BY <1>3, <2>1, <2>2, MigratedTables
    <2>4. Baseline[7].cols = Migrations[14].adds
      BY BaselineTables, MigrationList, StatementShapes DEF Create
    <2>5. Migrations[14].adds \subseteq added
      BY <2>3
    <2>. QED  BY <1>4, <2>4, <2>5 DEF all, cols
  <1>12. ASSUME Exists(d, Baseline[8]) PROVE Baseline[8].cols \ Recognised \subseteq all
    <2>1. PICK c \in all : c[1] = "observation_embeddings"
      BY <1>7, <1>8, <1>12 DEF TableNumbers
    <2>2. c \in cols
      BY <1>2, <1>5, <2>1 DEF all
    <2>3. k = 16
      BY <1>3, <2>1, <2>2, MigratedTables
    <2>4. Baseline[8].cols = Migrations[16].adds
      BY BaselineTables, MigrationList, StatementShapes DEF Create
    <2>5. Migrations[16].adds \subseteq added
      BY <2>3
    <2>. QED  BY <1>4, <2>4, <2>5 DEF all, cols
  <1>13. ~Exists(d, Baseline[18])
    <2>. SUFFICES ASSUME Exists(d, Baseline[18]) PROVE FALSE
      OBVIOUS
    <2>1. PICK c \in all : c[1] = "memory_fts"
      BY <1>7, <1>8 DEF TableNumbers
    <2>. QED  BY <1>2, <1>3, <1>5, <2>1, MigratedTables DEF all
  <1>14. ASSUME NEW i \in TableNumbers, Exists(d, Baseline[i])
         PROVE  Baseline[i].cols \ Recognised \subseteq d.cols
    <2>1. i \in {1, 2, 3, 4, 5, 6, 7, 8, 18}
      BY DEF TableNumbers
    <2>. QED  BY <1>1, <1>6, <1>9, <1>10, <1>11, <1>12, <1>13, <1>14, <2>1
  <1>. QED  BY <1>1, <1>14 DEF WholeTables, d

LEMMA FilesWhole ==
    ASSUME NEW d \in Files
    PROVE  WholeTables(d) /\ d.nulls = {}
  <1>1. WholeTables(NewFile) /\ NewFile.nulls = {}
    <2>1. \A i \in TableNumbers : Baseline[i].table
      BY TableShapes DEF TableNumbers
    <2>. QED  BY <2>1 DEF WholeTables, Exists, HasTable, NewFile
  <1>. QED  BY <1>1, LeftWhole, ReleasesAssumption DEF Files

---------------------------------------------------------------------------
(* No step undoes what an open has behind it.                              *)

LEMMA ProgressInit == Init => PInv
  <1>. SUFFICES ASSUME Init PROVE PInv
    OBVIOUS
  <1>1. IInv /\ file.nulls = {} /\ WholeTables(file)
    BY InvStart, FilesWhole DEF Init
  <1>2. \A o \in Openers : pc[o].phase = "down"
    BY DEF Init
  <1>. QED  BY <1>1, <1>2 DEF PInv, Done, Working, TxPhases

\* A process moves on, and the others, of whom one may be in a transaction,
\* keep what they rely on.
LEMMA GoesOn ==
    ASSUME PInv, IInv', NEW o \in Openers, NEW phase, NEW step, Goto(o, phase, step),
           Grows(file, file'), file'.nulls = {}, WholeTables(file'),
           Done(file', [phase |-> phase, step |-> step]),
           Working([phase |-> phase, step |-> step], file', work'),
           lock \notin {NoOne, o} => work' = work /\ Grows(file', file)
    PROVE  PInv'
  <1>1. /\ pc'[o] = [phase |-> phase, step |-> step]
        /\ \A q \in Openers \ {o} : pc'[q] = pc[q]
    BY DEF Goto, PInv, IInv
  <1>2. ASSUME NEW q \in Openers \ {o}
        PROVE  Done(file', pc[q]) /\ Working(pc[q], file', work')
    <2>1. Done(file', pc[q])
      BY DoneStays DEF PInv
    <2>2. CASE pc[q].phase \notin TxPhases
      BY <2>1, <2>2 DEF Working, TxPhases
    <2>3. CASE pc[q].phase \in TxPhases
      <3>1. lock = q
        BY <2>3 DEF PInv, IInv
      <3>2. work' = work /\ Grows(file', file)
        BY <3>1, NoOneAssumption
      <3>3. Working(pc[q], file, work)
        BY DEF PInv
      <3>. QED  BY <2>1, <3>2, <3>3 DEF Working, Grows
    <2>. QED  BY <2>2, <2>3
  <1>3. \A q \in Openers : Done(file', pc'[q]) /\ Working(pc'[q], file', work')
    BY <1>1, <1>2
  <1>. QED  BY <1>3 DEF PInv

LEMMA SameGrows == \A d : Grows(d, d)
  BY DEF Grows

\* Outside of everything there is nothing to have behind.
LEMMA NothingBehind ==
    ASSUME NEW d, NEW w, NEW phase \in {"down", "wal", "failed"}, NEW step
    PROVE  /\ Done(d, [phase |-> phase, step |-> step])
           /\ Working([phase |-> phase, step |-> step], d, w)
  BY DEF Done, Working, TxPhases

LEMMA ExecuteGoesOn ==
    ASSUME PInv, IInv', NEW o \in Openers,
           \/ Execute(o, "baseline", Baseline, "check")
           \/ Execute(o, "post", PostMigration, "serving")
    PROVE  PInv'
  <1>. DEFINE i == pc[o].step
  <1>1. Done(file, pc[o]) /\ file \in Schema /\ lock # o
    BY DEF PInv, IInv, Sound, Execute, At, TxPhases
  <1>2. CASE Goto(o, "failed", 1) /\ UNCHANGED <<file, lock, work>>
    BY <1>2, SameGrows, NothingBehind, GoesOn DEF PInv
  <1>3. ASSUME NEW s \in Statements, Valid(file, s), file' = Make(file, s),
               UNCHANGED <<lock, work>>, Exists(file, s) \/ Free,
               NEW phase \in Phases \ TxPhases, NEW step \in Nat, Goto(o, phase, step),
               Exists(file', s) /\ Grows(file, file') =>
                  Done(file', [phase |-> phase, step |-> step])
        PROVE  PInv'
    <2>1. /\ Grows(file, file') /\ Exists(file', s) /\ file'.nulls = {}
          /\ WholeTables(file')
      BY <1>1, <1>3, MakeGrows DEF PInv
    <2>2. lock \notin {NoOne, o} => work' = work /\ Grows(file', file)
      BY <1>3, SameGrows DEF Free, Make
    <2>3. Working([phase |-> phase, step |-> step], file', work')
      BY <1>3 DEF Working, TxPhases
    <2>. QED  BY <1>3, <2>1, <2>2, <2>3, GoesOn
  <1>4. CASE Execute(o, "baseline", Baseline, "check") /\ Valid(file, Baseline[i])
    <2>. DEFINE s == Baseline[i]
    <2>1. /\ i \in 1 .. 18 /\ s \in Statements
          /\ \A j \in 1 .. i - 1 : Exists(file, Baseline[j])
      BY <1>1, <1>4, ListLengths DEF PInv, IInv, Execute, At, Steps, Done, Statements
    <2>2. /\ file' = Make(file, s) /\ UNCHANGED <<lock, work>>
          /\ Exists(file, s) \/ Free
          /\ Advance(o, "baseline", i, Baseline, "check")
      BY <1>4 DEF Execute, Committed
    <2>3. ASSUME Exists(file', s), Grows(file, file')
          PROVE  \A j \in 1 .. i : Exists(file', Baseline[j])
      BY <2>1, <2>3, ExistsStays
    <2>4. CASE i < 18
      <3>1. Goto(o, "baseline", i + 1)
        BY <2>2, <2>4, ListLengths DEF Advance
      <3>2. Exists(file', s) /\ Grows(file, file') =>
               Done(file', [phase |-> "baseline", step |-> i + 1])
        BY <2>1, <2>3 DEF Done, TxPhases
      <3>3. "baseline" \in Phases \ TxPhases /\ i + 1 \in Nat
        BY <2>1 DEF Phases, TxPhases
      <3>. QED  BY <1>3, <1>4, <2>1, <2>2, <3>1, <3>2, <3>3
    <2>5. CASE i = 18
      <3>1. Goto(o, "check", 1)
        BY <2>2, <2>5, ListLengths DEF Advance
      <3>2. Exists(file', s) /\ Grows(file, file') =>
               Done(file', [phase |-> "check", step |-> 1])
        BY <2>3, <2>5 DEF Done, TxPhases
      <3>3. "check" \in Phases \ TxPhases /\ 1 \in Nat
        BY DEF Phases, TxPhases
      <3>. QED  BY <1>3, <1>4, <2>1, <2>2, <3>1, <3>2, <3>3
    <2>. QED  BY <2>1, <2>4, <2>5
  <1>5. CASE Execute(o, "post", PostMigration, "serving") /\ Valid(file, PostMigration[i])
    <2>. DEFINE s == PostMigration[i]
    <2>1. /\ i \in 1 .. 12 /\ s \in Statements
          /\ \A j \in 1 .. i - 1 : Exists(file, PostMigration[j])
          /\ \A j \in 1 .. 18 : Exists(file, Baseline[j])
          /\ 1 .. 16 \subseteq file.applied
      BY <1>1, <1>5, ListLengths DEF PInv, IInv, Execute, At, Steps, Done, Statements
    <2>2. /\ file' = Make(file, s) /\ UNCHANGED <<lock, work>>
          /\ Exists(file, s) \/ Free
          /\ Advance(o, "post", i, PostMigration, "serving")
      BY <1>5 DEF Execute, Committed
    <2>3. ASSUME Exists(file', s), Grows(file, file')
          PROVE  /\ \A j \in 1 .. i : Exists(file', PostMigration[j])
                 /\ \A j \in 1 .. 18 : Exists(file', Baseline[j])
                 /\ 1 .. 16 \subseteq file'.applied
      BY <2>1, <2>3, ExistsStays DEF Grows
    <2>4. CASE i < 12
      <3>1. Goto(o, "post", i + 1)
        BY <2>2, <2>4, ListLengths DEF Advance
      <3>2. Exists(file', s) /\ Grows(file, file') =>
               Done(file', [phase |-> "post", step |-> i + 1])
        BY <2>1, <2>3 DEF Done, TxPhases
      <3>3. "post" \in Phases \ TxPhases /\ i + 1 \in Nat
        BY <2>1 DEF Phases, TxPhases
      <3>. QED  BY <1>3, <1>5, <2>1, <2>2, <3>1, <3>2, <3>3
    <2>5. CASE i = 12
      <3>1. Goto(o, "serving", 1)
        BY <2>2, <2>5, ListLengths DEF Advance
      <3>2. Exists(file', s) /\ Grows(file, file') =>
               Done(file', [phase |-> "serving", step |-> 1])
        BY <2>3, <2>5 DEF Done, TxPhases
      <3>3. "serving" \in Phases \ TxPhases /\ 1 \in Nat
        BY DEF Phases, TxPhases
      <3>. QED  BY <1>3, <1>5, <2>1, <2>2, <3>1, <3>2, <3>3
    <2>. QED  BY <2>1, <2>4, <2>5
  <1>6. \/ Goto(o, "failed", 1) /\ UNCHANGED <<file, lock, work>>
        \/ Execute(o, "baseline", Baseline, "check") /\ Valid(file, Baseline[i])
        \/ Execute(o, "post", PostMigration, "serving") /\ Valid(file, PostMigration[i])
    BY DEF Execute
  <1>. QED  BY <1>2, <1>4, <1>5, <1>6

\* After migration v, once it is recorded.
LEMMA AfterMigration ==
    ASSUME NEW o, NEW v \in 1 .. 16, Advance(o, "check", v, Migrations, "post"),
           NEW d, \A i \in 1 .. 18 : Exists(d, Baseline[i]), 1 .. v \subseteq d.applied, NEW w
    PROVE  \E phase, step : /\ Goto(o, phase, step)
                            /\ Done(d, [phase |-> phase, step |-> step])
                            /\ Working([phase |-> phase, step |-> step], d, w)
  <1>1. CASE v < 16
    <2>1. Goto(o, "check", v + 1)
      BY <1>1, ListLengths DEF Advance
    <2>2. Done(d, [phase |-> "check", step |-> v + 1])
      BY <1>1 DEF Done, TxPhases
    <2>3. Working([phase |-> "check", step |-> v + 1], d, w)
      BY DEF Working
    <2>. QED  BY <2>1, <2>2, <2>3
  <1>2. CASE v = 16
    <2>1. Goto(o, "post", 1)
      BY <1>2, ListLengths DEF Advance
    <2>2. Done(d, [phase |-> "post", step |-> 1])
      BY <1>2 DEF Done, TxPhases
    <2>3. Working([phase |-> "post", step |-> 1], d, w)
      BY DEF Working
    <2>. QED  BY <2>1, <2>2, <2>3
  <1>. QED  BY <1>1, <1>2

LEMMA OutsideGoesOn ==
    ASSUME PInv, IInv', NEW o \in Openers,
           Start(o) \/ EnableWAL(o) \/ Check(o) \/ Stop(o) \/ Close(o)
    PROVE  PInv'
  <1>1. /\ file \in Schema /\ file.nulls = {} /\ WholeTables(file)
        /\ Done(file, pc[o]) /\ Grows(file, file)
    BY SameGrows DEF PInv, IInv, Sound
  <1>2. CASE Start(o)
    BY <1>1, <1>2, NothingBehind, GoesOn DEF Start
  <1>3. CASE EnableWAL(o)
    <2>1. /\ file'.cols = file.cols /\ file'.made = file.made
          /\ file'.applied = file.applied /\ file'.nulls = file.nulls
      BY <1>1, <1>3 DEF EnableWAL, Committed, Schema
    <2>2. Grows(file, file') /\ Grows(file', file)
      BY <2>1 DEF Grows
    <2>3. WholeTables(file')
      <3>1. \A i \in TableNumbers : Exists(file', Baseline[i]) => Exists(file, Baseline[i])
        BY <2>2, ExistsStays
      <3>. QED  BY <1>1, <2>1, <3>1 DEF WholeTables
    <2>4. /\ Done(file', [phase |-> "baseline", step |-> 1])
          /\ Working([phase |-> "baseline", step |-> 1], file', work')
      BY DEF Done, Working, TxPhases
    <2>. QED  BY <1>1, <1>3, <2>1, <2>2, <2>3, <2>4, GoesOn DEF EnableWAL, Committed
  <1>4. CASE Check(o)
    <2>. DEFINE v == pc[o].step
    <2>1. /\ v \in 1 .. 16 /\ UNCHANGED <<file, lock, work>>
          /\ \A i \in 1 .. 18 : Exists(file, Baseline[i])
          /\ 1 .. v - 1 \subseteq file.applied
      BY <1>1, <1>4 DEF Check, At, PInv, IInv, Steps, Done
    <2>2. CASE v \in file.applied
      <3>1. 1 .. v \subseteq file.applied
        BY <2>1, <2>2
      <3>2. Advance(o, "check", v, Migrations, "post")
        BY <1>4, <2>2 DEF Check
      <3>3. PICK phase, step : /\ Goto(o, phase, step)
                               /\ Done(file, [phase |-> phase, step |-> step])
                               /\ Working([phase |-> phase, step |-> step], file, work)
        BY <2>1, <3>1, <3>2, AfterMigration
      <3>. QED  BY <1>1, <2>1, <3>3, GoesOn
    <2>3. CASE v \notin file.applied
      <3>1. Goto(o, "begin", v)
        BY <1>4, <2>3 DEF Check
      <3>2. /\ Done(file, [phase |-> "begin", step |-> v])
            /\ Working([phase |-> "begin", step |-> v], file, work)
        BY <2>1 DEF Done, Working, TxPhases
      <3>. QED  BY <1>1, <2>1, <3>1, <3>2, GoesOn
    <2>. QED  BY <2>2, <2>3
  <1>5. CASE Stop(o)
    <2>1. /\ Goto(o, "down", 1) /\ file' = file
          /\ lock \notin {NoOne, o} => work' = work
      BY <1>5 DEF Stop
    <2>. QED  BY <1>1, <2>1, NothingBehind, GoesOn
  <1>6. CASE Close(o)
    BY <1>1, <1>6, NothingBehind, GoesOn DEF Close
  <1>. QED  BY <1>2, <1>3, <1>4, <1>5, <1>6

\* Over a complete baseline, a schema that has what the file has has whole
\* tables.
LEMMA WholeOver ==
    ASSUME WholeTables(file), \A i \in 1 .. 18 : Exists(file, Baseline[i]),
           NEW w, Grows(file, w)
    PROVE  WholeTables(w)
  BY DEF WholeTables, Grows, TableNumbers

LEMMA MigrateGoesOn ==
    ASSUME PInv, IInv', NEW o \in Openers,
           \/ Begin(o) \/ SkipApplied(o) \/ AlterTable(o)
           \/ PostSQL(o) \/ RecordAndCommit(o)
    PROVE  PInv'
  <1>. DEFINE v == pc[o].step
              At1(phase) == [phase |-> phase, step |-> v]
  <1>1. /\ file \in Schema /\ work \in Schema /\ file.nulls = {} /\ WholeTables(file)
        /\ Grows(file, file) /\ Working(pc[o], file, work)
    BY SameGrows DEF PInv, IInv, Sound
  <1>2. /\ v \in 1 .. 16 /\ \A i \in 1 .. 18 : Exists(file, Baseline[i])
        /\ 1 .. v - 1 \subseteq file.applied
    <2>1. pc[o].phase \in {"begin"} \cup TxPhases
      BY DEF Begin, SkipApplied, AlterTable, PostSQL, RecordAndCommit, At, TxPhases
    <2>2. v \in Steps(pc[o].phase) /\ Done(file, pc[o])
      BY DEF PInv, IInv
    <2>. QED  BY <2>1, <2>2 DEF Steps, Done, TxPhases
  <1>3. \A phase \in {"begin"} \cup TxPhases : Done(file, At1(phase))
    BY <1>2 DEF Done, TxPhases
  <1>4. lock # o => pc[o].phase \notin TxPhases
    BY DEF PInv, IInv
  <1>5. CASE Begin(o)
    <2>1. /\ Goto(o, "alter", v) /\ lock = NoOne /\ work' = file /\ file' = file
      BY <1>5 DEF Begin, Free
    <2>2. Working(At1("alter"), file', work')
      BY <1>1, <2>1 DEF Working
    <2>. QED  BY <1>1, <1>3, <2>1, <2>2, GoesOn DEF TxPhases
  <1>6. CASE SkipApplied(o)
    <2>1. /\ pc[o].phase = "alter" /\ v \in work.applied /\ file' = file
          /\ Advance(o, "check", v, Migrations, "post")
      BY <1>6 DEF SkipApplied, At
    <2>2. 1 .. v \subseteq file.applied
      BY <1>1, <1>2, <2>1 DEF Working, Grows
    <2>3. PICK phase, step : /\ Goto(o, phase, step)
                             /\ Done(file, [phase |-> phase, step |-> step])
                             /\ Working([phase |-> phase, step |-> step], file, work')
      BY <1>2, <2>1, <2>2, AfterMigration
    <2>4. lock = o
      BY <1>4, <2>1 DEF TxPhases
    <2>. QED  BY <1>1, <2>1, <2>3, <2>4, GoesOn
  <1>7. CASE AlterTable(o)
    <2>1. /\ pc[o].phase = "alter" /\ file' = file /\ lock = o
          /\ Grows(file, work) /\ work.nulls = {}
      BY <1>1, <1>4, <1>7 DEF AlterTable, At, TxPhases, Working
    <2>2. CASE Present(work, v)
      <3>1. work' = work /\ Goto(o, "record", v)
        BY <1>7, <2>2 DEF AlterTable
      <3>2. Working(At1("record"), file', work')
        BY <1>1, <1>2, <2>1, <3>1, WholeOver DEF Working
      <3>. QED  BY <1>1, <1>3, <2>1, <3>1, <3>2, GoesOn DEF TxPhases
    <2>3. CASE ~Present(work, v)
      <3>1. work' = AddColumns(work, v) /\ Goto(o, "fill", v)
        BY <1>7, <2>3 DEF AlterTable
      <3>2. /\ work'.cols = work.cols \cup Migrations[v].adds
            /\ work'.nulls = work.nulls \cup Migrations[v].fills
            /\ work'.made = work.made /\ work'.applied = work.applied
        BY <1>1, <3>1 DEF AddColumns, Schema
      <3>3. Grows(file, work')
        BY <2>1, <3>2 DEF Grows
      <3>4. Working(At1("fill"), file', work')
        BY <1>1, <1>2, <2>1, <3>2, <3>3, WholeOver DEF Working
      <3>. QED  BY <1>1, <1>3, <2>1, <3>1, <3>4, GoesOn DEF TxPhases
    <2>. QED  BY <2>2, <2>3
  <1>8. CASE PostSQL(o)
    <2>1. /\ pc[o].phase = "fill" /\ file' = file /\ lock = o
          /\ Grows(file, work) /\ work.nulls \subseteq Migrations[v].fills
          /\ Goto(o, "record", v) /\ work' = Backfill(work, v)
      BY <1>1, <1>4, <1>8 DEF PostSQL, At, TxPhases, Working
    <2>2. /\ work'.cols = work.cols /\ work'.nulls = work.nulls \ Migrations[v].fills
          /\ work'.made = work.made /\ work'.applied = work.applied
      BY <1>1, <2>1 DEF Backfill, Schema
    <2>3. Grows(file, work') /\ work'.nulls = {}
      BY <2>1, <2>2 DEF Grows
    <2>4. Working(At1("record"), file', work')
      BY <1>1, <1>2, <2>1, <2>3, WholeOver DEF Working
    <2>. QED  BY <1>1, <1>3, <2>1, <2>4, GoesOn DEF TxPhases
  <1>9. CASE RecordAndCommit(o)
    <2>1. /\ pc[o].phase = "record" /\ lock = o /\ file' = Record(work, v)
          /\ Grows(file, work) /\ work.nulls = {} /\ WholeTables(work)
          /\ Advance(o, "check", v, Migrations, "post")
      BY <1>1, <1>4, <1>9 DEF RecordAndCommit, At, TxPhases, Working
    <2>2. /\ file'.cols = work.cols /\ file'.nulls = work.nulls
          /\ file'.made = work.made /\ file'.applied = work.applied \cup {v}
      BY <1>1, <2>1 DEF Record, Schema
    <2>3. Grows(file, file') /\ file'.nulls = {} /\ 1 .. v \subseteq file'.applied
      BY <1>2, <2>1, <2>2 DEF Grows
    <2>4. \A i \in 1 .. 18 : Exists(file', Baseline[i])
      BY <1>2, <2>3, ExistsStays
    <2>5. WholeTables(file')
      BY <1>1, <1>2, <2>3, WholeOver
    <2>6. PICK phase, step : /\ Goto(o, phase, step)
                             /\ Done(file', [phase |-> phase, step |-> step])
                             /\ Working([phase |-> phase, step |-> step], file', work')
      BY <1>2, <2>1, <2>3, <2>4, AfterMigration
    <2>. QED  BY <1>1, <2>1, <2>3, <2>5, <2>6, GoesOn
  <1>. QED  BY <1>5, <1>6, <1>7, <1>8, <1>9

LEMMA ProgressStep == PInv /\ [Next]_vars => PInv'
  <1>. SUFFICES ASSUME PInv, [Next]_vars PROVE PInv'
    OBVIOUS
  <1>1. IInv'
    BY InvStep DEF PInv
  <1>2. CASE UNCHANGED vars
    BY <1>1, <1>2 DEF PInv, vars, Working
  <1>3. ASSUME NEW o \in Openers, Start(o) \/ Step(o) \/ Stop(o) \/ Close(o)
        PROVE  PInv'
    BY <1>1, <1>3, OutsideGoesOn, ExecuteGoesOn, MigrateGoesOn DEF Step
  <1>. QED  BY <1>2, <1>3 DEF Next

\* A process that serves found every table, column, index and trigger, and no
\* timestamp missing, whichever release left the file, whoever opened it at
\* the same time and whoever was killed (InitSchema).
THEOREM ServingCorrect == Spec => []ServingIsComplete
  BY ProgressInit, ProgressStep, ServingComplete, PTL DEF Spec

===========================================================================
