--------------------------- MODULE TelemetryStore ---------------------------
(***************************************************************************)
(* Opening the telemetry database (InitIfEnabled, internal/telemetry): the  *)
(* server processes that share a telemetry file each create what is missing *)
(* and apply its migrations when they start.                                *)
(*                                                                          *)
(* A CREATE waits for the write lock, up to busy_timeout.  A migration is a *)
(* DEFERRED transaction, as the DSN has no _txlock: it reads first, from    *)
(* the state the file is in then, and asks for the write lock with its      *)
(* first write.  SQLite refuses that at once when another process holds the *)
(* lock or has committed since the read; the busy timeout is not consulted. *)
(***************************************************************************)
EXTENDS Integers, Sequences

CONSTANTS
    Openers         \* server processes

VARIABLES
    file,           \* the committed schema
    commits,        \* how often it has changed
    lock,           \* the holder of the write lock, in a set that is else empty
    work,           \* per opener: the schema its transaction sees
    read,           \* per opener: commits when it began to read
    at,             \* per opener: what it does next
    step            \* per opener: the object or the migration it is at

vars == <<file, commits, lock, work, read, at, step>>

\* schemaStatements, in their order; the three indexes count as one.
Objects == <<"schema_migrations", "tool_calls", "search_metrics", "indexes">>

\* telemetryMigrations: the table of the column that each version adds.
TableOf == <<"tool_calls", "tool_calls", "search_metrics">>
Migrations == 1..3

Schema == [made : SUBSET (1..4), cols : SUBSET Migrations,
           recorded : SUBSET Migrations]

\* A file of any release: new, or with the columns of the first n migrations,
\* which were recorded once there was a registry to record them in.
Files == {[made |-> {}, cols |-> {}, recorded |-> {}]} \cup
         {[made |-> 2..4, cols |-> 1..n, recorded |-> {}] : n \in 0..3} \cup
         {[made |-> 1..4, cols |-> 1..n, recorded |-> 1..n] : n \in 0..3}

Goto(p, where) == at' = [at EXCEPT ![p] = where]

\* Nobody holds the lock, and the file is what the transaction of p has read.
CanUpgrade(p) == lock = {} /\ commits = read[p]

---------------------------------------------------------------------------

\* The open, its ping and the pragmas.
Start(p) ==
    /\ at[p] = "idle"
    /\ Goto(p, "create")
    /\ UNCHANGED <<file, commits, lock, work, read, step>>

\* CREATE ... IF NOT EXISTS: a table comes with every column there is today.
\* The registry of versions is created once more before the migrations.
CreateObject(p) ==
    LET i == step[p]
    IN  /\ at[p] = "create"
        /\ i \notin file.made => lock = {}
        /\ IF i \in file.made
           THEN UNCHANGED <<file, commits>>
           ELSE /\ file' = [file EXCEPT
                              !.made = @ \cup {i},
                              !.cols = @ \cup {v \in Migrations : TableOf[v] = Objects[i]}]
                /\ commits' = commits + 1
        /\ IF i = Len(Objects)
           THEN Goto(p, "check") /\ step' = [step EXCEPT ![p] = 1]
           ELSE at' = at /\ step' = [step EXCEPT ![p] = i + 1]
        /\ UNCHANGED <<lock, work, read>>

\* BEGIN, and migrationApplied: the read that fixes what the transaction sees.
CheckApplied(p) ==
    /\ at[p] = "check"
    /\ work' = [work EXCEPT ![p] = file]
    /\ read' = [read EXCEPT ![p] = commits]
    /\ IF step[p] \notin file.recorded
       THEN /\ Goto(p, IF step[p] \in file.cols THEN "record" ELSE "alter")
            /\ step' = step
       ELSE /\ Goto(p, IF step[p] = 3 THEN "serving" ELSE "check")
            /\ step' = [step EXCEPT ![p] = @ + 1]
    /\ UNCHANGED <<file, commits, lock>>

\* The first write of the transaction.
AlterTable(p) ==
    /\ at[p] = "alter" /\ CanUpgrade(p)
    /\ lock' = {p}
    /\ work' = [work EXCEPT ![p].cols = @ \cup {step[p]}]
    /\ Goto(p, "record")
    /\ UNCHANGED <<file, commits, read, step>>

\* Its first write when the column was there already.
Record(p) ==
    /\ at[p] = "record" /\ (lock = {p} \/ CanUpgrade(p))
    /\ lock' = {p}
    /\ work' = [work EXCEPT ![p].recorded = @ \cup {step[p]}]
    /\ Goto(p, "commit")
    /\ UNCHANGED <<file, commits, read, step>>

CommitMigration(p) ==
    /\ at[p] = "commit"
    /\ file' = work[p]
    /\ commits' = commits + 1
    /\ lock' = {}
    /\ Goto(p, IF step[p] = 3 THEN "serving" ELSE "check")
    /\ step' = [step EXCEPT ![p] = @ + 1]
    /\ UNCHANGED <<work, read>>

\* SQLITE_BUSY without a wait: InitIfEnabled closes the file and returns nil,
\* and the session has no telemetry.
GiveUp(p) ==
    /\ at[p] \in {"alter", "record"} /\ lock # {p} /\ ~CanUpgrade(p)
    /\ Goto(p, "refused")
    /\ UNCHANGED <<file, commits, lock, work, read, step>>

\* Any other error, an exhausted busy timeout among them, and a kill.
Fail(p) ==
    /\ at[p] \notin {"idle", "serving", "refused", "failed"}
    /\ lock' = IF lock = {p} THEN {} ELSE lock
    /\ Goto(p, "failed")
    /\ UNCHANGED <<file, commits, work, read, step>>

---------------------------------------------------------------------------

Init ==
    /\ file \in Files
    /\ commits = 0
    /\ lock = {}
    /\ work = [p \in Openers |-> file]
    /\ read = [p \in Openers |-> 0]
    /\ at = [p \in Openers |-> "idle"]
    /\ step = [p \in Openers |-> 1]

Next ==
    \E p \in Openers :
        \/ Start(p) \/ CreateObject(p)
        \/ CheckApplied(p) \/ AlterTable(p) \/ Record(p) \/ CommitMigration(p)
        \/ GiveUp(p) \/ Fail(p)

Spec == Init /\ [][Next]_vars

---------------------------------------------------------------------------

\* A statement of one opener that meets another's lock waits for it: nobody
\* loses telemetry to an opener that is merely ahead.
ContentionIsWaitedOut == \A p \in Openers : at[p] # "refused"

\* Whatever happens meanwhile, a version that is recorded has its column, and
\* who serves has everything.
RecordedIsPresent ==
    /\ file.recorded \subseteq file.cols
    /\ \A p \in Openers :
          at[p] = "serving" => file.cols = Migrations /\ file.recorded = Migrations

=============================================================================
