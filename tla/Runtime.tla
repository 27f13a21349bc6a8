------------------------------ MODULE Runtime ------------------------------
(***************************************************************************)
(* One MCP server process, from New to the end of Close                     *)
(* (internal/mcpserver, with the telemetry client of internal/telemetry).   *)
(* Each tool call runs on a goroutine of its own, Main on the one of Run,   *)
(* whose deferred Close takes the default database, the telemetry client    *)
(* and the project handles (ProjectCache) from under the calls that are     *)
(* still in flight.                                                         *)
(*                                                                          *)
(* Every database has one connection (SetMaxOpenConns(1)): a statement or a *)
(* transaction holds it and all others wait.  Closing an *sql.DB waits for  *)
(* nobody: whoever holds the connection goes on, the next one is refused.   *)
(* What a call does to its tables is the business of MemoryServer.          *)
(***************************************************************************)
EXTENDS ProjectCache

CONSTANTS
    Main,           \* the goroutine of Run and Close
    Asks,           \* what the calls of each handler may be for
    DefaultDB,      \* the global database
    NoOne

Handlers == Calls \ {Main}

ASSUME MainAssumption == Main \in Calls
ASSUME DefaultAssumption == DefaultDB \notin Handles \cup {NoHandle}
ASSUME AsksAssumption == Asks \in [Handlers -> SUBSET (Keys \cup {NoKey})]
ASSUME NoOneAssumption == NoOne \notin Calls

VARIABLES
    main,       \* where Main is
    default,    \* r.defaultDB: set, set and closed, or nil
    tele,       \* r.telemetry is not nil
    client,     \* the telemetry client: not closed yet, degraded
    mu,         \* who holds its mutex
    conn,       \* who holds the connection of each database
    call,       \* per handler: where it is
    late        \* some call was in flight when Run returned

vars == <<cacheVars, main, default, tele, client, mu, conn, call, late>>

Databases == Handles \cup {DefaultDB}

NoCall == [pc |-> "idle", key |-> NoKey, tele |-> FALSE, row |-> FALSE]

At(c, pc) == call[c].pc = pc
Goto(c, pc) == call' = [call EXCEPT ![c].pc = pc]

\* Nothing runs any more.
Down == main \in {"failed", "exited", "crashed"}

\* The database a call works on.
DatabaseOf(c) == IF call[c].key = NoKey THEN DefaultDB ELSE lease[c].handle

\* A statement on it is refused once it is closed.
Accepts(d) == IF d = DefaultDB THEN default = "open" ELSE d \in open

---------------------------------------------------------------------------
(* New, Run and Close.                                                      *)

\* New installs the policy and opens the global database.
Start(m) ==
    /\ main = "starting"
    /\ Configure(Main, m)
    /\ main' = "serving"
    /\ default' = "open"
    /\ UNCHANGED <<tele, client, mu, conn, call, late>>

\* New fails; runMCP closes the client, which is still its own.
StartFails ==
    /\ main = "starting"
    /\ main' = "failed"
    /\ client' = [client EXCEPT !.open = FALSE]
    /\ UNCHANGED <<cacheVars, default, tele, mu, conn, call, late>>

\* The client hung up or a signal came.  External: the SDK's Run may return
\* with calls in flight, as the comments on Close assume.
RunReturns ==
    /\ main = "serving"
    /\ main' = "close default"
    /\ late' = (\E c \in Handlers : ~At(c, "idle"))
    /\ UNCHANGED <<cacheVars, default, tele, client, mu, conn, call>>

CloseDefault ==
    /\ main = "close default"
    /\ main' = "drop default"
    /\ default' = "closed"
    /\ UNCHANGED <<cacheVars, tele, client, mu, conn, call, late>>

DropDefault ==
    /\ main = "drop default"
    /\ main' = "swap"
    /\ default' = "nil"
    /\ UNCHANGED <<cacheVars, tele, client, mu, conn, call, late>>

\* Mutant: the pointer is cleared and the client forgotten.
SwapTelemetryDropping ==
    /\ main = "swap"
    /\ main' = "reset"
    /\ tele' = FALSE
    /\ UNCHANGED <<cacheVars, default, client, mu, conn, call, late>>

\* r.telemetry.Swap(nil)
SwapTelemetry ==
    /\ main = "swap"
    /\ main' = IF tele THEN "close client" ELSE "reset"
    /\ tele' = FALSE
    /\ UNCHANGED <<cacheVars, default, client, mu, conn, call, late>>

\* Mutant: Close does not take the mutex.
CloseClientUnlocked ==
    /\ main = "close client"
    /\ main' = "reset"
    /\ client' = [client EXCEPT !.open = FALSE]
    /\ UNCHANGED <<cacheVars, default, tele, mu, conn, call, late>>

\* Client.Close, whole under its mutex.
CloseClient ==
    /\ main = "close client" /\ mu = NoOne
    /\ main' = "reset"
    /\ client' = [client EXCEPT !.open = FALSE]
    /\ UNCHANGED <<cacheVars, default, tele, mu, conn, call, late>>

ResetProjects ==
    /\ main = "reset"
    /\ Reset(Main)
    /\ main' = "resetting"
    /\ UNCHANGED <<default, tele, client, mu, conn, call, late>>

\* The checkpoint before the close needs the connection; who closes a handle
\* waits for a transaction on it.
CloseOne(c, h) ==
    /\ ~Down
    /\ conn[h] = NoOne
    /\ CloseHandle(c, h)
    /\ UNCHANGED <<main, default, tele, client, mu, conn, call, late>>

CloseReturns ==
    /\ main = "resetting" /\ closing[Main] = {}
    /\ main' = "closed"
    /\ UNCHANGED <<cacheVars, default, tele, client, mu, conn, call, late>>

\* The process ends, whatever its other goroutines do.
Exit ==
    /\ main = "closed"
    /\ main' = "exited"
    /\ UNCHANGED <<cacheVars, default, tele, client, mu, conn, call, late>>

---------------------------------------------------------------------------
(* A tool call.                                                             *)

\* handleTool loads the telemetry pointer, once.
Begin(c, k) ==
    /\ main = "serving" /\ At(c, "idle")
    /\ call' = [call EXCEPT ![c] = [pc |-> "begun", key |-> k, tele |-> tele,
                                    row |-> FALSE]]
    /\ UNCHANGED <<cacheVars, main, default, tele, client, mu, conn, late>>

\* Bad arguments, a disabled scope, a project that cannot be opened.
Refuse(c) ==
    /\ ~Down /\ At(c, "begun")
    /\ Goto(c, "answered")
    /\ UNCHANGED <<cacheVars, main, default, tele, client, mu, conn, late>>

\* The argument r.defaultDB is read here, without synchronization: a global
\* call has the pointer by now or, when Close has dropped it, nil.
BindDefault(c) ==
    /\ ~Down /\ At(c, "begun") /\ call[c].key = NoKey
    /\ Goto(c, IF default = "nil" THEN "nil" ELSE "working")
    /\ UNCHANGED <<cacheVars, main, default, tele, client, mu, conn, late>>

\* The first statement on a nil *sql.DB panics, and nothing recovers.
Panic(c) ==
    /\ ~Down /\ At(c, "nil")
    /\ main' = "crashed"
    /\ UNCHANGED <<cacheVars, default, tele, client, mu, conn, call, late>>

\* AcquireDB for a project; each is one section of projectDBMu.
ReachRegistry(c) ==
    /\ ~Down /\ At(c, "begun") /\ call[c].key # NoKey
    /\ OpenRegistry(c)
    /\ UNCHANGED <<main, default, tele, client, mu, conn, call, late>>

Acquire(c) ==
    /\ ~Down /\ At(c, "begun") /\ call[c].key # NoKey
    /\ \/ AcquireHit(c, call[c].key)
       \/ AcquireOpen(c, call[c].key)
    /\ Goto(c, "working")
    /\ UNCHANGED <<main, default, tele, client, mu, conn, late>>

\* A statement or a transaction: it takes the connection, waiting for whoever
\* holds it, unless the database is closed.
TakeConn(c) ==
    LET d == DatabaseOf(c)
    IN  /\ ~Down /\ At(c, "working") /\ closing[c] = {}
        /\ conn[d] = NoOne /\ Accepts(d)
        /\ conn' = [conn EXCEPT ![d] = c]
        /\ Goto(c, "inside")
        /\ UNCHANGED <<cacheVars, main, default, tele, client, mu, late>>

\* Mutant: a helper inside the transaction is given the database, so that it
\* asks for a second connection.
LeaveConnNested(c, next) ==
    LET d == DatabaseOf(c)
    IN  /\ ~Down /\ At(c, "inside")
        /\ conn[d] = NoOne
        /\ conn' = [conn EXCEPT ![d] = NoOne]
        /\ Goto(c, next)
        /\ UNCHANGED <<cacheVars, main, default, tele, client, mu, late>>

\* Every helper inside a transaction works on the transaction: the call gives
\* its connection back before it asks for one again, if it does.
LeaveConn(c, next) ==
    LET d == DatabaseOf(c)
    IN  /\ ~Down /\ At(c, "inside")
        /\ conn' = [conn EXCEPT ![d] = NoOne]
        /\ Goto(c, next)
        /\ UNCHANGED <<cacheVars, main, default, tele, client, mu, late>>

\* The work is done, or a statement was refused: dispatchTool returns and its
\* deferred release runs.
Finish(c) ==
    /\ ~Down /\ closing[c] = {}
    /\ \/ At(c, "finished")
       \/ At(c, "working") /\ ~Accepts(DatabaseOf(c))
    /\ IF call[c].key = NoKey THEN UNCHANGED cacheVars ELSE Release(c)
    /\ Goto(c, "answered")
    /\ UNCHANGED <<main, default, tele, client, mu, conn, late>>

\* The deferred logging, under the client's mutex; a client that is closed or
\* degraded takes nothing.  LogSearchMetrics, which only a recall whose row
\* was inserted reaches, is the same again.
LockClient(c) ==
    /\ ~Down /\ At(c, "answered") /\ closing[c] = {}
    /\ call[c].tele /\ mu = NoOne
    /\ client.open /\ ~client.degraded
    /\ mu' = c
    /\ Goto(c, "inserting")
    /\ UNCHANGED <<cacheVars, main, default, tele, client, conn, late>>

\* Mutant: the lock is not released when the insert fails.
InsertFailsLocked(c) ==
    /\ ~Down /\ At(c, "inserting")
    /\ client' = [client EXCEPT !.degraded = TRUE]
    /\ call' = [call EXCEPT ![c] = NoCall]
    /\ UNCHANGED <<cacheVars, main, default, tele, mu, conn, late>>

\* The first failed insert degrades the client for the session.
InsertFails(c) ==
    /\ ~Down /\ At(c, "inserting")
    /\ client' = [client EXCEPT !.degraded = TRUE]
    /\ mu' = NoOne
    /\ call' = [call EXCEPT ![c] = NoCall]
    /\ UNCHANGED <<cacheVars, main, default, tele, conn, late>>

\* The tool_calls row; then, for a recall, its search_metrics row.
Insert(c) ==
    /\ ~Down /\ At(c, "inserting")
    /\ mu' = NoOne
    /\ \/ call' = [call EXCEPT ![c] = NoCall]
       \/ /\ ~call[c].row
          /\ call' = [call EXCEPT ![c].pc = "answered", ![c].row = TRUE]
    /\ UNCHANGED <<cacheVars, main, default, tele, client, conn, late>>

\* Nothing to log, or nowhere to log it.
Return(c) ==
    /\ ~Down /\ At(c, "answered") /\ closing[c] = {}
    /\ call[c].tele => /\ mu = NoOne
                       /\ ~client.open \/ client.degraded
    /\ call' = [call EXCEPT ![c] = NoCall]
    /\ UNCHANGED <<cacheVars, main, default, tele, client, mu, conn, late>>

---------------------------------------------------------------------------

\* Telemetry is off, or its database was opened before (TelemetryStore).
Init ==
    /\ CacheInit
    /\ main = "starting"
    /\ default = "nil"
    /\ tele \in BOOLEAN
    /\ client = [open |-> tele, degraded |-> FALSE]
    /\ mu = NoOne
    /\ conn = [d \in Databases |-> NoOne]
    /\ call = [c \in Handlers |-> NoCall]
    /\ late = FALSE

MainStep ==
    \/ \E m \in Modes : Start(m)
    \/ StartFails
    \/ CloseDefault \/ DropDefault \/ SwapTelemetry \/ CloseClient
    \/ ResetProjects \/ CloseReturns \/ Exit
    \/ \E h \in Handles : CloseOne(Main, h)

\* What a call does once it has begun.
HandlerStep(c) ==
    \/ Refuse(c) \/ BindDefault(c) \/ Panic(c)
    \/ ReachRegistry(c) \/ Acquire(c)
    \/ TakeConn(c) \/ LeaveConn(c, "working") \/ LeaveConn(c, "finished")
    \/ Finish(c)
    \/ \E h \in Handles : CloseOne(c, h)
    \/ LockClient(c) \/ InsertFails(c) \/ Insert(c) \/ Return(c)

Next ==
    \/ MainStep
    \/ RunReturns
    \/ \E c \in Handlers :
          \/ \E k \in Asks[c] : Begin(c, k)
          \/ HandlerStep(c)

\* Who can go on does.  A returned connection is handed to one of the waiters
\* at random and sync.Mutex starves nobody, so whoever waits for one gets its
\* turn although others take it in between; and a tool has a last statement.
Fairness ==
    /\ SF_vars(MainStep)
    /\ \A c \in Handlers :
          SF_vars(HandlerStep(c)) /\ SF_vars(LeaveConn(c, "finished"))

Spec == Init /\ [][Next]_vars /\ Fairness

---------------------------------------------------------------------------

\* Where everybody is; who is inside a statement holds the connection of its
\* database, who inserts holds the telemetry mutex, and nobody else does.
TypeOK ==
    /\ CacheTypeOK
    /\ main \in {"starting", "serving", "close default", "drop default", "swap",
                 "close client", "reset", "resetting", "closed"}
               \cup {"failed", "exited", "crashed"}
    /\ default \in {"open", "closed", "nil"}
    /\ tele \in BOOLEAN /\ late \in BOOLEAN
    /\ client \in [open : BOOLEAN, degraded : BOOLEAN]
    /\ call \in [Handlers -> [pc : {"idle", "begun", "nil", "working", "inside",
                                    "finished", "answered", "inserting"},
                              key : Keys \cup {NoKey}, tele : BOOLEAN,
                              row : BOOLEAN]]
    /\ \A c \in Handlers : At(c, "inserting") <=> mu = c
    /\ mu \in Handlers \cup {NoOne}
    /\ conn \in [Databases -> Handlers \cup {NoOne}]
    /\ \A c \in Handlers, d \in Databases :
          conn[d] = c <=> (At(c, "inside") /\ DatabaseOf(c) = d)

\* No insert runs on a telemetry database that is closed, whenever the client
\* is closed beside the calls that captured it.
ClosedClientIsSilent ==
    \A c \in Handlers : At(c, "inserting") => client.open

\* A shutdown that finds no call in flight leaves nothing open, and neither
\* does a start that fails.
ShutdownClosesAll ==
    (main \in {"closed", "exited", "failed"} /\ ~late) =>
        /\ open = {}
        /\ default # "open"
        /\ ~client.open

\* Close ends, whatever transactions and log entries it has to wait for.  A call
\* that waited for itself, or kept a lock, would hold it up for ever.
ShutdownEnds == main = "close default" ~> Down

===========================================================================
