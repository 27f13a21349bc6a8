-------------------------- MODULE ProjectRegistry --------------------------
(***************************************************************************)
(* One central project store (internal/store/projectstore.go), shared by    *)
(* MCP server processes and by the `workmem project' commands.  All they    *)
(* share is the file system: registry.db, one directory per registry id     *)
(* with its memory.db, and discarded/.  Every statement on the registry is  *)
(* a transaction of its own; only `project move' holds one open, and with   *)
(* it the registry's write lock, across file operations.  Each look at a    *)
(* directory and each change of one is a step; the statements of InitDB are *)
(* one (SchemaMigration has them).  A process may be killed between any two *)
(* steps.                                                                   *)
(*                                                                          *)
(* A path is a canonical project path.  Legacy databases and path spelling  *)
(* are left out.  A store's content is abstracted to whether it has rows.   *)
(***************************************************************************)
EXTENDS Integers, FiniteSets

CONSTANTS
    Paths,      \* canonical project paths
    Servers,    \* MCP server processes
    Commands,   \* `workmem project' processes
    MaxIds,     \* bound: registry ids ever generated
    MaxCalls,   \* bound: calls in progress per server
    Crews,      \* bound: the processes of one history, its ids, and the
                \* root it starts on
    NoPath,
    NoOne

ASSUME BoundsAssumption == MaxIds \in Nat /\ MaxCalls \in Nat
ASSUME NoValuesAssumption ==
    NoPath \notin Paths /\ NoOne \notin Commands

VARIABLES
    crew,       \* the processes of this history; it never changes
    root,       \* what the processes share on disk
    lock,       \* the command whose transaction holds the registry
    acq,        \* per server: the acquisition running under projectDBMu
    handle,     \* per server and id: the file its cached handle has open
    leases,     \* per server: paths and ids of the calls in progress
    cmd         \* per command: where it is

vars == <<crew, root, lock, acq, handle, leases, cmd>>

Ids  == 1 .. MaxIds
NoId == 0

\* A store's directory: absent, without memory.db, or with one that is a copy
\* not yet migrated and checked, has no rows, or holds memory.
Content == {"none", "bare", "partial", "empty", "memory"}

HasFile(content) == content \notin {"none", "bare"}

\* A deleted row is kept without its path: a property can tell an id that was
\* registered once from one that never was.
Record == [id : Ids, path : Paths \cup {NoPath}, init : BOOLEAN]

\* registry.db is `records' when `exists'; store and archive are the
\* directories <root>/<id> and <root>/discarded/<id>-<time>.
Root == [exists  : BOOLEAN,
         records : SUBSET Record,
         store   : [Ids -> Content],
         archive : [Ids -> Content],
         issued  : 0 .. MaxIds]

EmptyRoot == [exists |-> FALSE, records |-> {},
              store |-> [i \in Ids |-> "none"],
              archive |-> [i \in Ids |-> "none"], issued |-> 0]

ASSUME CrewsAssumption ==
    Crews \subseteq [servers : SUBSET Servers, commands : SUBSET Commands,
                     ids : 0 .. MaxIds, root : Root]

\* A root that no process is at work on: entries are unique, a registered
\* store is whole, one that was initialized is there or archived, and what
\* has been generated is counted.
AtRest(d) ==
    /\ \A r, q \in d.records :
          r.id = q.id \/ (r.path = q.path /\ q.path # NoPath) => r = q
    /\ \A r \in d.records :
          /\ r.id <= d.issued
          /\ d.store[r.id] # "partial"
          /\ r.init => HasFile(d.store[r.id]) \/ HasFile(d.archive[r.id])
    /\ \A i \in Ids : d.archive[i] # "partial"
    /\ \A i \in Ids : i > d.issued => d.store[i] = "none"

ASSUME RootsAssumption == \A c \in Crews : AtRest(c.root)

At(p) == {r \in root.records : r.path = p}
Registered(i) == \E r \in root.records : r.id = i /\ r.path # NoPath
StoreDirs == {i \in Ids : HasFile(root.store[i])}

\* openOrCreateProjectRegistry: refuses to start a registry beside stores.
CanOpenOrCreate == root.exists \/ StoreDirs = {}

\* `moved': a command renamed the directory since this acquisition found the
\* file in it.
NoAcq == [pc |-> "idle", path |-> NoPath, id |-> NoId, init |-> FALSE,
          moved |-> FALSE]
NoCmd == [pc |-> "idle", from |-> NoPath, to |-> NoPath, id |-> NoId,
          gone |-> NoId]

\* The handle a server keeps on an id: closed, on the store's file, or on a
\* file that has been archived under it since.
HandleState == {"closed", "store", "archive"}

Free == lock = NoOne

---------------------------------------------------------------------------
(* A server serves a tool call: AcquireDB, the call, release.  projectDBMu  *)
(* admits one acquisition at a time.                                        *)

\* LookupProject, on every call.
Lookup(s, p) ==
    /\ acq[s].pc = "idle"
    /\ Cardinality(leases[s]) < MaxCalls
    /\ CanOpenOrCreate
    /\ root' = [root EXCEPT !.exists = TRUE]
    /\ acq' = [acq EXCEPT ![s] =
                 IF At(p) = {} THEN [NoAcq EXCEPT !.pc = "register", !.path = p]
                 ELSE LET r == CHOOSE r \in At(p) : TRUE
                      IN  [pc |-> "resolved", path |-> p, id |-> r.id,
                           init |-> r.init, moved |-> FALSE]]
    /\ UNCHANGED <<lock, handle, leases, cmd>>

\* Mutant: the server uses the id it generated, whoever won the path.
RegisterOwn(s) ==
    LET p == acq[s].path
        i == root.issued + 1
    IN  /\ acq[s].pc = "register" /\ Free
        /\ i <= crew.ids
        /\ root' = [root EXCEPT
                      !.issued = i,
                      !.records = IF At(p) = {}
                                  THEN @ \cup {[id |-> i, path |-> p, init |-> FALSE]}
                                  ELSE @]
        /\ acq' = [acq EXCEPT ![s] = [NoAcq EXCEPT !.pc = "resolved",
                                                   !.path = p, !.id = i]]
        /\ UNCHANGED <<lock, handle, leases, cmd>>

\* Mutant: the path is not UNIQUE.
RegisterAnyway(s) ==
    LET i == root.issued + 1
    IN  /\ acq[s].pc = "register" /\ Free
        /\ i <= crew.ids
        /\ root' = [root EXCEPT
                      !.issued = i,
                      !.records = @ \cup {[id |-> i, path |-> acq[s].path,
                                           init |-> FALSE]}]
        /\ acq' = [acq EXCEPT ![s].pc = "converge"]
        /\ UNCHANGED <<lock, handle, leases, cmd>>

\* Mutant: the record is marked initialized before there is a store.
RegisterInitialized(s) ==
    LET p == acq[s].path
        i == root.issued + 1
    IN  /\ acq[s].pc = "register" /\ Free
        /\ IF At(p) # {} THEN UNCHANGED root
           ELSE /\ i <= crew.ids
                /\ root' = [root EXCEPT
                              !.issued = i,
                              !.records = @ \cup {[id |-> i, path |-> p,
                                                   init |-> TRUE]}]
        /\ acq' = [acq EXCEPT ![s].pc = "converge"]
        /\ UNCHANGED <<lock, handle, leases, cmd>>

\* registerProject: INSERT ... ON CONFLICT(canonical_path) DO NOTHING; an
\* id generated in vain is not counted.
Register(s) ==
    LET p == acq[s].path
        i == root.issued + 1
    IN  /\ acq[s].pc = "register" /\ Free
        /\ IF At(p) # {} THEN UNCHANGED root
           ELSE /\ i <= crew.ids
                /\ root' = [root EXCEPT
                              !.issued = i,
                              !.records = @ \cup {[id |-> i, path |-> p,
                                                   init |-> FALSE]}]
        /\ acq' = [acq EXCEPT ![s].pc = "converge"]
        /\ UNCHANGED <<lock, handle, leases, cmd>>

\* ... then the row that won is looked up, in a statement of its own.
Converge(s) ==
    /\ acq[s].pc = "converge"
    /\ acq' = [acq EXCEPT ![s] =
                 IF At(@.path) = {} THEN NoAcq
                 ELSE LET r == CHOOSE r \in At(@.path) : TRUE
                      IN  [@ EXCEPT !.pc = "resolved", !.id = r.id,
                                    !.init = r.init]]
    /\ UNCHANGED <<root, lock, handle, leases, cmd>>

Lease(s) == leases' = [leases EXCEPT
                         ![s] = @ \cup {<<acq[s].path, acq[s].id>>}]

CacheHit(s) ==
    /\ acq[s].pc = "resolved"
    /\ handle[s][acq[s].id] # "closed"
    /\ Lease(s)
    /\ acq' = [acq EXCEPT ![s] = NoAcq]
    /\ UNCHANGED <<root, lock, handle, cmd>>

\* The new handle is cached; idle ones are evicted.  Bound: the cache holds
\* one handle and those in use (PROJECT_DB_CACHE_MAX = 1, see ProjectCache).
Cache(s, i) ==
    handle' = [handle EXCEPT ![s] = [j \in Ids |->
                  CASE j = i -> "store"
                    [] j # i /\ (\E l \in leases[s] : l[2] = j) -> @[j]
                    [] OTHER -> "closed"]]

\* Mutant: an initialized record's file is not looked for.
StatNothing(s) ==
    /\ acq[s].pc = "resolved"
    /\ handle[s][acq[s].id] = "closed"
    /\ acq' = [acq EXCEPT ![s].pc = "found"]
    /\ UNCHANGED <<root, lock, handle, leases, cmd>>

\* openCentralProjectDBLocked opens what is not cached.  An initialized record
\* whose file is missing is an error; an uninitialized one gets its file now.
StatStore(s) ==
    /\ acq[s].pc = "resolved"
    /\ handle[s][acq[s].id] = "closed"
    /\ acq[s].init => HasFile(root.store[acq[s].id])
    /\ acq' = [acq EXCEPT ![s].pc = "found"]
    /\ UNCHANGED <<root, lock, handle, leases, cmd>>

\* ensurePrivateDir, whatever was found.
MakeStoreDir(s) ==
    /\ acq[s].pc = "found"
    /\ root' = [root EXCEPT !.store[acq[s].id] = IF @ = "none" THEN "bare" ELSE @]
    /\ acq' = [acq EXCEPT ![s].pc = "made"]
    /\ UNCHANGED <<lock, handle, leases, cmd>>

\* InitDB creates memory.db when there is none, and migrates what there is.
Opened(content) == IF content = "memory" THEN "memory" ELSE "empty"

\* InitDB makes no directory: it fails when the store's is gone again.
Open(s) ==
    LET i == acq[s].id
    IN  /\ acq[s].pc = "made"
        /\ root.store[i] # "none"
        /\ root' = [root EXCEPT !.store[i] = Opened(@)]
        /\ Cache(s, i)
        /\ IF acq[s].init
           THEN Lease(s) /\ acq' = [acq EXCEPT ![s] = NoAcq]
           ELSE acq' = [acq EXCEPT ![s].pc = "opened"] /\ UNCHANGED leases
        /\ UNCHANGED <<lock, cmd>>

\* markProjectInitialized, then the handle is cached and leased.
MarkInitialized(s) ==
    /\ acq[s].pc = "opened" /\ Free
    /\ root' = [root EXCEPT !.records =
                  {IF r.id = acq[s].id /\ r.path # NoPath
                   THEN [r EXCEPT !.init = TRUE] ELSE r : r \in @}]
    /\ Lease(s)
    /\ acq' = [acq EXCEPT ![s] = NoAcq]
    /\ UNCHANGED <<lock, handle, cmd>>

\* Any error return: the registry stayed locked past the busy timeout, the
\* file is missing, InitDB failed.  A handle just opened is closed again.
FailAcquire(s) ==
    /\ acq[s].pc # "idle"
    /\ handle' = IF acq[s].pc = "opened"
                 THEN [handle EXCEPT ![s][acq[s].id] = "closed"] ELSE handle
    /\ acq' = [acq EXCEPT ![s] = NoAcq]
    /\ UNCHANGED <<root, lock, leases, cmd>>

\* A call stores something, in whatever file its handle has open.
Write(s, l) ==
    /\ l \in leases[s]
    /\ root' = IF handle[s][l[2]] = "archive"
               THEN [root EXCEPT !.archive[l[2]] = "memory"]
               ELSE [root EXCEPT !.store[l[2]] = "memory"]
    /\ UNCHANGED <<lock, acq, handle, leases, cmd>>

Release(s, l) ==
    /\ l \in leases[s]
    /\ leases' = [leases EXCEPT ![s] = @ \ {l}]
    /\ UNCHANGED <<root, lock, acq, handle, cmd>>

\* The server exits, or is killed, and starts again.
Restart(s) ==
    /\ acq' = [acq EXCEPT ![s] = NoAcq]
    /\ handle' = [handle EXCEPT ![s] = [i \in Ids |-> "closed"]]
    /\ leases' = [leases EXCEPT ![s] = {}]
    /\ UNCHANGED <<root, lock, cmd>>

---------------------------------------------------------------------------
(* project move [-replace-empty] <from> <to>                               *)

\* The record at the old path; the registry is never created here.
MoveLookup(c, from, to) ==
    /\ cmd[c].pc = "idle"
    /\ root.exists
    /\ from # to
    /\ \E r \in At(from) :
          cmd' = [cmd EXCEPT ![c] = [NoCmd EXCEPT !.pc = "move", !.from = from,
                                                  !.to = to, !.id = r.id]]
    /\ UNCHANGED <<root, lock, acq, handle, leases>>

\* projectStoreIsEmpty: a missing file is empty only when the record was
\* never initialized.
StoreIsEmpty(r) ==
    \/ root.store[r.id] = "empty"
    \/ ~HasFile(root.store[r.id]) /\ ~r.init

\* The destination, read before any transaction: free, or registered for a
\* store that is empty, which -replace-empty will then discard.
MoveCheck(c) ==
    /\ cmd[c].pc = "move"
    /\ \A r \in At(cmd[c].to) : StoreIsEmpty(r)
    /\ cmd' = [cmd EXCEPT ![c].pc = "checked",
                          ![c].gone = IF At(cmd[c].to) = {} THEN NoId
                                      ELSE (CHOOSE r \in At(cmd[c].to) : TRUE).id]
    /\ UNCHANGED <<root, lock, acq, handle, leases>>

\* BEGIN IMMEDIATE; DELETE of the discarded record, UPDATE of the moved one.
\* Nobody sees the two until the commit.  The UPDATE fails when the path has
\* been registered for another id since.
MoveBegin(c) ==
    /\ cmd[c].pc = "checked" /\ Free
    /\ \A r \in At(cmd[c].to) : r.id \in {cmd[c].gone, cmd[c].id}
    /\ lock' = c
    /\ cmd' = [cmd EXCEPT ![c].pc = "begun"]
    /\ UNCHANGED <<root, acq, handle, leases>>

\* Server handles on id i follow the file into the archive.
Follow(i) == [s \in Servers |->
                [handle[s] EXCEPT ![i] = IF @ = "store" THEN "archive" ELSE @]]

\* Servers that found a file in the directory of id i have lost it.
Moved(i) == [s \in Servers |->
               IF acq[s].id = i /\ acq[s].pc \in {"found", "made"}
               THEN [acq[s] EXCEPT !.moved = TRUE] ELSE acq[s]]

\* Bound: one archived directory per id is modelled.  A second one takes a
\* command killed after its rename and a server that recreates the directory.
ArchiveRoom(i) == i # NoId => root.archive[i] = "none"

\* The rename into discarded/, inside the transaction; a directory that was
\* never created is no error.
MoveArchive(c) ==
    LET i == cmd[c].gone
    IN  /\ cmd[c].pc = "begun"
        /\ ArchiveRoom(i)
        /\ IF i = NoId \/ root.store[i] = "none"
           THEN UNCHANGED <<root, handle, acq>>
           ELSE /\ root' = [root EXCEPT !.archive[i] = root.store[i],
                                        !.store[i] = "none"]
                /\ handle' = Follow(i)
                /\ acq' = Moved(i)
        /\ cmd' = [cmd EXCEPT ![c].pc = "archived"]
        /\ UNCHANGED <<lock, leases>>

\* The UPDATE is by id: it finds no row when the moved record was itself
\* discarded by another command.
MoveCommit(c) ==
    LET m == cmd[c]
    IN  /\ m.pc = "archived"
        /\ root' = [root EXCEPT !.records =
                      {CASE r.id = m.gone -> [r EXCEPT !.path = NoPath]
                         [] r.id = m.id /\ r.id # m.gone /\ r.path # NoPath ->
                               [r EXCEPT !.path = m.to]
                         [] OTHER -> r : r \in @}]
        /\ lock' = NoOne
        /\ cmd' = [cmd EXCEPT ![c] = NoCmd]
        /\ UNCHANGED <<acq, handle, leases>>

\* A commit that fails renames the archived store back, unless a directory
\* has appeared in its place.
MoveRollback(c) ==
    LET i == cmd[c].gone
    IN  /\ cmd[c].pc = "archived"
        /\ lock' = NoOne
        /\ IF i # NoId /\ root.archive[i] # "none" /\ root.store[i] = "none"
           THEN /\ root' = [root EXCEPT !.store[i] = root.archive[i],
                                        !.archive[i] = "none"]
                /\ handle' = [s \in Servers |->
                      [handle[s] EXCEPT ![i] = IF @ = "archive" THEN "store"
                                                                ELSE @]]
           ELSE UNCHANGED <<root, handle>>
        /\ cmd' = [cmd EXCEPT ![c] = NoCmd]
        /\ UNCHANGED <<acq, leases>>

---------------------------------------------------------------------------
(* project import -from <db> -path <to>                                    *)

\* The registry, the path, and Mkdir of the new id's directory.
ImportStart(c, p) ==
    LET i == root.issued + 1
    IN  /\ cmd[c].pc = "idle"
        /\ CanOpenOrCreate
        /\ At(p) = {}
        /\ i <= crew.ids
        /\ root' = [root EXCEPT !.exists = TRUE, !.issued = i,
                                !.store[i] = "bare"]
        /\ cmd' = [cmd EXCEPT ![c] = [NoCmd EXCEPT !.pc = "import", !.to = p,
                                                   !.id = i]]
        /\ UNCHANGED <<lock, acq, handle, leases>>

\* VACUUM INTO.
ImportCopy(c) ==
    /\ cmd[c].pc = "import"
    /\ root' = [root EXCEPT !.store[cmd[c].id] = "partial"]
    /\ cmd' = [cmd EXCEPT ![c].pc = "copied"]
    /\ UNCHANGED <<lock, acq, handle, leases>>

\* InitDB migrates the copy and integrity_check accepts it.
ImportMigrate(c) ==
    /\ cmd[c].pc = "copied"
    /\ \E content \in {"empty", "memory"} :
          root' = [root EXCEPT !.store[cmd[c].id] = content]
    /\ cmd' = [cmd EXCEPT ![c].pc = "checked-copy"]
    /\ UNCHANGED <<lock, acq, handle, leases>>

\* Mutant: the copy is registered before it is migrated and checked.
ImportRegisterEarly(c) ==
    /\ cmd[c].pc \in {"copied", "checked-copy"} /\ Free
    /\ At(cmd[c].to) = {}
    /\ root' = [root EXCEPT !.records = @ \cup
                   {[id |-> cmd[c].id, path |-> cmd[c].to, init |-> TRUE]}]
    /\ cmd' = [cmd EXCEPT ![c] = NoCmd]
    /\ UNCHANGED <<lock, acq, handle, leases>>

ImportRegister(c) ==
    /\ cmd[c].pc = "checked-copy" /\ Free
    /\ At(cmd[c].to) = {}
    /\ root' = [root EXCEPT !.records = @ \cup
                   {[id |-> cmd[c].id, path |-> cmd[c].to, init |-> TRUE]}]
    /\ cmd' = [cmd EXCEPT ![c] = NoCmd]
    /\ UNCHANGED <<lock, acq, handle, leases>>

\* Mutant: the clean-up removes the store registered for the path.
ImportFailWinner(c) ==
    /\ cmd[c].pc \in {"import", "copied", "checked-copy"}
    /\ root' = [root EXCEPT !.store =
                  [i \in Ids |-> IF i = cmd[c].id
                                    \/ (\E r \in At(cmd[c].to) : r.id = i)
                                 THEN "none" ELSE @[i]]]
    /\ cmd' = [cmd EXCEPT ![c] = NoCmd]
    /\ UNCHANGED <<lock, acq, handle, leases>>

\* Any failure, a path registered meanwhile among them, removes the copy.
ImportFail(c) ==
    /\ cmd[c].pc \in {"import", "copied", "checked-copy"}
    /\ root' = [root EXCEPT !.store[cmd[c].id] = "none"]
    /\ cmd' = [cmd EXCEPT ![c] = NoCmd]
    /\ UNCHANGED <<lock, acq, handle, leases>>

\* A command is killed, or `project move' gives up before its rename: its
\* transaction rolls back, and what it did to files stays.
Kill(c) ==
    /\ cmd[c].pc # "idle"
    /\ lock' = IF lock = c THEN NoOne ELSE lock
    /\ cmd' = [cmd EXCEPT ![c] = NoCmd]
    /\ UNCHANGED <<root, acq, handle, leases>>

---------------------------------------------------------------------------

Init ==
    /\ \E c \in Crews :
          /\ crew = [servers |-> c.servers, commands |-> c.commands, ids |-> c.ids]
          /\ root = c.root
    /\ lock = NoOne
    /\ acq = [s \in Servers |-> NoAcq]
    /\ handle = [s \in Servers |-> [i \in Ids |-> "closed"]]
    /\ leases = [s \in Servers |-> {}]
    /\ cmd = [c \in Commands |-> NoCmd]

ServerStep(s) ==
    \/ \E p \in Paths : Lookup(s, p)
    \/ Register(s)
    \/ Converge(s)
    \/ CacheHit(s)
    \/ StatStore(s)
    \/ MakeStoreDir(s)
    \/ Open(s)
    \/ MarkInitialized(s)
    \/ FailAcquire(s)
    \/ \E l \in leases[s] : Write(s, l) \/ Release(s, l)
    \/ Restart(s)

CommandStep(c) ==
    \/ \E p, q \in Paths : MoveLookup(c, p, q)
    \/ MoveCheck(c)
    \/ MoveBegin(c)
    \/ MoveArchive(c)
    \/ MoveCommit(c)
    \/ MoveRollback(c)
    \/ \E p \in Paths : ImportStart(c, p)
    \/ ImportCopy(c)
    \/ ImportMigrate(c)
    \/ ImportRegister(c)
    \/ ImportFail(c)
    \/ Kill(c)

Next ==
    /\ UNCHANGED crew
    /\ \/ \E s \in crew.servers : ServerStep(s)
       \/ \E c \in crew.commands : CommandStep(c)

Spec == Init /\ [][Next]_vars

---------------------------------------------------------------------------

\* What is on disk and where every process is; ids and paths of registry
\* entries are unique, whoever inserted or moved them, and a call in progress
\* has its handle open.
TypeOK ==
    /\ root \in Root
    /\ \A r, q \in root.records :
          r.id = q.id \/ (r.path = q.path /\ q.path # NoPath) => r = q
    /\ lock \in Commands \cup {NoOne}
    /\ acq \in [Servers -> [pc : {"idle", "register", "converge", "resolved",
                                  "found", "made", "opened"},
                            path : Paths \cup {NoPath}, id : Ids \cup {NoId},
                            init : BOOLEAN, moved : BOOLEAN]]
    /\ handle \in [Servers -> [Ids -> HandleState]]
    /\ leases \in [Servers -> SUBSET (Paths \X Ids)]
    /\ cmd \in [Commands -> [pc : {"idle", "move", "checked", "begun",
                                   "archived", "import", "copied",
                                   "checked-copy"},
                             from : Paths \cup {NoPath},
                             to : Paths \cup {NoPath},
                             id : Ids \cup {NoId}, gone : Ids \cup {NoId}]]
    /\ \A s \in Servers : \A l \in leases[s] : handle[s][l[2]] # "closed"

\* `No server can observe a partial import': whatever is registered, whichever
\* process was killed where, has no half-made copy as its store.
RegisteredStoreIsWhole ==
    \A r \in root.records : root.store[r.id] # "partial"

\* A record is marked initialized only once its store exists: the mark tells
\* a lost store from one that was never made, so from then on the file is in
\* its place unless a move, finished or killed half-way, archived it.
InitializedStoreExists ==
    \A r \in root.records :
        r.init => HasFile(root.store[r.id]) \/ HasFile(root.archive[r.id])

\* `A registered, initialized store whose file is missing fails instead of
\* starting empty': the file comes back only from a failed move, or from a
\* server that read the record before it was initialized or found the file in
\* place before a command renamed its directory.  A server that looks for the
\* file when it is gone makes none.
LostStoreStaysLost ==
    [][\A r \in root.records :
          r.init /\ ~HasFile(root.store[r.id]) /\ HasFile(root'.store[r.id])
          => \/ \E s \in Servers : acq[s].id = r.id /\ (~acq[s].init \/ acq[s].moved)
             \/ root'.store[r.id] = root.archive[r.id]]_vars

\* Memory of a registered project is archived at worst, and archived memory
\* stays: no failed import, no move, interrupted or not, deletes it.
MemoryIsNeverDeleted ==
    [][\A i \in Ids :
          \/ root.archive[i] = "memory"
          \/ root.store[i] = "memory" /\ Registered(i)
          => "memory" \in {root'.store[i], root'.archive[i]}]_vars

\* Processes that use one path at the same time converge on one store: two
\* calls for a path are in different stores only when a `project move' has
\* taken one of these stores away from the path.
CallsConverge ==
    \A s, t \in Servers :
        \A l \in leases[s], m \in leases[t] :
            l[1] = m[1] /\ l[2] # m[2] =>
                \E r \in root.records : r.id \in {l[2], m[2]} /\ r.path # l[1]

\* `project move -replace-empty only replaces a store with no entities,
\* observations or events' (OPERATIONS.md).
DiscardsOnlyEmpty ==
    [][\A i \in Ids :
          root.archive[i] = "none" /\ root'.archive[i] # "none"
          => root.store[i] # "memory"]_vars

===========================================================================
