--------------------------- MODULE ProjectCache ---------------------------
(***************************************************************************)
(* The cache of project database handles of one server process              *)
(* (internal/store/project.go).  Tool calls run on their own goroutines:    *)
(* each leases a handle for the length of the call and releases it          *)
(* afterwards.  Everything between projectDBMu.Lock and Unlock is one step; *)
(* the handles an eviction removes are closed after the unlock, each in a   *)
(* step of its own.                                                         *)
(*                                                                          *)
(* A key is the resolved path (legacy mode) or the registry id (central     *)
(* mode).  A handle is an open *sql.DB, the cached registry's among them; a *)
(* closed one that nothing refers to may be handed out again, as a new one. *)
(***************************************************************************)
EXTENDS Integers, FiniteSets

CONSTANTS
    Keys,       \* project keys
    Calls,      \* goroutines: tool calls, and the one that shuts down
    Handles,    \* *sql.DB values
    CacheMax,   \* PROJECT_DB_CACHE_MAX
    NoKey,
    NoHandle

ASSUME CacheMaxAssumption == CacheMax \in Nat \ {0}
ASSUME CallsAssumption == IsFiniteSet(Calls)
ASSUME NoValuesAssumption == NoKey \notin Keys /\ NoHandle \notin Handles

VARIABLES
    lru,        \* projectDBLRU, as an order: <<k, l>> when k was used after l
    entry,      \* projectDBs: handle and reference count of each key
    registry,   \* centralRegistry
    lease,      \* what each call holds: a key and the handle it was given
    closing,    \* handles a goroutine has taken out and not closed yet
    open,       \* handles that accept queries
    mode,       \* projectStore.Mode
    reset       \* ResetProjectDBs has run

cacheVars == <<lru, entry, registry, lease, closing, open, mode, reset>>

Modes == {"legacy", "central", "disabled"}

NoEntry == [handle |-> NoHandle, refs |-> 0]
NoLease == [key |-> NoKey, handle |-> NoHandle]

KeysIn(ent) == {k \in Keys : ent[k].handle # NoHandle}
Cached == KeysIn(entry)
CachedHandles == {entry[k].handle : k \in Cached}
Holders(k) == {c \in Calls : lease[c].key = k}

\* Handles that nothing refers to, and the one that is opened next.
Fresh == {h \in Handles \ (open \cup CachedHandles \cup {registry}) :
             \A c \in Calls : lease[c].handle # h /\ h \notin closing[c]}
NewHandle == CHOOSE h \in Fresh : TRUE

---------------------------------------------------------------------------
(* Eviction: from the least recently used end, only entries without         *)
(* references, until the cache is within its limit or all are in use.       *)

Without(order, gone) == {p \in order : p[1] \notin gone /\ p[2] \notin gone}
MoveToFront(k) == Without(lru, {k}) \cup ({k} \X (Cached \ {k}))
Behind(order, k) == {l \in Keys : <<k, l>> \in order}

\* The idle keys that have fewer than n idle keys behind them.
LastIdle(order, ent, n) ==
    LET idle == {k \in KeysIn(ent) : ent[k].refs = 0}
    IN  {k \in idle : Cardinality(Behind(order, k) \cap idle) < n}

Excess(ent) == Cardinality(KeysIn(ent)) - CacheMax

\* Mutant: an entry in use may be evicted.
VictimsInUse(order, ent) ==
    {k \in KeysIn(ent) : Cardinality(Behind(order, k)) < Excess(ent)}

\* Mutant: only the least recently used entry is looked at.
VictimsTail(order, ent) ==
    {k \in KeysIn(ent) : Excess(ent) > 0 /\ Behind(order, k) = {} /\ ent[k].refs = 0}

Victims(order, ent) == LastIdle(order, ent, Excess(ent))

\* Installs the map and recency order less what is evicted, and leaves
\* goroutine c to close the evicted handles.
Evict(c, order, ent) ==
    LET gone == Victims(order, ent)
    IN  /\ lru' = Without(order, gone)
        /\ entry' = [k \in Keys |-> IF k \in gone THEN NoEntry ELSE ent[k]]
        /\ closing' = [closing EXCEPT ![c] = {ent[k].handle : k \in gone}]

Ready(c) == lease[c] = NoLease /\ closing[c] = {}

\* A project call is served in legacy mode, and in central mode once the
\* registry is there to be consulted.
Served == \/ mode = "legacy"
          \/ mode = "central" /\ registry # NoHandle

---------------------------------------------------------------------------

\* centralRegistryLocked: the first call in central mode opens the registry,
\* and leaves it open even if it then fails.
OpenRegistry(c) ==
    /\ Ready(c)
    /\ mode = "central" /\ registry = NoHandle
    /\ Fresh # {}
    /\ registry' = NewHandle
    /\ open' = open \cup {NewHandle}
    /\ UNCHANGED <<lru, entry, lease, closing, mode, reset>>

\* Mutant: a cache hit does not count as a reference.
AcquireHitUncounted(c, k) ==
    /\ Ready(c) /\ Served
    /\ k \in Cached
    /\ lru' = MoveToFront(k)
    /\ lease' = [lease EXCEPT ![c] = [key |-> k, handle |-> entry[k].handle]]
    /\ UNCHANGED <<entry, registry, closing, open, mode, reset>>

AcquireHit(c, k) ==
    /\ Ready(c) /\ Served
    /\ k \in Cached
    /\ entry' = [entry EXCEPT ![k].refs = @ + 1]
    /\ lru' = MoveToFront(k)
    /\ lease' = [lease EXCEPT ![c] = [key |-> k, handle |-> entry[k].handle]]
    /\ UNCHANGED <<registry, closing, open, mode, reset>>

\* InitDB runs under the lock, so two calls never open one key twice.  An
\* InitDB that fails changes nothing here.
AcquireOpen(c, k) ==
    /\ Ready(c) /\ Served
    /\ k \notin Cached
    /\ Fresh # {}
    /\ Evict(c, MoveToFront(k),
             [entry EXCEPT ![k] = [handle |-> NewHandle, refs |-> 1]])
    /\ open' = open \cup {NewHandle}
    /\ lease' = [lease EXCEPT ![c] = [key |-> k, handle |-> NewHandle]]
    /\ UNCHANGED <<registry, mode, reset>>

\* The release function finds the entry by KEY, whatever handle is cached
\* under it by now.
Release(c) ==
    LET k == lease[c].key
    IN  /\ lease[c] # NoLease
        /\ closing[c] = {}
        /\ Evict(c, lru,
                 IF k \in Cached /\ entry[k].refs > 0
                 THEN [entry EXCEPT ![k].refs = @ - 1] ELSE entry)
        /\ lease' = [lease EXCEPT ![c] = NoLease]
        /\ UNCHANGED <<registry, open, mode, reset>>

\* closeProjectDBs, outside the lock.
CloseHandle(c, h) ==
    /\ h \in closing[c]
    /\ closing' = [closing EXCEPT ![c] = @ \ {h}]
    /\ open' = open \ {h}
    /\ UNCHANGED <<lru, entry, registry, lease, mode, reset>>

\* closeIdleProjectDB, which `project move' calls in its own process: refused
\* while the handle is leased.
CloseIdle(c, k) ==
    /\ Ready(c)
    /\ k \in Cached /\ entry[k].refs = 0
    /\ lru' = Without(lru, {k})
    /\ entry' = [entry EXCEPT ![k] = NoEntry]
    /\ closing' = [closing EXCEPT ![c] = {entry[k].handle}]
    /\ UNCHANGED <<registry, lease, open, mode, reset>>

\* Mutant: handles in use are dropped from the map without being closed.
ResetIdleOnly(c) ==
    /\ Ready(c)
    /\ ~reset
    /\ reset' = TRUE
    /\ lru' = {}
    /\ entry' = [k \in Keys |-> NoEntry]
    /\ registry' = NoHandle
    /\ closing' = [closing EXCEPT
                     ![c] = ({entry[k].handle :
                                 k \in {l \in Cached : entry[l].refs = 0}}
                             \cup {registry}) \ {NoHandle}]
    /\ UNCHANGED <<lease, open, mode>>

\* ResetProjectDBs, at shutdown: every handle is taken, leased or not.
Reset(c) ==
    /\ Ready(c)
    /\ ~reset
    /\ reset' = TRUE
    /\ lru' = {}
    /\ entry' = [k \in Keys |-> NoEntry]
    /\ registry' = NoHandle
    /\ closing' = [closing EXCEPT
                     ![c] = (CachedHandles \cup {registry}) \ {NoHandle}]
    /\ UNCHANGED <<lease, open, mode>>

\* ConfigureProjectStore: a different policy is refused while handles are
\* cached; the registry is detached and closed after the unlock.
Configure(c, m) ==
    /\ Ready(c)
    /\ m # mode => Cached = {}
    /\ mode' = m
    /\ registry' = NoHandle
    /\ closing' = [closing EXCEPT ![c] = {registry} \ {NoHandle}]
    /\ UNCHANGED <<lru, entry, lease, open, reset>>

CacheInit ==
    /\ mode = "legacy"
    /\ lru = {}
    /\ entry = [k \in Keys |-> NoEntry]
    /\ registry = NoHandle
    /\ lease = [c \in Calls |-> NoLease]
    /\ closing = [c \in Calls |-> {}]
    /\ open = {}
    /\ reset = FALSE

CacheNext ==
    \/ \E c \in Calls : OpenRegistry(c) \/ Release(c) \/ Reset(c)
    \/ \E c \in Calls, h \in Handles : CloseHandle(c, h)
    \/ \E c \in Calls, k \in Keys :
          AcquireHit(c, k) \/ AcquireOpen(c, k) \/ CloseIdle(c, k)
    \/ \E c \in Calls, m \in Modes : Configure(c, m)

CacheSpec == CacheInit /\ [][CacheNext]_cacheVars

---------------------------------------------------------------------------

\* The recency list holds the keys of the map, each once: it is a total order
\* of them.  Each has a handle of its own.
CacheTypeOK ==
    /\ entry \in [Keys -> [handle : Handles \cup {NoHandle}, refs : Nat]]
    /\ registry \in Handles \cup {NoHandle}
    /\ lru \subseteq Cached \X Cached
    /\ \A k, l \in Cached :
          <<k, l>> \in lru <=> k # l /\ <<l, k>> \notin lru
    /\ \A k, l, m \in Cached :
          <<k, l>> \in lru /\ <<l, m>> \in lru => <<k, m>> \in lru
    /\ \A k, l \in Cached : entry[k].handle = entry[l].handle => k = l
    /\ lease \in [Calls -> [key : Keys \cup {NoKey},
                            handle : Handles \cup {NoHandle}]]
    /\ closing \in [Calls -> SUBSET Handles]
    /\ open \subseteq Handles
    /\ mode \in Modes
    /\ reset \in BOOLEAN

\* Until shutdown, a call never finds the handle it holds closed, or about
\* to be closed by another call's eviction.
LeasedHandleStaysOpen ==
    ~reset =>
        \A c \in Calls :
            lease[c] # NoLease =>
                /\ lease[c].handle \in open
                /\ lease[c].handle = entry[lease[c].key].handle
                /\ \A b \in Calls : lease[c].handle \notin closing[b]

\* Until shutdown the reference count of an entry is the number of calls that
\* hold it; afterwards it is never more, so no idle entry is kept for ever.
RefsCountLeases ==
    \A k \in Cached :
        /\ entry[k].refs <= Cardinality(Holders(k))
        /\ ~reset => entry[k].refs = Cardinality(Holders(k))

\* The cache is over its limit only by entries that are in use, however many
\* leases kept it there before.
OverLimitOnlyInUse ==
    Cardinality(Cached) > CacheMax => \A k \in Cached : entry[k].refs > 0

\* No handle leaks and none is closed twice: an open handle is either cached,
\* or the registry's, or about to be closed by one goroutine.
HandlesAccountedFor ==
    /\ open = (CachedHandles \cup {registry} \cup UNION {closing[c] : c \in Calls})
              \ {NoHandle}
    /\ registry \notin CachedHandles
    /\ \A c \in Calls : closing[c] \cap (CachedHandles \cup {registry}) = {}
    /\ \A b, c \in Calls : b # c => closing[b] \cap closing[c] = {}

===========================================================================
