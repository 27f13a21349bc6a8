------------------------------ MODULE Recall ------------------------------
(***************************************************************************)
(* The tools that read (internal/store/search.go and events.go) beside the  *)
(* writers of MemoryServer.  A read tool is no transaction: it runs several *)
(* statements one after the other, each of which sees the database another  *)
(* call or process has left by then, and then writes: TouchObservations     *)
(* counts an access to every row it is about to return.  (The relations     *)
(* recall_entity reads after that decide nothing here.)                     *)
(*                                                                          *)
(* A query is the sets of values each of its channels matches.  Scores and  *)
(* FTS ranks are arithmetic on data no property looks at, so any order is   *)
(* allowed where they decide one.                                           *)
(***************************************************************************)
EXTENDS MemoryServer, FiniteSetsExt

CONSTANTS
    Queries,            \* what recall is asked
    Limits,             \* limits it is asked with
    IdLists,            \* ids get_observations is asked for
    MaxLimit,           \* SanitizeSearchLimit's upper bound (200)
    Multiplier,         \* collectionMultiplier
    MinPool,            \* smallest size of the candidate pool (200)
    MaxAccess           \* bound: accesses counted for one row

ASSUME SearchAssumption == /\ MaxLimit \in Nat /\ MinPool \in Nat
                           /\ MaxAccess \in Nat
                           /\ Multiplier \in Nat \ {0}
                           /\ Limits \subseteq Int

\* Accesses are counted for the rows of ObsIds, an imported database's too.
ASSUME SeedsFitAssumption == \A d \in Seeds : Len(d.obs) <= MaxObs

VARIABLES
    access, \* access_count of every row
    read    \* the read call in progress

readVars == <<access, read>>

\* A query: the contents that hold its phrase, the indexed values that hold
\* one of its words, the name it is, the names and event labels that contain
\* it, and for every term the contents and types that contain the term.
Query == [phrase : SUBSET Contents,
          words  : SUBSET (Contents \cup Names \cup Types),
          exact  : SUBSET Names,
          names  : SUBSET Names,
          terms  : Seq([content : SUBSET Contents, type : SUBSET Types]),
          events : SUBSET EventIds]

NoQuery == [phrase |-> {}, words |-> {}, exact |-> {}, names |-> {},
            terms |-> <<>>, events |-> {}]

Phases == {"none", "collect", "hydrate", "rows", "touch", "done"}

\* always and ever remember which rows each channel of the query would have
\* found in every state since the call began, and which any of them in some.
NoRead == [phase |-> "none", tool |-> "none", query |-> NoQuery, limit |-> 0,
           step |-> 1, complete |-> TRUE, name |-> {}, event |-> NoEvent,
           pool |-> {}, rows |-> {},
           always |-> {}, ever |-> {}]

ASSUME AskedAssumption == /\ Queries \subseteq Query
                          /\ IdLists \subseteq SUBSET ObsIds

---------------------------------------------------------------------------
(* What the channels of a query match.                                     *)

VisibleRows(d, now) == {o \in DOMAIN d.obs : Visible(d, o, now)}

\* The rowids that memory_fts matches are joined with the live tables.
Indexed(d, now, postings) == {p.id : p \in postings} \cap VisibleRows(d, now)

\* The channels in order; a query of one word is not tried as a phrase.
Plan(q) ==
    (IF Len(q.terms) > 1 THEN << <<"fts_phrase", 0>> >> ELSE <<>>)
    \o << <<"fts", 0>>, <<"entity_exact", 0>>, <<"entity_like", 0>> >>
    \o [i \in DOMAIN q.terms |-> <<"content_like", i>>]
    \o [i \in DOMAIN q.terms |-> <<"type_like", i>>]
    \o << <<"event_label", 0>> >>

IsFts(step) == step[1] \in {"fts_phrase", "fts"}

Hits(d, q, step, now) ==
    LET live == VisibleRows(d, now)
        phrase == {p \in d.fts : p.content \in q.phrase}
        words == {p \in d.fts : {p.content, p.ent, p.type} \cap q.words # {}}
    IN  CASE step[1] = "fts_phrase"   -> Indexed(d, now, phrase)
          [] step[1] = "fts"          -> Indexed(d, now, words)
          [] step[1] = "entity_exact" -> {o \in live : d.obs[o].ent \in q.exact}
          [] step[1] = "entity_like"  ->
                {o \in live : d.obs[o].ent \in q.names \ q.exact}
          [] step[1] = "content_like" ->
                {o \in live : d.obs[o].content \in q.terms[step[2]].content}
          \* the entity's type of today, not the row's snapshot
          [] step[1] = "type_like"    ->
                {o \in live : d.ent[d.obs[o].ent].type
                                  \in q.terms[step[2]].type}
          [] step[1] = "event_label"  ->
                {o \in live : d.obs[o].event \in q.events}

\* Which channel finds which row.
Found(d, q, now) ==
    UNION {{i} \X Hits(d, q, Plan(q)[i], now) : i \in DOMAIN Plan(q)}
RowsIn(found) == {p[2] : p \in found}

\* The rows a statement may return under LIMIT k: ORDER BY rank leaves the
\* choice open, ORDER BY o.id takes the lowest.
Answers(S, step, k) ==
    IF Cardinality(S) <= k THEN {S}
    ELSE IF IsFts(step) THEN kSubset(k, S)
    ELSE {{o \in S : Cardinality({p \in S : p < o}) < k}}

\* Mutant: the pool has no limit.
AdmittedAll(pool, R, step, room) == {pool \cup R}

\* What addCandidate makes of them with room for that many new rows.
Admitted(pool, R, step, room) ==
    {pool \cup A : A \in Answers(R \ pool, step, room)}

SanitizeSearchLimit(limit) == IF limit <= 0 THEN 0
                              ELSE IF limit > MaxLimit THEN MaxLimit ELSE limit

\* Mutant: no more rows are collected than will be returned.
CollectLimitBare(limit) == limit

CollectLimit(limit) == limit * Multiplier

PoolSize(limit) == IF CollectLimit(limit) < MinPool THEN MinPool
                                                    ELSE CollectLimit(limit)

---------------------------------------------------------------------------
(* recall: SearchMemory.                                                   *)

\* What the history of a call adds at each state it goes through.
Observe(r, d, now) ==
    LET found == Found(d, r.query, now)
    IN  [r EXCEPT !.always = @ \cap found, !.ever = @ \cup RowsIn(found)]

\* A new call has seen the present state.
Begin(r) ==
    LET found == Found(db, r.query, clock)
    IN  /\ read = NoRead
        /\ read' = [r EXCEPT !.always = found, !.ever = RowsIn(found)]
        /\ UNCHANGED <<vars, access>>

\* A limit of zero or less returns nothing without a statement.
RecallTool(q, limit) ==
    /\ SanitizeSearchLimit(limit) > 0
    /\ Begin([NoRead EXCEPT !.tool = "recall", !.phase = "collect", !.query = q,
                            !.limit = SanitizeSearchLimit(limit)])

NextChannel(r) ==
    IF r.step < Len(Plan(r.query)) THEN [r EXCEPT !.step = @ + 1]
                                   ELSE [r EXCEPT !.phase = "hydrate"]

CollectChannel ==
    LET step == Plan(read.query)[read.step]
        hits == Hits(db, read.query, step, clock)
        room == PoolSize(read.limit) - Cardinality(read.pool)
    IN  /\ read.phase = "collect"
        /\ \E R \in Answers(hits, step, CollectLimit(read.limit)) :
              \E pool \in Admitted(read.pool, R, step, room) :
                  read' = NextChannel([read EXCEPT !.pool = pool])
        /\ UNCHANGED <<vars, access>>

\* A failing FTS query is counted and its channel left out.
FtsQueryError ==
    /\ read.phase = "collect"
    /\ IsFts(Plan(read.query)[read.step])
    /\ read' = NextChannel([read EXCEPT !.complete = FALSE])
    /\ UNCHANGED <<vars, access>>

\* Mutant: the candidates are believed to be still active.
HydrateStale ==
    /\ read.phase = "hydrate"
    /\ LET k == IF Cardinality(read.pool) < read.limit
                THEN Cardinality(read.pool) ELSE read.limit
       IN  \E rows \in kSubset(k, read.pool) :
              read' = [read EXCEPT !.rows = rows, !.pool = {},
                                   !.phase = "touch"]
    /\ UNCHANGED <<vars, access>>

\* HydrateCandidates asks for the lifecycle again; ScoreCandidates keeps the
\* best limit of what is left.
Hydrate ==
    LET live == read.pool \cap VisibleRows(db, clock)
        k    == IF Cardinality(live) < read.limit THEN Cardinality(live)
                                                  ELSE read.limit
    IN  /\ read.phase = "hydrate"
        /\ \E rows \in kSubset(k, live) :
              read' = [read EXCEPT !.rows = rows, !.pool = {},
                                   !.phase = "touch"]
        /\ UNCHANGED <<vars, access>>

---------------------------------------------------------------------------
(* recall_entity, recall_event, get_event_observations, get_observations.  *)

\* The header is one statement, and the call ends if it is not live; the
\* rows are another.
RecallEntity(n) ==
    /\ Live(db, n)
    /\ Begin([NoRead EXCEPT !.tool = "recall_entity", !.phase = "rows",
                            !.name = {n}])

RecallEvent(e) ==
    /\ ActiveEvent(db, e, clock)
    /\ Begin([NoRead EXCEPT !.tool = "recall_event", !.phase = "rows",
                            !.event = e])

GetObservations(ids) ==
    Begin([NoRead EXCEPT !.tool = "get_observations", !.phase = "rows",
                         !.pool = ids])

\* GetEntityGraph does not look at the entity again.
RowsOf(r, d, now) ==
    CASE r.tool = "recall_entity" ->
            {o \in DOMAIN d.obs : /\ d.obs[o].ent \in r.name
                                  /\ ActiveObservation(d, o, now)}
      [] r.tool = "recall_event"  ->
            {o \in VisibleRows(d, now) : d.obs[o].event = r.event}
      [] OTHER -> r.pool \cap VisibleRows(d, now)

SelectRows ==
    /\ read.phase = "rows"
    /\ read' = [read EXCEPT !.rows  = RowsOf(read, db, clock),
                            !.pool  = {},
                            !.phase = "touch"]
    /\ UNCHANGED <<vars, access>>

---------------------------------------------------------------------------
(* What every read tool ends with.                                         *)

\* Mutant: the rows are counted whatever became of them.
TouchAnyway ==
    /\ read.phase = "touch"
    /\ Idle
    /\ access' = [o \in ObsIds |-> access[o] + (IF o \in read.rows THEN 1 ELSE 0)]
    /\ read' = [read EXCEPT !.phase = "done"]
    /\ UNCHANGED vars

\* TouchObservations: a write, so it waits for the lock, and a statement of
\* its own, so it asks for the lifecycle once more.
Touch ==
    LET touched == read.rows \cap VisibleRows(db, clock)
    IN  /\ read.phase = "touch"
        /\ Idle
        /\ access' = [o \in ObsIds |->
                         access[o] + (IF o \in touched THEN 1 ELSE 0)]
        /\ read' = [read EXCEPT !.phase = "done"]
        /\ UNCHANGED vars

Return ==
    /\ read.phase = "done"
    /\ read' = NoRead
    /\ UNCHANGED <<vars, access>>

\* A failed statement or the death of the process.
FailRead ==
    /\ read.phase \notin {"none", "done"}
    /\ read' = NoRead
    /\ UNCHANGED <<vars, access>>

---------------------------------------------------------------------------

RecallInit == /\ Init
              /\ access = [o \in ObsIds |-> 0]
              /\ read = NoRead

StartRead ==
    /\ \A o \in ObsIds : access[o] < MaxAccess
    /\ \/ \E q \in Queries, limit \in Limits : RecallTool(q, limit)
       \/ \E n \in Names : RecallEntity(n)
       \/ \E e \in EventIds : RecallEvent(e)
       \/ \E ids \in IdLists : GetObservations(ids)

ReadStep == \/ CollectChannel \/ FtsQueryError \/ Hydrate
            \/ SelectRows \/ Touch \/ Return \/ FailRead

\* A writer's step, seen by the call in progress.
WriteStep == /\ Next
             /\ UNCHANGED access
             /\ read' = IF read = NoRead THEN NoRead
                                         ELSE Observe(read, db', clock')

RecallNext == StartRead \/ ReadStep \/ WriteStep

RecallSpec == RecallInit /\ [][RecallNext]_<<vars, readVars>>

---------------------------------------------------------------------------

\* Counters and the call in progress have their shapes, and a recall never
\* holds more candidates than its pool allows nor more rows than its limit.
ReadsTypeOK ==
    /\ access \in [ObsIds -> 0 .. MaxAccess]
    /\ read.phase \in Phases
    /\ read.pool \subseteq ObsIds /\ read.rows \subseteq ObsIds
    /\ read.tool = "recall" =>
          /\ Cardinality(read.pool) <= PoolSize(read.limit)
          /\ Cardinality(read.rows) <= read.limit

\* Every row a read tool takes is visible when it takes it, whatever was
\* written since the statement that led to it: collected candidates are not
\* believed when they are hydrated, and the rows of an entity or event found
\* live a statement earlier, which recall_entity reads without looking at the
\* entity again, went with it (API_CONTRACT.md: hidden rows do not appear on
\* the normal read surfaces).
ReadsOnlyVisible ==
    [][read'.rows \subseteq read.rows \cup VisibleRows(db, clock)
      ]_<<vars, readVars>>

\* Overcollection keeps its promise: a recall that leaves out a fact which one
\* of its channels would have found all along returns as many facts as it was
\* asked for, unless more rows came or went during the call than its surplus,
\* the collectionMultiplier, covers.  (The channels are statements of their own:
\* a fact whose entity changes type between two of them may have matched at
\* every moment and still be missed by both.)
RecallFillsLimit ==
    read.tool = "recall" /\ read.complete /\ read.phase \in {"touch", "done"} =>
        \/ RowsIn(read.always) \subseteq read.rows
        \/ Cardinality(read.rows) = read.limit
        \/ Cardinality(read.ever \ RowsIn(read.always))
              > (Multiplier - 1) * read.limit

\* An access is counted once, for a row that is about to be returned and is
\* still visible: forgetting or expiring a row that a reader holds leaves no
\* access behind that would strengthen it when a rollback restores it
\* ("only then touch returned observations", ARCHITECTURE.md).
TouchedWereReturned ==
    [][\A o \in ObsIds : access'[o] # access[o] =>
          /\ access'[o] = access[o] + 1
          /\ o \in read.rows
          /\ Visible(db', o, clock')]_<<vars, readVars>>

===========================================================================
