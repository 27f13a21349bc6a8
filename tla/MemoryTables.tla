--------------------------- MODULE MemoryTables ---------------------------
(***************************************************************************)
(* The tables of one workmem SQLite database and the statements that read   *)
(* and write them (internal/store).  This module has no variables: a        *)
(* database is a VALUE d, and every Go function that takes a `dbtx' is an   *)
(* operator from the database it finds to the database it leaves, so that a *)
(* tool handler is the composition of the calls it makes inside one         *)
(* transaction.                                                             *)
(*                                                                          *)
(* Data is abstracted to what the properties tell apart.  An entity is its  *)
(* NOCASE name.  An observation row keeps entity, content, the entity-type  *)
(* snapshot, the event it hangs on, its creation second and its lifecycle   *)
(* columns (deleted_at, superseded_by, superseded_by_run); source,          *)
(* confidence and access_count decide nothing here.  Row ids are positions  *)
(* in a sequence, as AUTOINCREMENT hands them out and no row is ever        *)
(* removed.                                                                 *)
(***************************************************************************)
EXTENDS Integers, Sequences, FiniteSets

CONSTANTS
    Names,      \* entity names, one per NOCASE class
    Contents,   \* observation contents
    Types,      \* non-empty entity types
    Kinds,      \* relation types
    Scopes,     \* labels a reconcile run is recorded under
    NoType      \* the NULL entity type

ASSUME NoTypeAssumption == NoType \notin Types

NoEvent == 0    \* event_id IS NULL
Never   == 0    \* events.expires_at IS NULL
NoObs   == 0    \* superseded_by IS NULL
NoRun   == 0    \* superseded_by_run IS NULL, reverted_by_run IS NULL

---------------------------------------------------------------------------
(* The rows.                                                               *)

EntityRow == [state : {"absent", "live", "tombstone"},
              type  : Types \cup {NoType}]

ObsRow == [ent     : Names,
           content : Contents,
           type    : Types \cup {NoType},
           event   : Nat,
           created : Nat,
           deleted : BOOLEAN,
           by      : Nat,
           run     : Nat]

\* What memory_fts was given for a rowid.  The table is contentless: it can
\* only be told to forget the very values it was given.
Posting == [id : Nat, ent : Names, content : Contents,
            type : Types \cup {NoType}]

Relation == [from : Names, to : Names, kind : Kinds]

RunRow == [mode : {"apply", "rollback"}, scope : Scopes]

Decision == [run      : Nat,
             ent      : Names,
             content  : Contents,
             target   : Nat,
             sources  : SUBSET Nat,
             reverted : Nat]

\* A database: events are represented by their expires_at.
Database == [ent    : [Names -> EntityRow],
             obs    : Seq(ObsRow),
             fts    : SUBSET Posting,
             rel    : SUBSET Relation,
             events : Seq(Nat),
             runs   : Seq(RunRow),
             dec    : SUBSET Decision,
             emb    : SUBSET Nat]

EmptyDatabase == [ent    |-> [n \in Names |->
                                [state |-> "absent", type |-> NoType]],
                  obs    |-> <<>>,
                  fts    |-> {},
                  rel    |-> {},
                  events |-> <<>>,
                  runs   |-> <<>>,
                  dec    |-> {},
                  emb    |-> {}]

---------------------------------------------------------------------------
(* Lifecycle predicates, evaluated at a second `now'.                      *)

Live(d, n) == d.ent[n].state = "live"

ActiveEvent(d, e, now) ==
    /\ e \in DOMAIN d.events
    /\ d.events[e] = Never \/ d.events[e] > now

EventAllows(d, o, now) ==
    d.obs[o].event = NoEvent \/ ActiveEvent(d, d.obs[o].event, now)

ActiveObservation(d, o, now) ==
    /\ ~d.obs[o].deleted
    /\ d.obs[o].by = NoObs
    /\ EventAllows(d, o, now)

\* What a read surface may return: the predicate joined with a live entity.
Visible(d, o, now) == ActiveObservation(d, o, now) /\ Live(d, d.obs[o].ent)

\* The visible rows that carry one fact.
Carriers(d, n, c, now) ==
    {o \in DOMAIN d.obs : /\ d.obs[o].ent = n
                          /\ d.obs[o].content = c
                          /\ Visible(d, o, now)}

\* The facts a client can recall.
VisibleFacts(d, now) ==
    {<<d.obs[o].ent, d.obs[o].content>> :
        o \in {i \in DOMAIN d.obs : Visible(d, i, now)}}

\* The edges that recall_entity shows, from either end: the entity it is asked
\* for is live, and so is the one at the other end.
RelationsOutgoing(d, n) == {r \in d.rel : r.from = n /\ Live(d, n) /\ Live(d, r.to)}
RelationsIncoming(d, n) == {r \in d.rel : r.to = n /\ Live(d, n) /\ Live(d, r.from)}

RecalledEdges(d) ==
    UNION {RelationsOutgoing(d, n) \cup RelationsIncoming(d, n) : n \in Names}

\* list_entities: a live entity is left out while it has nothing to show.
ListEntities(d, now) ==
    {n \in Names :
        /\ Live(d, n)
        /\ \/ \E o \in DOMAIN d.obs :
                 d.obs[o].ent = n /\ ActiveObservation(d, o, now)
           \/ \E r \in d.rel : n \in {r.from, r.to} /\ Live(d, r.from) /\ Live(d, r.to)}

\* recall_events, without a filter.
SearchEvents(d, now) == {e \in DOMAIN d.events : ActiveEvent(d, e, now)}

ObsOf(d, n) == {o \in DOMAIN d.obs : d.obs[o].ent = n}

\* The values handed to memory_fts for row o, at insert and at delete alike.
PostingOf(d, o) == [id      |-> o,
                    ent     |-> d.obs[o].ent,
                    content |-> d.obs[o].content,
                    type    |-> d.obs[o].type]

---------------------------------------------------------------------------
(* Writes shared by the tool handlers.                                     *)

\* Inserts the entity, revives its tombstone, or changes its type: an empty
\* type argument keeps the stored one.
UpsertEntity(d, n, t) ==
    [d EXCEPT !.ent[n] = [state |-> "live",
                          type  |-> IF t = NoType THEN @.type ELSE t]]

\* Mutant: the event is looked up without its expiry.
CanAttachExpired(d, e, now) == e \in DOMAIN d.events \cup {NoEvent}

CanAttach(d, e, now) == e = NoEvent \/ ActiveEvent(d, e, now)

\* The new row snapshots the entity's current type, and the same values
\* enter the full-text index.
InsertRow(d, n, c, e, now) ==
    LET row == [ent |-> n, content |-> c, type |-> d.ent[n].type,
                event |-> e, created |-> now, deleted |-> FALSE,
                by |-> NoObs, run |-> NoRun]
    IN  [d EXCEPT !.obs = Append(@, row),
                  !.fts = @ \cup {[id |-> Len(d.obs) + 1, ent |-> n,
                                   content |-> c, type |-> row.type]}]

\* Mutant: the duplicate lookup forgets the lifecycle predicate.
AddObservationReusingDead(d, n, c, e, looked, now) ==
    IF \E o \in ObsOf(d, n) : d.obs[o].content = c
    THEN d
    ELSE InsertRow(d, n, c, e, now)

\* Mutant: a duplicate counts only under the same event.
AddObservationPerEvent(d, n, c, e, looked, now) ==
    IF \E o \in ObsOf(d, n) : /\ d.obs[o].content = c
                              /\ d.obs[o].event = e
                              /\ ActiveObservation(d, o, looked)
    THEN d
    ELSE InsertRow(d, n, c, e, now)

\* An active duplicate is reused untouched, whatever event it hangs on.  The
\* duplicate is looked for at one second and the row stamped at another:
\* CURRENT_TIMESTAMP is read by every statement.
AddObservation(d, n, c, e, looked, now) ==
    IF \E o \in ObsOf(d, n) : /\ d.obs[o].content = c
                              /\ ActiveObservation(d, o, looked)
    THEN d
    ELSE InsertRow(d, n, c, e, now)

\* One fact of remember, remember_batch or remember_event.
StoreFact(d, n, t, c, e, looked, now) ==
    AddObservation(UpsertEntity(d, n, t), n, c, e, looked, now)

CreateEvent(d, expires) == [d EXCEPT !.events = Append(@, expires)]

\* relate: both endpoints are upserted with an empty type; the UNIQUE
\* constraint makes a second insert of the same edge a no-op that still
\* commits the upserts.
RelateEntities(d, n, m, k) ==
    [UpsertEntity(UpsertEntity(d, n, NoType), m, NoType) EXCEPT
        !.rel = @ \cup {[from |-> n, to |-> m, kind |-> k]}]

---------------------------------------------------------------------------
(* Forgetting.                                                             *)

Tombstone(d, S) == [o \in DOMAIN d.obs |->
                       IF o \in S THEN [d.obs[o] EXCEPT !.deleted = TRUE]
                                  ELSE d.obs[o]]

Undeleted(d, S) == {o \in S : ~d.obs[o].deleted}

\* Mutant: the index is told to drop the entity's current type instead of
\* the row's snapshot.
EraseRowsByCurrentType(d, S) ==
    LET gone == Undeleted(d, S)
        Current(o) == [PostingOf(d, o) EXCEPT !.type =
                           d.ent[d.obs[o].ent].type]
    IN  [d EXCEPT !.fts = @ \ {Current(o) : o \in gone},
                  !.obs = Tombstone(d, gone),
                  !.emb = @ \ S]

\* Mutant: the embeddings of the rows are kept.
EraseRowsKeepingVectors(d, S) ==
    LET gone == Undeleted(d, S)
    IN  [d EXCEPT !.fts = @ \ {PostingOf(d, o) : o \in gone},
                  !.obs = Tombstone(d, gone)]

\* deleteObservationFTS for every undeleted row of S, then deleted_at.
EraseRows(d, S) ==
    LET gone == Undeleted(d, S)
    IN  [d EXCEPT !.fts = @ \ {PostingOf(d, o) : o \in gone},
                  !.obs = Tombstone(d, gone),
                  !.emb = @ \ S]

\* Mutant: forgetting a supersession target gives its sources back.
ForgetObservationRestoring(d, o) ==
    LET e == EraseRows(d, {o} \cap DOMAIN d.obs)
    IN  [e EXCEPT !.obs = [i \in DOMAIN e.obs |->
            IF e.obs[i].by = o /\ o # NoObs
            THEN [e.obs[i] EXCEPT !.by = NoObs, !.run = NoRun]
            ELSE e.obs[i]]]

\* forget by observation id.  A superseded row may be forgotten.  On a row
\* of a live entity and on a drifted row (undeleted under a tombstoned
\* entity) the same statements run; on a missing or already deleted row only
\* the embeddings are cleaned.
ForgetObservation(d, o) ==
    IF o \in DOMAIN d.obs THEN EraseRows(d, {o})
                          ELSE [d EXCEPT !.emb = @ \ {o}]

\* Mutant: only the entity row is tombstoned, its rows being hidden by it.
ForgetEntityShallow(d, n) ==
    IF d.ent[n].state = "absent" THEN d
    ELSE [d EXCEPT !.ent[n].state = "tombstone"]

\* Mutant: the edges of the entity stay.
ForgetEntityKeepingEdges(d, n) ==
    IF d.ent[n].state = "absent" THEN d
    ELSE [EraseRows(d, ObsOf(d, n)) EXCEPT !.ent[n].state = "tombstone"]

\* Mutant: a tombstoned entity is left as it is.
ForgetEntityIfLive(d, n) ==
    IF d.ent[n].state # "live" THEN d
    ELSE [EraseRows(d, ObsOf(d, n)) EXCEPT
             !.rel = {r \in @ : r.from # n /\ r.to # n},
             !.ent[n].state = "tombstone"]

\* forget by entity name: the live branch and the tombstoned-entity cleanup
\* run the same statements; an unknown name changes nothing.
ForgetEntity(d, n) ==
    IF d.ent[n].state = "absent" THEN d
    ELSE [EraseRows(d, ObsOf(d, n)) EXCEPT
             !.rel = {r \in @ : r.from # n /\ r.to # n},
             !.ent[n].state = "tombstone"]

===========================================================================
