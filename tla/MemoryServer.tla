--------------------------- MODULE MemoryServer ---------------------------
(***************************************************************************)
(* One memory database under the writes of every process that shares it:    *)
(* the MCP tool handlers of dispatchTool (internal/store/tools.go) and the  *)
(* reconcile apply and rollback commands.                                   *)
(*                                                                          *)
(* Every connection opens transactions with BEGIN IMMEDIATE, so at most one *)
(* transaction writes at a time and the others wait.  A handler that makes  *)
(* one pass over the tables is one action.  The handlers that loop over     *)
(* facts (remember_batch, remember_event) may fail half way, so they run    *)
(* step by step on the private copy tx.work that only a commit publishes;   *)
(* tx being open is the write lock.                                         *)
(*                                                                          *)
(* Every statement reads CURRENT_TIMESTAMP for itself, and reconcile reads  *)
(* the clock before it even waits for the lock.  So the seconds a step      *)
(* judged activity at are parameters of it, at most MaxLag before the       *)
(* second it writes.                                                        *)
(***************************************************************************)
EXTENDS Reconcile

CONSTANTS
    Seeds,      \* databases a server may be started on: empty, or imported
    MaxLag,     \* longest time, in seconds, from a read of the clock to the
                \* write it decides
    MaxObs,     \* bound: observation rows
    MaxEvents,  \* bound: event rows
    MaxRuns,    \* bound: reconcile runs
    MaxBatch,   \* bound: facts in one batch or event
    MaxTime     \* bound: seconds

ASSUME BoundsAssumption ==
    /\ MaxLag \in Nat /\ MaxObs \in Nat /\ MaxEvents \in Nat
    /\ MaxRuns \in Nat /\ MaxBatch \in Nat /\ MaxTime \in Nat

VARIABLES
    db,         \* the committed database
    clock,      \* CURRENT_TIMESTAMP, in seconds
    tx          \* the open multi-fact transaction

vars == <<db, clock, tx>>

Facts == Names \X Contents

Transaction == [kind : {"none", "batch", "event"}, work : Database,
                event : Nat, facts : SUBSET Facts]

NoTx == [kind |-> "none", work |-> EmptyDatabase,
         event |-> NoEvent, facts |-> {}]

Idle == tx = NoTx

Fits(d) == /\ Len(d.obs) <= MaxObs
           /\ Len(d.events) <= MaxEvents
           /\ Len(d.runs) <= MaxRuns

Install(d) == /\ Fits(d)
              /\ db' = d
              /\ UNCHANGED <<clock, tx>>

---------------------------------------------------------------------------
(* remember, relate, forget: one transaction, one step.                    *)

\* The event is checked at one second, the duplicate looked for at a later.
Remember(n, t, c, e, checked, looked) ==
    /\ Idle
    /\ CanAttach(db, e, checked)
    /\ Install(StoreFact(db, n, t, c, e, looked, clock))

Relate(n, m, k) ==
    /\ Idle
    /\ n # m
    /\ Install(RelateEntities(db, n, m, k))

ForgetById(o) ==
    /\ Idle
    /\ Install(ForgetObservation(db, o))

ForgetByName(n) ==
    /\ Idle
    /\ Install(ForgetEntity(db, n))

---------------------------------------------------------------------------
(* remember_batch and remember_event: a transaction of several steps.       *)

BeginBatch ==
    /\ Idle
    /\ tx' = [kind |-> "batch", work |-> db, event |-> NoEvent, facts |-> {}]
    /\ UNCHANGED <<db, clock>>

\* expires_at may already be in the past: only attaching a fact notices.
BeginEvent(expires) ==
    LET d == CreateEvent(db, expires)
    IN  /\ Idle
        /\ Fits(d)
        /\ tx' = [kind |-> "event", work |-> d, event |-> Len(d.events),
                  facts |-> {}]
        /\ UNCHANGED <<db, clock>>

\* A batch fact names its own event; an event fact hangs on the new one.
FactEvent(e) == IF tx.kind = "event" THEN tx.event ELSE e

AddFact(n, t, c, e, checked, looked) ==
    LET d == StoreFact(tx.work, n, t, c, FactEvent(e), looked, clock)
    IN  /\ ~Idle
        /\ Cardinality(tx.facts) < MaxBatch
        /\ CanAttach(tx.work, FactEvent(e), checked)
        /\ Fits(d)
        /\ tx' = [tx EXCEPT !.work = d, !.facts = @ \cup {<<n, c>>}]
        /\ UNCHANGED <<db, clock>>

CommitFacts ==
    /\ ~Idle
    /\ db' = tx.work
    /\ tx' = NoTx
    /\ UNCHANGED clock

\* A fact's error (an event that is missing or has expired by now), a failed
\* statement or the death of the process: the transaction rolls back.
AbortFacts ==
    /\ ~Idle
    /\ tx' = NoTx
    /\ UNCHANGED <<db, clock>>

---------------------------------------------------------------------------
(* reconcile --mode apply and reconcile rollback, run lag seconds after     *)
(* they read the clock.                                                     *)

Apply(lag, cutoff, S, scope) ==
    /\ Idle
    /\ lag <= clock
    /\ cutoff <= clock - lag
    /\ IsScan(db, S, clock - lag, cutoff)
    /\ Install(ApplyExactDuplicates(db, S, clock - lag, scope))

Rollback(lag, r, scope, aliases) ==
    /\ Idle
    /\ lag <= clock
    /\ CanRollback(db, r, clock - lag, scope, aliases)
    /\ Install(RollbackRun(db, r, scope))

Tick ==
    /\ clock < MaxTime
    /\ clock' = clock + 1
    /\ UNCHANGED <<db, tx>>

---------------------------------------------------------------------------

Init == /\ db \in Seeds
        /\ clock = 0
        /\ tx = NoTx

ObsIds   == 1 .. MaxObs
EventIds == 1 .. MaxEvents
Runs     == 1 .. MaxRuns

\* The seconds a statement may have read, for a write at this second.
Recent == {s \in 0 .. clock : clock - s <= MaxLag}

Next ==
    \/ \E n \in Names, t \in Types \cup {NoType}, c \in Contents,
          e \in EventIds \cup {NoEvent}, checked \in Recent :
          \E looked \in {s \in Recent : s >= checked} :
            \/ Remember(n, t, c, e, checked, looked)
            \/ AddFact(n, t, c, e, checked, looked)
    \/ \E n, m \in Names, k \in Kinds : Relate(n, m, k)
    \/ \E o \in ObsIds : ForgetById(o)
    \/ \E n \in Names : ForgetByName(n)
    \/ BeginBatch
    \/ \E expires \in 0 .. MaxTime + 1 : BeginEvent(expires)
    \/ CommitFacts
    \/ AbortFacts
    \/ \E lag \in 0 .. MaxLag, cutoff \in 0 .. MaxTime,
          S \in SUBSET Names, scope \in Scopes : Apply(lag, cutoff, S, scope)
    \/ \E lag \in 0 .. MaxLag, r \in Runs, scope \in Scopes,
          aliases \in SUBSET Scopes : Rollback(lag, r, scope, aliases)
    \/ Tick

Spec == Init /\ [][Next]_vars

---------------------------------------------------------------------------
(* Invariants.                                                             *)

\* The committed tables, the clock and the open transaction have the shape
\* the schema of InitSchema gives them.
TypeOK == /\ db \in Database
          /\ clock \in Nat
          /\ tx \in Transaction

IndexMatches(d) ==
    d.fts = {PostingOf(d, o) : o \in Undeleted(d, DOMAIN d.obs)}

\* The contentless full-text index holds exactly the undeleted rows, under
\* the values they were inserted with: every forget path told it to drop the
\* originally indexed name, content and type snapshot, whatever the entity's
\* type has become since, and no path dropped a superseded row that a
\* rollback may bring back (deleteObservationFTS and its callers).
IndexMatchesRows == IndexMatches(db)

TombstonesEmpty(d) ==
    \A n \in Names : d.ent[n].state # "live" =>
        /\ Undeleted(d, ObsOf(d, n)) = {}
        /\ \A r \in d.rel : r.from # n /\ r.to # n

\* A tombstoned entity owns no undeleted observation, superseded ones
\* included, and no edge: whatever revives the name later (UpsertEntity in
\* remember or relate) finds nothing forgotten under it.
TombstonesHideNothing == TombstonesEmpty(db)

AuditBacks(d) ==
    /\ \A o \in DOMAIN d.obs :
          d.obs[o].by # NoObs =>
            \E x \in d.dec : /\ x.reverted = NoRun
                             /\ o \in x.sources \cap CurrentSources(d, x)
    /\ \A x \in d.dec :
          /\ x.run \in DOMAIN d.runs /\ d.runs[x.run].mode = "apply"
          /\ x.target \in DOMAIN d.obs
          /\ x.reverted = NoRun =>
                /\ x.sources = CurrentSources(d, x)
                /\ \A o \in x.sources : Newer(d, x.target, o)
          /\ x.reverted # NoRun =>
                /\ x.reverted \in DOMAIN d.runs
                /\ d.runs[x.reverted].mode = "rollback"
                /\ \A y \in DecisionsOf(d, x.run) : y.reverted = x.reverted

\* Audit rows and supersession marks tell one story: a superseded row is a
\* source of an unreverted decision of the run it names, an unreverted
\* decision's sources are all still superseded by its (newer) target, and a
\* rollback run reverted all decisions of its apply run or none.
AuditBacksSupersession == AuditBacks(db)

\* What an imported database is trusted for: the shape of the tables, an
\* index that matches them, an audit trail that backs every supersession, no
\* row from the future, and the foreign keys of a row and of an edge.
ASSUME SeedsAssumption ==
    \A d \in Seeds : /\ d \in Database
                     /\ IndexMatches(d)
                     /\ AuditBacks(d)
                     /\ \A o \in DOMAIN d.obs :
                           /\ d.obs[o].created = 0
                           /\ d.obs[o].event \in DOMAIN d.events \cup {NoEvent}
                           /\ d.ent[d.obs[o].ent].state # "absent"
                     /\ \A r \in d.rel : /\ d.ent[r.from].state # "absent"
                                        /\ d.ent[r.to].state # "absent"

\* No observation was ever attached to an event that was already over, in
\* whatever order the seconds fell between the facts of a remember_event or
\* remember_batch transaction; only the statements of one AddObservation
\* call may straddle the end (ensureEventIsActive).
AttachedWhileActive ==
    \A o \in DOMAIN db.obs :
        db.obs[o].event # NoEvent =>
            LET expires == db.events[db.obs[o].event]
            IN  expires = Never \/ expires + MaxLag > db.obs[o].created

---------------------------------------------------------------------------
(* Action properties.                                                      *)

Added(d) == DOMAIN d.obs \ DOMAIN db.obs

\* A row that nobody can see becomes visible again only when a rollback
\* clears its supersession and reverts the decision that hid it: reviving its
\* entity, relating it, remembering the same content, forgetting the row that
\* superseded it or passing time never brings it back.
OnlyRollbackRestores ==
    [][\A o \in DOMAIN db.obs :
         ~Visible(db, o, clock) /\ Visible(db', o, clock') =>
            /\ db.obs[o].by # NoObs /\ db'.obs[o].by = NoObs
            /\ \E x \in db.dec \ db'.dec : o \in x.sources]_vars

\* No write creates a second visible copy of a fact that is already visible,
\* across handlers and within one batch: only an import or a rollback leaves
\* the duplicates that reconcile looks for (AddObservation's reuse).
NoNewDuplicates ==
    [][\A o \in Added(db'), p \in DOMAIN db'.obs :
         o # p /\ FactOf(db', o) = FactOf(db', p) =>
            ~(Visible(db', o, clock') /\ Visible(db', p, clock'))]_vars

\* A fact that was acknowledged is there: when a batch or event commits, a
\* row of the live entity carries each of its facts that is neither deleted
\* nor superseded, though the fact may have been stored by reusing a row and
\* that row's event may have ended since.
AcknowledgedFactsKept ==
    [][CommitFacts =>
         \A f \in tx.facts :
            /\ Live(db', f[1])
            /\ \E o \in DOMAIN db'.obs :
                  /\ FactOf(db', o) = f
                  /\ ~db'.obs[o].deleted /\ db'.obs[o].by = NoObs]_vars

\* Apply hides a row only in favour of a copy that a client can see at that
\* moment ("every source/target observation is still active",
\* API_CONTRACT.md).
SupersededByVisible ==
    [][\A o \in DOMAIN db.obs :
         db.obs[o].by = NoObs /\ db'.obs[o].by # NoObs =>
            /\ db'.obs[o].by # o
            /\ FactOf(db', o) = FactOf(db', db'.obs[o].by)
            /\ Visible(db', db'.obs[o].by, clock')]_vars

\* A rollback run restores everything its apply run hid or nothing: when it
\* commits, every source of every decision is visible again beside its
\* target, and no other row changed.
RollbackIsWhole ==
    [][\A r \in DOMAIN db.runs :
         (\E x \in DecisionsOf(db, r) : x.reverted = NoRun)
         /\ (\E x \in DecisionsOf(db', r) : x.reverted # NoRun) =>
            LET hidden == UNION {x.sources : x \in DecisionsOf(db, r)}
            IN  \A o \in DOMAIN db.obs :
                  IF o \in hidden
                  THEN /\ Visible(db', o, clock')
                       /\ \E x \in DecisionsOf(db, r) :
                             o \in x.sources /\ Visible(db', x.target, clock')
                  ELSE db'.obs[o] = db.obs[o]]_vars

---------------------------------------------------------------------------
(* The database implements the client's view of it.                        *)

Graph == INSTANCE MemoryGraph
            WITH facts  <- VisibleFacts(db, clock),
                 edges  <- RecalledEdges(db),
                 listed <- ListEntities(db, clock),
                 events <- SearchEvents(db, clock),
                 runs   <- Len(db.runs)

\* Every step of the tables, as the read tools show it, is one promised to the
\* client: remembering only adds and brings nothing forgotten back, forgetting
\* takes exactly what was named, time only takes away, reconcile apply and
\* rollback change neither a fact nor an edge, and the listing of entities
\* agrees with what each of them would show.
ImplementsGraph == Graph!Spec

===========================================================================
