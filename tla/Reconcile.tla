---------------------------- MODULE Reconcile ----------------------------
(***************************************************************************)
(* The exact-duplicate reconcile of internal/store/reconcile.go: the apply  *)
(* transaction that supersedes older copies of a fact by the newest one,    *)
(* and the rollback transaction that undoes one apply run from its audit    *)
(* rows.  Both judge activity at `asOf', the second their Go caller read    *)
(* the clock, which is BEFORE the transaction got the write lock.           *)
(***************************************************************************)
EXTENDS MemoryTables

CONSTANTS
    MinObs,         \* --min-obs: active rows an entity needs to be scanned
    MaxEntities     \* --max-entities: entities scanned in one run

ASSUME ScanAssumption == MinObs \in Nat /\ MaxEntities \in Nat

---------------------------------------------------------------------------
(* The scan.                                                               *)

ActiveOf(d, n, asOf) == {o \in ObsOf(d, n) : Visible(d, o, asOf)}

\* Entities worth scanning: enough active rows, one of them recent.
SignalEntities(d, asOf, cutoff) ==
    {n \in Names :
        /\ Live(d, n)
        /\ Cardinality(ActiveOf(d, n, asOf)) >= MinObs
        /\ \E o \in ActiveOf(d, n, asOf) : d.obs[o].created >= cutoff}

LastSeen(d, n, asOf) ==
    CHOOSE t \in {d.obs[o].created : o \in ActiveOf(d, n, asOf)} :
        \A o \in ActiveOf(d, n, asOf) : d.obs[o].created <= t

\* S is what ORDER BY last_observation_at DESC LIMIT max keeps; equal
\* seconds fall back to an entity id the model does not carry, so any
\* choice among them is allowed.
IsScan(d, S, asOf, cutoff) ==
    LET all == SignalEntities(d, asOf, cutoff)
    IN  /\ S \subseteq all
        /\ Cardinality(S) <= MaxEntities
        /\ S # all => Cardinality(S) = MaxEntities
        /\ \A n \in S, m \in all \ S :
              LastSeen(d, n, asOf) >= LastSeen(d, m, asOf)

\* The facts of the scanned entities that more than one active row carries.
DuplicateFacts(d, S, asOf) ==
    {f \in S \X Contents :
        \E o, p \in Carriers(d, f[1], f[2], asOf) : o # p}

Newer(d, o, p) ==
    \/ d.obs[o].created > d.obs[p].created
    \/ d.obs[o].created = d.obs[p].created /\ o > p

\* Mutant: the newest copy is chosen without looking at its event.
TargetIgnoringEvents(d, f, asOf) ==
    LET copies == {o \in ObsOf(d, f[1]) :
                      d.obs[o].content = f[2] /\ d.obs[o].by = NoObs}
    IN  CHOOSE o \in copies : \A p \in copies \ {o} : Newer(d, o, p)

\* The newest active copy, by created_at and then id.
Target(d, f, asOf) ==
    CHOOSE o \in Carriers(d, f[1], f[2], asOf) :
        \A p \in Carriers(d, f[1], f[2], asOf) \ {o} : Newer(d, o, p)

\* Mutant: the target is not left out of its own group.
SourcesWithTarget(d, f, asOf) == Carriers(d, f[1], f[2], asOf)

Sources(d, f, asOf) ==
    Carriers(d, f[1], f[2], asOf) \ {Target(d, f, asOf)}

---------------------------------------------------------------------------
(* Apply: one run row, and for every duplicate group the supersession of    *)
(* its sources and one decision row, all in one transaction.                *)

FactOf(d, o) == <<d.obs[o].ent, d.obs[o].content>>

ApplyExactDuplicates(d, S, asOf, scope) ==
    LET run    == Len(d.runs) + 1
        groups == DuplicateFacts(d, S, asOf)
        Superseded(o) == /\ FactOf(d, o) \in groups
                         /\ o \in Sources(d, FactOf(d, o), asOf)
    IN  [d EXCEPT
            !.obs  = [o \in DOMAIN d.obs |->
                        IF Superseded(o)
                        THEN [d.obs[o] EXCEPT
                                !.by  = Target(d, FactOf(d, o), asOf),
                                !.run = run]
                        ELSE d.obs[o]],
            !.runs = Append(@, [mode |-> "apply", scope |-> scope]),
            !.dec  = @ \cup
                {[run      |-> run,
                  ent      |-> f[1],
                  content  |-> f[2],
                  target   |-> Target(d, f, asOf),
                  sources  |-> Sources(d, f, asOf),
                  reverted |-> NoRun] : f \in groups}]

---------------------------------------------------------------------------
(* Rollback of run r.                                                      *)

DecisionsOf(d, r) == {x \in d.dec : x.run = r}

\* Rows the database itself says were superseded by this decision.
CurrentSources(d, x) ==
    {o \in DOMAIN d.obs : /\ d.obs[o].by = x.target
                          /\ d.obs[o].run = x.run
                          /\ d.obs[o].ent = x.ent
                          /\ d.obs[o].content = x.content}

\* A superseded row that would be active again once its mark is cleared.
Restorable(d, o, asOf) ==
    /\ o \in DOMAIN d.obs
    /\ ~d.obs[o].deleted
    /\ EventAllows(d, o, asOf)
    /\ Live(d, d.obs[o].ent)

\* Mutant: the lifecycle of the sources is not looked at again.
CanRevertUnchecked(d, x, asOf) ==
    /\ x.reverted = NoRun
    /\ x.target \in Carriers(d, x.ent, x.content, asOf)
    /\ x.sources = CurrentSources(d, x)

CanRevert(d, x, asOf) ==
    /\ x.reverted = NoRun
    /\ x.target \in Carriers(d, x.ent, x.content, asOf)
    /\ x.sources # {}
    /\ x.sources = CurrentSources(d, x)
    /\ x.target \notin x.sources
    /\ \A o \in x.sources : Restorable(d, o, asOf)

\* scope is what the caller asks for; aliases are the other labels the same
\* database has carried.
CanRollback(d, r, asOf, scope, aliases) ==
    /\ r \in DOMAIN d.runs
    /\ d.runs[r].mode = "apply"
    /\ d.runs[r].scope \in {scope} \cup aliases
    /\ DecisionsOf(d, r) # {}
    /\ \A x \in DecisionsOf(d, r) : CanRevert(d, x, asOf)

\* Mutant: the decisions are not marked reverted.
RollbackRunUnmarked(d, r, scope) ==
    LET restored == UNION {x.sources : x \in DecisionsOf(d, r)}
    IN  [d EXCEPT
            !.obs  = [o \in DOMAIN d.obs |->
                        IF o \in restored
                        THEN [d.obs[o] EXCEPT !.by = NoObs, !.run = NoRun]
                        ELSE d.obs[o]],
            !.runs = Append(@, [mode |-> "rollback", scope |-> scope])]

RollbackRun(d, r, scope) ==
    LET restored == UNION {x.sources : x \in DecisionsOf(d, r)}
        run      == Len(d.runs) + 1
    IN  [d EXCEPT
            !.obs  = [o \in DOMAIN d.obs |->
                        IF o \in restored
                        THEN [d.obs[o] EXCEPT !.by = NoObs, !.run = NoRun]
                        ELSE d.obs[o]],
            !.runs = Append(@, [mode |-> "rollback", scope |-> scope]),
            !.dec  = {IF x.run = r THEN [x EXCEPT !.reverted = run] ELSE x :
                        x \in @}]

===========================================================================
