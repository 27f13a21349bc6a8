-------------------------- MODULE SemanticReport --------------------------
(***************************************************************************)
(* `workmem reconcile semantic --mode report' (internal/semantic/report.go) *)
(* beside the writers of MemoryServer.  A report reads the database in      *)
(* three separate statements, waits for an embedding provider while no      *)
(* transaction is open, and only then writes the vectors it was given.      *)
(* One provider key is modelled: d.emb is the set of rows that have a       *)
(* vector under it.                                                         *)
(***************************************************************************)
EXTENDS MemoryServer

CONSTANTS
    MaxCalls,       \* --max-embedding-calls
    MaxPerEntity    \* --max-observations-per-entity

ASSUME CapsAssumption == MaxCalls \in Nat /\ MaxPerEntity \in Nat \ {0}

VARIABLE rep        \* the running report

\* Where it is, the second its clock was read, the entities with a signal, the
\* rows it compares and those it asks vectors for.
NoReport == [phase |-> "none", asOf |-> 0, scan |-> {}, rows |-> {},
             missing |-> {}]

---------------------------------------------------------------------------

\* The newest MaxPerEntity of an entity's active rows (applyObservationCaps).
Considered(d, n, asOf) ==
    {o \in ActiveOf(d, n, asOf) :
        Cardinality({p \in ActiveOf(d, n, asOf) : Newer(d, p, o)})
            < MaxPerEntity}

ScanEntities(cutoff, S) ==
    /\ rep.phase = "none"
    /\ cutoff <= clock
    /\ IsScan(db, S, clock, cutoff)
    /\ rep' = [NoReport EXCEPT !.phase = "scanned", !.asOf = clock,
                               !.scan = S]
    /\ UNCHANGED vars

\* A second statement: what was written since the scan is seen here.
SelectObservations ==
    /\ rep.phase = "scanned"
    /\ rep' = [rep EXCEPT
                 !.phase = "selected",
                 !.rows  = UNION {Considered(db, n, rep.asOf) : n \in rep.scan}]
    /\ UNCHANGED vars

\* Too many missing vectors end the report before any request is made.
LoadVectors ==
    LET missing == rep.rows \ db.emb
    IN  /\ rep.phase = "selected"
        /\ rep' = IF Cardinality(missing) > MaxCalls THEN NoReport
                  ELSE [rep EXCEPT
                          !.phase = IF missing = {} THEN "ready"
                                                    ELSE "embedding",
                          !.missing = missing]
        /\ UNCHANGED vars

\* The provider has answered; the vectors are written in one transaction.
CacheVectors ==
    /\ rep.phase = "embedding"
    /\ Idle
    /\ db' = [db EXCEPT !.emb = @ \cup rep.missing]
    /\ rep' = [rep EXCEPT !.phase = "ready"]
    /\ UNCHANGED <<clock, tx>>

\* A provider error, a failed statement, or an interrupted command.
FailReport ==
    /\ rep.phase # "none"
    /\ rep' = NoReport
    /\ UNCHANGED vars

\* The candidates are pairs of rep.rows, compared without the database.
EmitReport ==
    /\ rep.phase = "ready"
    /\ rep' = NoReport
    /\ UNCHANGED vars

ReportInit == Init /\ rep = NoReport

ReportStep ==
    \/ \E cutoff \in 0 .. MaxTime, S \in SUBSET Names : ScanEntities(cutoff, S)
    \/ SelectObservations
    \/ LoadVectors
    \/ CacheVectors
    \/ FailReport
    \/ EmitReport

ReportNext == ReportStep \/ (Next /\ UNCHANGED rep)

ReportSpec == ReportInit /\ [][ReportNext]_<<vars, rep>>

---------------------------------------------------------------------------

Clean(d, n) ==
    d.ent[n].state # "live" =>
        /\ Undeleted(d, ObsOf(d, n)) = {}
        /\ \A r \in d.rel : r.from # n /\ r.to # n

\* On an imported database that still holds rows and edges under a
\* tombstoned entity, forgetting the entity once makes it clean, and nothing
\* makes it unclean again: later revivals find none of it ("so UpsertEntity
\* cannot revive forgotten facts or edges", OPERATIONS.md).
ForgetRepairsDrift ==
    [][\A n \in Names :
         (Idle /\ db' = ForgetEntity(db, n)) \/ Clean(db, n)
            => Clean(db', n)]_<<vars, rep>>

Leaked(d) == {o \in d.emb \cap DOMAIN d.obs : d.obs[o].deleted}

\* A vector of a deleted row appears only when a report that had asked for
\* it before the row was forgotten writes its cache: every path of forget
\* drops what was cached, for live, superseded and drifted rows alike.
OnlyReportsLeakVectors ==
    [][\A o \in Leaked(db') \ Leaked(db) :
         rep.phase = "embedding" /\ o \in rep.missing /\ o \notin db.emb
      ]_<<vars, rep>>

\* `forget removes embedding rows for tombstoned observations/entities'
\* (API_CONTRACT.md): no deleted row has a vector.
NoVectorOfForgotten == Leaked(db) = {}

===========================================================================
