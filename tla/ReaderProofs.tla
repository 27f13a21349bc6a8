---------------------------- MODULE ReaderProofs ----------------------------
(***************************************************************************)
(* Theorems about what runs beside the writers of MemoryServer, for any     *)
(* sets of names, contents, types and queries and any limits: the read      *)
(* tools (Recall) and the semantic report (SemanticReport).  Both act       *)
(* between two steps of any writer; the report writes vectors as well.      *)
(***************************************************************************)
EXTENDS Recall, SemanticReport, MemoryServerProofs, FiniteSetTheorems

---------------------------------------------------------------------------
(* The readers change nothing but the access counts.                       *)

LEMMA ReadersWriteNothing == [RecallNext]_<<vars, readVars>> => [Next]_vars
  BY DEF RecallNext, StartRead, ReadStep, WriteStep, RecallTool, RecallEntity,
         RecallEvent, GetObservations, Begin, CollectChannel, FtsQueryError, Hydrate,
         SelectRows, Touch, Return, FailRead

\* Beside the readers the memory is MemoryServer: all that is proved of Spec holds.
THEOREM ImplementsServer == RecallSpec => Spec
  <1>1. RecallInit => Init
    BY DEF RecallInit
  <1>. QED  BY <1>1, ReadersWriteNothing, PTL DEF RecallSpec, Spec

---------------------------------------------------------------------------
(* The channels of a query.                                                *)

Channels == {"fts_phrase", "fts", "entity_exact", "entity_like", "content_like",
             "type_like", "event_label"}

LEMMA LongerPlan ==
  ASSUME NEW S, NEW s \in Seq(S), NEW t \in Seq(S), Len(s) # 0 \/ Len(t) # 0
  PROVE  s \o t \in Seq(S) /\ Len(s \o t) # 0
  OBVIOUS

LEMMA TableOf ==
  ASSUME NEW S, NEW n \in Nat, NEW f \in [1 .. n -> S]
  PROVE  f \in Seq(S)
  OBVIOUS

LEMMA PlanShape ==
  ASSUME NEW q \in Query
  PROVE  Plan(q) \in Seq(Channels \X Nat) /\ Len(Plan(q)) \in Nat \ {0}
  <1>. DEFINE Step == Channels \X Nat
              A == IF Len(q.terms) > 1 THEN << <<"fts_phrase", 0>> >> ELSE <<>>
              B == << <<"fts", 0>>, <<"entity_exact", 0>>, <<"entity_like", 0>> >>
              C == [i \in DOMAIN q.terms |-> <<"content_like", i>>]
              D == [i \in DOMAIN q.terms |-> <<"type_like", i>>]
              E == << <<"event_label", 0>> >>
  <1>1. /\ <<"fts_phrase", 0>> \in Step /\ <<"fts", 0>> \in Step
        /\ <<"entity_exact", 0>> \in Step /\ <<"entity_like", 0>> \in Step
        /\ <<"event_label", 0>> \in Step
        /\ \A i \in Nat : <<"content_like", i>> \in Step /\ <<"type_like", i>> \in Step
    BY DEF Channels
  <1>2. PICK n \in Nat : DOMAIN q.terms = 1 .. n
    <2>1. q.terms \in Seq([content : SUBSET Contents, type : SUBSET Types])
      BY DEF Query
    <2>. QED  BY <2>1
  <1>3. A \in Seq(Step) /\ B \in Seq(Step) /\ E \in Seq(Step) /\ Len(B) # 0
    <2>. HIDE DEF Step
    <2>. QED  BY <1>1
  <1>4. C \in Seq(Step) /\ D \in Seq(Step)
    <2>. HIDE DEF Step
    <2>0. /\ C = [i \in 1 .. n |-> <<"content_like", i>>]
          /\ D = [i \in 1 .. n |-> <<"type_like", i>>]
          /\ 1 .. n \subseteq Nat
      BY <1>2
    <2>. HIDE DEF C, D
    <2>1. C \in [1 .. n -> Step]
      BY <1>1, <2>0, Zenon
    <2>2. D \in [1 .. n -> Step]
      BY <1>1, <2>0, Zenon
    <2>. QED  BY <2>1, <2>2, TableOf
  <1>5. Plan(q) = A \o B \o C \o D \o E
    BY DEF Plan
  <1>. HIDE DEF A, B, C, D, E, Step
  <1>. DEFINE AB == A \o B
              ABC == AB \o C
              ABCD == ABC \o D
  <1>6. AB \in Seq(Step) /\ Len(AB) # 0
    BY <1>3, LongerPlan
  <1>. HIDE DEF AB
  <1>7. ABC \in Seq(Step) /\ Len(ABC) # 0
    BY <1>4, <1>6, LongerPlan
  <1>. HIDE DEF ABC
  <1>8. ABCD \in Seq(Step) /\ Len(ABCD) # 0
    BY <1>4, <1>7, LongerPlan
  <1>. HIDE DEF ABCD
  <1>9. ABCD \o E \in Seq(Step) /\ Len(ABCD \o E) # 0
    BY <1>3, <1>8, LongerPlan
  <1>10. Plan(q) \in Seq(Step) /\ Len(Plan(q)) # 0
    BY <1>5, <1>9 DEF AB, ABC, ABCD
  <1>11. Len(Plan(q)) \in Nat
    BY <1>10
  <1>. QED  BY <1>10, <1>11 DEF Step

\* A channel finds visible rows only.
LEMMA HitsAreVisible ==
  ASSUME NEW d, NEW q, NEW step \in Channels \X Nat, NEW now
  PROVE  Hits(d, q, step, now) \subseteq VisibleRows(d, now)
  <1>. DEFINE V == VisibleRows(d, now)
  <1>1. step[1] \in Channels
    OBVIOUS
  <1>2. CASE step[1] = "fts_phrase"
    <2>1. Hits(d, q, step, now) = {p.id : p \in {i \in d.fts : i.content \in q.phrase}} \cap V
      BY <1>2 DEF Hits, Indexed
    <2>. QED  BY <2>1
  <1>3. CASE step[1] = "fts"
    <2>1. Hits(d, q, step, now) =
             {p.id : p \in {i \in d.fts : {i.content, i.ent, i.type} \cap q.words # {}}} \cap V
      BY <1>3 DEF Hits, Indexed
    <2>. QED  BY <2>1
  <1>. HIDE DEF V
  <1>4. CASE step[1] = "entity_exact"
    BY <1>4 DEF Hits, V
  <1>5. CASE step[1] = "entity_like"
    BY <1>5 DEF Hits, V
  <1>6. CASE step[1] = "content_like"
    BY <1>6 DEF Hits, V
  <1>7. CASE step[1] = "type_like"
    BY <1>7 DEF Hits, V
  <1>8. CASE step[1] = "event_label"
    BY <1>8 DEF Hits, V
  <1>. QED  BY <1>1, <1>2, <1>3, <1>4, <1>5, <1>6, <1>7, <1>8 DEF Channels, V

LEMMA WhatIsFound ==
  ASSUME NEW d, NEW q \in Query, NEW now
  PROVE  /\ \A i \in DOMAIN Plan(q) : \A o :
               <<i, o>> \in Found(d, q, now) <=> o \in Hits(d, q, Plan(q)[i], now)
         /\ Found(d, q, now) \subseteq (DOMAIN Plan(q)) \X VisibleRows(d, now)
         /\ RowsIn(Found(d, q, now)) \subseteq VisibleRows(d, now)
  <1>1. \A i \in DOMAIN Plan(q) : Plan(q)[i] \in Channels \X Nat
    BY PlanShape, RowOfTable
  <1>2. \A i \in DOMAIN Plan(q) : Hits(d, q, Plan(q)[i], now) \subseteq VisibleRows(d, now)
    BY <1>1, HitsAreVisible
  <1>. DEFINE H(i) == Hits(d, q, Plan(q)[i], now)
  <1>3. Found(d, q, now) = UNION {{i} \X H(i) : i \in DOMAIN Plan(q)}
    BY DEF Found
  <1>. HIDE DEF H
  <1>4. \A i \in DOMAIN Plan(q) : \A o : <<i, o>> \in Found(d, q, now) <=> o \in H(i)
    BY <1>3
  <1>5. Found(d, q, now) \subseteq (DOMAIN Plan(q)) \X VisibleRows(d, now)
    BY <1>2, <1>3 DEF H
  <1>6. RowsIn(Found(d, q, now)) \subseteq VisibleRows(d, now)
    BY <1>5 DEF RowsIn
  <1>. QED  BY <1>4, <1>5, <1>6 DEF H

---------------------------------------------------------------------------
(* The rows there are.                                                     *)

RowsFit == Len(db.obs) <= MaxObs /\ Len(tx.work.obs) <= MaxObs

LEMMA RowsFitInit == Init => RowsFit
  <1>1. Len(EmptyDatabase.obs) = 0
    BY DEF EmptyDatabase
  <1>. QED  BY <1>1, SeedsFitAssumption, BoundsAssumption DEF Init, RowsFit, NoTx

LEMMA RowsFitStep == RowsFit /\ [Next]_vars => RowsFit'
  <1>. SUFFICES ASSUME RowsFit, [Next]_vars PROVE RowsFit'
    OBVIOUS
  <1>1. Len(EmptyDatabase.obs) <= MaxObs
    BY BoundsAssumption DEF EmptyDatabase
  <1>2. ASSUME NEW d, Install(d) PROVE RowsFit'
    BY <1>2 DEF Install, Fits, RowsFit
  <1>3. CASE UNCHANGED vars \/ Tick
    BY <1>3 DEF vars, Tick, RowsFit
  <1>4. ASSUME NEW n \in Names, NEW t \in Types \cup {NoType}, NEW c \in Contents,
               NEW e, NEW checked, NEW looked,
               \/ Remember(n, t, c, e, checked, looked)
               \/ AddFact(n, t, c, e, checked, looked)
        PROVE  RowsFit'
    <2>1. CASE Remember(n, t, c, e, checked, looked)
      BY <1>2, <2>1 DEF Remember
    <2>2. CASE AddFact(n, t, c, e, checked, looked)
      <3>. DEFINE d == StoreFact(tx.work, n, t, c, FactEvent(e), looked, clock)
      <3>1. Fits(d) /\ db' = db
            /\ tx' = [tx EXCEPT !.work = d, !.facts = @ \cup {<<n, c>>}]
        BY <2>2 DEF AddFact
      <3>. HIDE DEF d
      <3>. QED  BY <3>1 DEF RowsFit, Fits
    <2>. QED  BY <1>4, <2>1, <2>2
  <1>5. ASSUME NEW x, BeginEvent(x) PROVE RowsFit'
    <2>. DEFINE d == CreateEvent(db, x)
    <2>1. Fits(d) /\ tx'.work = d /\ db' = db
      BY <1>5 DEF BeginEvent
    <2>. HIDE DEF d
    <2>. QED  BY <2>1 DEF RowsFit, Fits
  <1>6. CASE BeginBatch \/ CommitFacts \/ AbortFacts
    BY <1>1, <1>6 DEF BeginBatch, CommitFacts, AbortFacts, NoTx, RowsFit
  <1>7. CASE \/ \E n, m \in Names, k \in Kinds : Relate(n, m, k)
             \/ \E o \in ObsIds : ForgetById(o)
             \/ \E n \in Names : ForgetByName(n)
             \/ \E lag \in 0 .. MaxLag, cutoff \in 0 .. MaxTime,
                   S \in SUBSET Names, scope \in Scopes : Apply(lag, cutoff, S, scope)
             \/ \E lag \in 0 .. MaxLag, r \in Runs, scope \in Scopes,
                   aliases \in SUBSET Scopes : Rollback(lag, r, scope, aliases)
    BY <1>2, <1>7 DEF Relate, ForgetById, ForgetByName, Apply, Rollback
  <1>. QED  BY <1>3, <1>4, <1>5, <1>6, <1>7 DEF Next

LEMMA VisibleRowsFit ==
  RowsFit /\ IInv => VisibleRows(db, clock) \subseteq ObsIds /\ DOMAIN db.obs \subseteq ObsIds
  <1>. SUFFICES ASSUME RowsFit, IInv
                PROVE  /\ VisibleRows(db, clock) \subseteq ObsIds
                       /\ DOMAIN db.obs \subseteq ObsIds
    OBVIOUS
  <1>1. db.obs \in Seq(ObsRow)
    BY DEF IInv, Good, Database
  <1>2. DOMAIN db.obs = 1 .. Len(db.obs) /\ Len(db.obs) \in Nat
    BY <1>1
  <1>. QED  BY <1>2, BoundsAssumption DEF RowsFit, VisibleRows, ObsIds

LEMMA ObsIdsFinite ==
  /\ IsFiniteSet(ObsIds) /\ ObsIds \subseteq Nat
  /\ \A S \in SUBSET ObsIds : IsFiniteSet(S) /\ Cardinality(S) \in Nat
  <1>1. MaxObs \in Nat
    BY BoundsAssumption
  <1>2. IsFiniteSet(ObsIds)
    BY <1>1, FS_Interval DEF ObsIds
  <1>3. ObsIds \subseteq Nat
    BY <1>1 DEF ObsIds
  <1>. QED  BY <1>2, <1>3, FS_Subset, FS_CardinalityType

---------------------------------------------------------------------------
(* A statement with LIMIT k returns all it finds or k rows.                 *)

\* The k lowest rows of a larger set are k rows.
LEMMA LowestRows ==
  ASSUME NEW S \in SUBSET ObsIds, NEW k \in Nat, Cardinality(S) > k
  PROVE  Cardinality({o \in S : Cardinality({p \in S : p < o}) < k}) = k
  <1>. DEFINE A == {o \in S : Cardinality({p \in S : p < o}) < k}
  <1>1. /\ A \subseteq ObsIds /\ A \subseteq S
        /\ IsFiniteSet(A) /\ Cardinality(A) \in Nat
        /\ \A o : {p \in S : p < o} \in SUBSET ObsIds
        /\ \A o \in S : o \in Nat /\ o <= MaxObs
        /\ Cardinality(S) \in Nat /\ IsFiniteSet(S)
    <2>1. A \in SUBSET ObsIds /\ A \subseteq S
      OBVIOUS
    <2>2. \A o \in S : o \in Nat /\ o <= MaxObs
      BY DEF ObsIds
    <2>. HIDE DEF A
    <2>. QED  BY <2>1, <2>2, ObsIdsFinite
  <1>2. \A o : /\ IsFiniteSet({p \in S : p < o})
               /\ Cardinality({p \in S : p < o}) \in Nat
    BY <1>1, ObsIdsFinite
  <1>3. Cardinality(A) <= k
    <2>. SUFFICES ASSUME Cardinality(A) > k PROVE FALSE
      BY <1>1
    <2>1. A # {}
      <3>. HIDE DEF A
      <3>. QED  BY FS_EmptySet
    <2>2. PICK m \in A : \A o \in A : o <= m
      <3>. HIDE DEF A
      <3>1. A \in SUBSET Nat /\ \A o \in A : o <= MaxObs
        BY <1>1
      <3>. QED  BY <2>1, <3>1, BoundsAssumption, LargestExists
    <2>3. A \ {m} \in SUBSET {p \in S : p < m}
      <3>1. \A o \in A \ {m} : o < m /\ o \in S
        <4>. HIDE DEF A
        <4>. QED  BY <1>1, <2>2
      <3>. HIDE DEF A
      <3>. QED  BY <3>1
    <2>4. Cardinality(A \ {m}) <= Cardinality({p \in S : p < m})
      BY <1>2, <2>3, FS_Subset
    <2>5. Cardinality({p \in S : p < m}) < k
      BY <2>2
    <2>. HIDE DEF A
    <2>6. Cardinality(A \ {m}) = Cardinality(A) - 1
      BY <1>1, <2>2, FS_RemoveElement
    <2>. QED  BY <1>1, <1>2, <2>4, <2>5, <2>6
  <1>4. Cardinality(A) >= k
    <2>. DEFINE T == S \ A
    <2>1. CASE T = {}
      <3>1. A = S
        BY <1>1, <2>1
      <3>. HIDE DEF A
      <3>. QED  BY <1>1, <3>1
    <2>2. CASE T # {}
      <3>1. PICK m \in T : \A o \in T : ~(o < m)
        <4>. HIDE DEF T
        <4>1. T \subseteq Nat
          BY <1>1 DEF T
        <4>2. PICK m \in T : \A o \in T : <<o, m>> \notin OpToRel(<, Nat)
          BY <2>2, <4>1, WFMin, NatLessThanWellFounded, Zenon
        <4>3. \A o \in T : ~(o < m)
          BY <4>1, <4>2 DEF OpToRel
        <4>. QED  BY <4>3
      <3>2. {p \in S : p < m} \subseteq A
        BY <3>1
      <3>3. ~(Cardinality({p \in S : p < m}) < k)
        BY <3>1
      <3>. HIDE DEF A
      <3>4. Cardinality({p \in S : p < m}) <= Cardinality(A)
        BY <1>1, <3>2, FS_Subset
      <3>. QED  BY <1>1, <1>2, <3>3, <3>4
    <2>. QED  BY <2>1, <2>2
  <1>. QED  BY <1>1, <1>3, <1>4

LEMMA AnswersOfAStatement ==
  ASSUME NEW S \in SUBSET ObsIds, NEW step, NEW k \in Nat, NEW A \in Answers(S, step, k)
  PROVE  A \in SUBSET S /\ Cardinality(A) <= k /\ (A = S \/ Cardinality(A) = k)
  <1>1. Cardinality(S) \in Nat
    BY ObsIdsFinite
  <1>2. CASE Cardinality(S) <= k
    BY <1>2 DEF Answers
  <1>3. CASE ~(Cardinality(S) <= k) /\ IsFts(step)
    BY <1>3 DEF Answers, kSubset
  <1>4. CASE ~(Cardinality(S) <= k) /\ ~IsFts(step)
    <2>1. A = {o \in S : Cardinality({p \in S : p < o}) < k}
      BY <1>4 DEF Answers
    <2>2. Cardinality(A) = k
      BY <1>1, <1>4, <2>1, LowestRows
    <2>. QED  BY <2>1, <2>2
  <1>. QED  BY <1>2, <1>3, <1>4

LEMMA AdmittedRows ==
  ASSUME NEW pool \in SUBSET ObsIds, NEW R \in SUBSET ObsIds, NEW step,
         NEW room \in Nat, NEW Q \in Admitted(pool, R, step, room)
  PROVE  /\ pool \subseteq Q /\ Q \subseteq pool \cup R
         /\ Cardinality(Q) <= Cardinality(pool) + room
         /\ R \subseteq Q \/ Cardinality(Q) = Cardinality(pool) + room
  <1>1. PICK A \in Answers(R \ pool, step, room) : Q = pool \cup A
    BY DEF Admitted
  <1>2. /\ A \in SUBSET (R \ pool) /\ Cardinality(A) <= room
        /\ A = R \ pool \/ Cardinality(A) = room
    BY AnswersOfAStatement
  <1>3. /\ IsFiniteSet(A) /\ Cardinality(A) \in Nat
        /\ IsFiniteSet(pool) /\ Cardinality(pool) \in Nat
    BY <1>2, ObsIdsFinite
  <1>4. pool \cap A = {}
    BY <1>2
  <1>5. Cardinality(Q) = Cardinality(pool) + Cardinality(A)
    BY <1>1, <1>3, <1>4, FS_Union, FS_EmptySet
  <1>. QED  BY <1>1, <1>2, <1>3, <1>5

---------------------------------------------------------------------------
(* The call in progress.                                                   *)

Tools == {"none", "recall", "recall_entity", "recall_event", "get_observations"}

ReadRow == [phase : Phases, tool : Tools, query : Query, limit : Nat, step : Nat,
            complete : BOOLEAN, name : SUBSET Names, event : Nat,
            pool : SUBSET ObsIds, rows : SUBSET ObsIds,
            always : SUBSET (Nat \X ObsIds), ever : SUBSET ObsIds]

LEMMA NoQueryIsQuery == NoQuery \in Query
  BY DEF NoQuery, Query

LEMMA NoReadRow ==
  /\ NoRead \in ReadRow /\ NoRead.phase = "none" /\ NoRead.tool = "none"
  /\ NoRead.pool = {} /\ NoRead.rows = {} /\ NoRead.query = NoQuery
  /\ NoRead.step = 1 /\ NoRead.limit = 0
  BY NoQueryIsQuery DEF NoRead, ReadRow, Phases, Tools, NoEvent

\* How a call begins, whatever the tool.
LEMMA BegunRow ==
  ASSUME NEW r \in ReadRow, Begin(r), NEW V \in SUBSET ObsIds,
         Found(db, r.query, clock) \subseteq Nat \X V
  PROVE  /\ read = NoRead /\ UNCHANGED <<vars, access>>
         /\ read' \in ReadRow
         /\ read'.phase = r.phase /\ read'.tool = r.tool /\ read'.query = r.query
         /\ read'.limit = r.limit /\ read'.step = r.step
         /\ read'.pool = r.pool /\ read'.rows = r.rows
         /\ read'.always = Found(db, r.query, clock)
         /\ read'.ever = RowsIn(Found(db, r.query, clock))
  <1>. DEFINE F == Found(db, r.query, clock)
  <1>1. F \in SUBSET (Nat \X ObsIds) /\ RowsIn(F) \in SUBSET ObsIds
    BY DEF RowsIn
  <1>2. /\ read' = [r EXCEPT !.always = F, !.ever = RowsIn(F)]
        /\ read = NoRead /\ UNCHANGED <<vars, access>>
    BY DEF Begin
  <1>. HIDE DEF F
  <1>3. read' \in ReadRow
    BY <1>1, <1>2 DEF ReadRow
  <1>4. /\ read'.phase = r.phase /\ read'.tool = r.tool /\ read'.query = r.query
        /\ read'.limit = r.limit /\ read'.step = r.step
        /\ read'.pool = r.pool /\ read'.rows = r.rows
        /\ read'.always = F /\ read'.ever = RowsIn(F)
    BY <1>2 DEF ReadRow
  <1>. QED  BY <1>2, <1>3, <1>4 DEF F

\* The next channel, or hydration.
LEMMA NextChannelRow ==
  ASSUME NEW r \in ReadRow
  PROVE  /\ NextChannel(r) \in ReadRow
         /\ NextChannel(r).tool = r.tool /\ NextChannel(r).query = r.query
         /\ NextChannel(r).limit = r.limit /\ NextChannel(r).complete = r.complete
         /\ NextChannel(r).pool = r.pool /\ NextChannel(r).rows = r.rows
         /\ NextChannel(r).always = r.always /\ NextChannel(r).ever = r.ever
         /\ \/ /\ r.step < Len(Plan(r.query))
               /\ NextChannel(r).step = r.step + 1 /\ NextChannel(r).phase = r.phase
            \/ /\ ~(r.step < Len(Plan(r.query)))
               /\ NextChannel(r).step = r.step /\ NextChannel(r).phase = "hydrate"
  <1>1. CASE r.step < Len(Plan(r.query))
    <2>1. NextChannel(r) = [r EXCEPT !.step = r.step + 1]
      BY <1>1 DEF NextChannel
    <2>2. r.step + 1 \in Nat
      BY DEF ReadRow
    <2>3. NextChannel(r) \in ReadRow
      BY <2>1, <2>2 DEF ReadRow
    <2>. QED  BY <1>1, <2>1, <2>3 DEF ReadRow
  <1>2. CASE ~(r.step < Len(Plan(r.query)))
    <2>1. NextChannel(r) = [r EXCEPT !.phase = "hydrate"]
      BY <1>2 DEF NextChannel
    <2>2. NextChannel(r) \in ReadRow
      BY <2>1 DEF ReadRow, Phases
    <2>. QED  BY <1>2, <2>1, <2>2 DEF ReadRow
  <1>. QED  BY <1>1, <1>2

\* The rows a tool takes.
LEMMA TakenRow ==
  ASSUME read \in ReadRow, NEW rows \in SUBSET ObsIds,
         read' = [read EXCEPT !.rows = rows, !.pool = {}, !.phase = "touch"]
  PROVE  /\ read' \in ReadRow
         /\ read'.phase = "touch" /\ read'.rows = rows /\ read'.pool = {}
         /\ read'.tool = read.tool /\ read'.query = read.query
         /\ read'.limit = read.limit /\ read'.complete = read.complete
         /\ read'.always = read.always /\ read'.ever = read.ever
  <1>1. read' \in ReadRow
    BY DEF ReadRow, Phases
  <1>. QED  BY <1>1 DEF ReadRow

\* A writer's step seen by a call.
LEMMA ObservedRow ==
  ASSUME NEW r \in ReadRow, NEW d, NEW now, RowsIn(Found(d, r.query, now)) \subseteq ObsIds
  PROVE  /\ Observe(r, d, now) \in ReadRow
         /\ Observe(r, d, now).phase = r.phase /\ Observe(r, d, now).tool = r.tool
         /\ Observe(r, d, now).query = r.query /\ Observe(r, d, now).limit = r.limit
         /\ Observe(r, d, now).step = r.step /\ Observe(r, d, now).complete = r.complete
         /\ Observe(r, d, now).pool = r.pool /\ Observe(r, d, now).rows = r.rows
         /\ Observe(r, d, now).always = r.always \cap Found(d, r.query, now)
         /\ Observe(r, d, now).ever = r.ever \cup RowsIn(Found(d, r.query, now))
  <1>. DEFINE F == Found(d, r.query, now)
              a == r.always \cap F
              e == r.ever \cup RowsIn(F)
  <1>1. a \in SUBSET (Nat \X ObsIds) /\ e \in SUBSET ObsIds
    BY DEF ReadRow
  <1>2. Observe(r, d, now) = [r EXCEPT !.always = a, !.ever = e]
    BY DEF Observe
  <1>. HIDE DEF F, a, e
  <1>3. Observe(r, d, now) \in ReadRow
    BY <1>1, <1>2 DEF ReadRow
  <1>4. /\ Observe(r, d, now).phase = r.phase /\ Observe(r, d, now).tool = r.tool
        /\ Observe(r, d, now).query = r.query /\ Observe(r, d, now).limit = r.limit
        /\ Observe(r, d, now).step = r.step /\ Observe(r, d, now).complete = r.complete
        /\ Observe(r, d, now).pool = r.pool /\ Observe(r, d, now).rows = r.rows
        /\ Observe(r, d, now).always = a /\ Observe(r, d, now).ever = e
    BY <1>2 DEF ReadRow
  <1>. QED  BY <1>3, <1>4 DEF F, a, e

---------------------------------------------------------------------------
(* The inductive invariant.  ReadShape is the type of the call in progress. *)
(* Seen says what the history of a call means in the present state, and      *)
(* Collected what the channels behind a recall have brought in: all they     *)
(* would have found all along, or as many rows as a recall collects.         *)

CallShape(r) ==
    /\ r \in ReadRow
    /\ r.phase \in {"collect", "hydrate"} => r.tool = "recall"
    /\ r.phase = "rows" => r.tool # "recall"
    /\ r.phase = "collect" => r.step \in DOMAIN Plan(r.query)
    /\ r.tool = "recall" => /\ Cardinality(r.pool) <= PoolSize(r.limit)
                            /\ Cardinality(r.rows) <= r.limit

AccessShape ==
    /\ access \in [ObsIds -> 0 .. MaxAccess]
    /\ read.phase \in {"collect", "hydrate", "rows", "touch"} =>
          \A o \in ObsIds : access[o] < MaxAccess

Seen(r, d, now) ==
    /\ r.always \subseteq Found(d, r.query, now)
    /\ RowsIn(Found(d, r.query, now)) \subseteq r.ever

Enough(r) == Cardinality(r.pool) >= CollectLimit(r.limit)

Filled(r) == \/ RowsIn(r.always) \subseteq r.rows
             \/ Cardinality(r.rows) = r.limit
             \/ Cardinality(r.ever \ RowsIn(r.always)) > (Multiplier - 1) * r.limit

Behind(r) == \A p \in r.always : p[1] < r.step => p[2] \in r.pool

Collected(r) ==
    r.tool = "recall" =>
      /\ r.pool \subseteq r.ever
      /\ r.complete =>
            /\ r.phase = "collect" => Behind(r) \/ Enough(r)
            /\ r.phase = "hydrate" => RowsIn(r.always) \subseteq r.pool \/ Enough(r)
            /\ r.phase \in {"touch", "done"} => Filled(r)

ReadInv == /\ AccessShape /\ CallShape(read) /\ Collected(read)
           /\ read # NoRead => Seen(read, db, clock)

LEMMA LimitsAreNumbers ==
  /\ \A limit \in Limits : SanitizeSearchLimit(limit) \in Nat
  /\ \A n \in Nat : /\ CollectLimit(n) \in Nat /\ PoolSize(n) \in Nat
                    /\ CollectLimit(n) <= PoolSize(n)
  <1>1. \A limit \in Limits : SanitizeSearchLimit(limit) \in Nat
    BY SearchAssumption DEF SanitizeSearchLimit
  <1>2. \A n \in Nat : n * Multiplier \in Nat
    BY SearchAssumption
  <1>3. \A n \in Nat : CollectLimit(n) \in Nat
    BY <1>2 DEF CollectLimit
  <1>. QED  BY <1>1, <1>3, SearchAssumption DEF PoolSize

LEMMA EmptyCall == CallShape(NoRead) /\ Collected(NoRead)
  BY NoReadRow, FS_EmptySet, SearchAssumption, LimitsAreNumbers
  DEF CallShape, Collected

LEMMA ReadInvInit == RecallInit => ReadInv
  <1>. SUFFICES ASSUME RecallInit PROVE ReadInv
    OBVIOUS
  <1>1. AccessShape
    <2>1. MaxAccess \in Nat
      BY SearchAssumption
    <2>. QED  BY <2>1, NoReadRow DEF RecallInit, AccessShape
  <1>. QED  BY <1>1, EmptyCall DEF RecallInit, ReadInv

\* A call has begun: it has seen the present state and has no rows yet.
LEMMA BegunCall ==
  ASSUME ReadInv, RowsFit, IInv, NEW r \in ReadRow, Begin(r),
         r.phase \in {"collect", "rows"},
         r.phase = "collect" => r.tool = "recall" /\ r.step = 1 /\ r.pool = {},
         r.tool = "recall" => r.phase = "collect",
         r.rows = {}, \A o \in ObsIds : access[o] < MaxAccess
  PROVE  ReadInv'
  <1>. DEFINE F == Found(db, r.query, clock)
  <1>1. r.query \in Query /\ r.limit \in Nat
    BY DEF ReadRow
  <1>2. /\ F \subseteq (DOMAIN Plan(r.query)) \X VisibleRows(db, clock)
        /\ RowsIn(F) \subseteq VisibleRows(db, clock)
    BY <1>1, WhatIsFound
  <1>3. DOMAIN Plan(r.query) = 1 .. Len(Plan(r.query)) /\ Len(Plan(r.query)) \in Nat \ {0}
    <2>1. Plan(r.query) \in Seq(Channels \X Nat) /\ Len(Plan(r.query)) \in Nat \ {0}
      BY <1>1, PlanShape
    <2>. QED  BY <2>1
  <1>4. F \subseteq Nat \X ObsIds /\ \A p \in F : p[1] >= 1
    BY <1>2, <1>3, VisibleRowsFit
  <1>. HIDE DEF F
  <1>5. /\ read = NoRead /\ UNCHANGED <<vars, access>>
        /\ read' \in ReadRow
        /\ read'.phase = r.phase /\ read'.tool = r.tool /\ read'.query = r.query
        /\ read'.limit = r.limit /\ read'.step = r.step
        /\ read'.pool = r.pool /\ read'.rows = r.rows
        /\ read'.always = F /\ read'.ever = RowsIn(F)
    BY <1>4, BegunRow DEF F
  <1>6. AccessShape'
    BY <1>5 DEF ReadInv, AccessShape
  <1>7. CallShape(read')
    <2>1. r.tool = "recall" => /\ Cardinality(r.pool) = 0 /\ Cardinality(r.rows) = 0
      BY FS_EmptySet
    <2>2. PoolSize(r.limit) \in Nat
      BY <1>1, LimitsAreNumbers
    <2>. QED  BY <1>1, <1>3, <1>5, <2>1, <2>2 DEF CallShape
  <1>8. Collected(read')
    <2>1. r.tool = "recall" => Behind(read')
      BY <1>4, <1>5 DEF Behind
    <2>. QED  BY <1>5, <2>1 DEF Collected
  <1>9. Seen(read', db', clock')
    <2>1. db' = db /\ clock' = clock
      BY <1>5 DEF vars
    <2>. QED  BY <1>5, <2>1 DEF Seen, F
  <1>. QED  BY <1>6, <1>7, <1>8, <1>9 DEF ReadInv

\* A channel has been searched: its rows are in the pool, or the pool has enough.
LEMMA CollectKeeps ==
  ASSUME ReadInv, RowsFit, IInv, CollectChannel
  PROVE  ReadInv'
  <1>. DEFINE plan == Plan(read.query)
              step == plan[read.step]
              hits == Hits(db, read.query, step, clock)
              F == Found(db, read.query, clock)
              room == PoolSize(read.limit) - Cardinality(read.pool)
  <1>1. /\ read \in ReadRow /\ read.query \in Query /\ read.limit \in Nat
        /\ read.step \in Nat /\ read.pool \in SUBSET ObsIds
        /\ read.phase = "collect" /\ read.tool = "recall"
        /\ read.step \in DOMAIN plan
        /\ Cardinality(read.pool) <= PoolSize(read.limit)
        /\ Cardinality(read.rows) <= read.limit
    BY DEF ReadInv, CallShape, CollectChannel, ReadRow
  <1>2. /\ \A i \in DOMAIN plan : \A o :
                <<i, o>> \in F <=> o \in Hits(db, read.query, plan[i], clock)
        /\ F \subseteq (DOMAIN plan) \X VisibleRows(db, clock)
        /\ RowsIn(F) \subseteq VisibleRows(db, clock)
    BY <1>1, WhatIsFound
  <1>3. DOMAIN plan = 1 .. Len(plan) /\ Len(plan) \in Nat
    <2>1. plan \in Seq(Channels \X Nat) /\ Len(plan) \in Nat
      BY <1>1, PlanShape
    <2>. QED  BY <2>1
  <1>4. /\ read.always \subseteq F /\ RowsIn(F) \subseteq read.ever
        /\ read # NoRead
    BY <1>1, NoReadRow DEF ReadInv, Seen
  <1>5. hits \subseteq RowsIn(F) /\ hits \subseteq ObsIds
    <2>1. \A o \in hits : <<read.step, o>> \in F
      BY <1>1, <1>2
    <2>2. \A o \in hits : o = <<read.step, o>>[2]
      OBVIOUS
    <2>3. hits \subseteq RowsIn(F)
      <3>. HIDE DEF hits, F
      <3>. QED  BY <2>1, <2>2 DEF RowsIn
    <2>. HIDE DEF hits, F
    <2>. QED  BY <1>2, <2>3, VisibleRowsFit
  <1>6. /\ Cardinality(read.pool) \in Nat /\ PoolSize(read.limit) \in Nat
        /\ CollectLimit(read.limit) \in Nat
        /\ CollectLimit(read.limit) <= PoolSize(read.limit)
        /\ room \in Nat /\ Cardinality(read.pool) + room = PoolSize(read.limit)
    <2>1. Cardinality(read.pool) \in Nat
      BY <1>1, ObsIdsFinite
    <2>. QED  BY <1>1, <2>1, LimitsAreNumbers
  <1>7. PICK R \in Answers(hits, step, CollectLimit(read.limit)) :
           \E pool \in Admitted(read.pool, R, step, room) :
              read' = NextChannel([read EXCEPT !.pool = pool])
    BY DEF CollectChannel
  <1>8. PICK Q \in Admitted(read.pool, R, step, room) :
              read' = NextChannel([read EXCEPT !.pool = Q])
    BY <1>7
  <1>. HIDE DEF hits, room, F, step
  <1>9. /\ R \in SUBSET hits
        /\ R = hits \/ Cardinality(R) = CollectLimit(read.limit)
    BY <1>5, <1>6, AnswersOfAStatement
  <1>10. /\ read.pool \subseteq Q /\ Q \subseteq read.pool \cup R
         /\ Cardinality(Q) <= PoolSize(read.limit)
         /\ R \subseteq Q \/ Cardinality(Q) = PoolSize(read.limit)
    BY <1>1, <1>5, <1>6, <1>9, AdmittedRows
  <1>11. Q \in SUBSET ObsIds
    BY <1>1, <1>5, <1>9, <1>10
  <1>12. /\ Cardinality(Q) \in Nat /\ Cardinality(read.pool) <= Cardinality(Q)
         /\ R \subseteq Q => Cardinality(R) <= Cardinality(Q)
    BY <1>10, <1>11, ObsIdsFinite, FS_Subset
  <1>13. hits \subseteq Q \/ Cardinality(Q) >= CollectLimit(read.limit)
    <2>1. Cardinality(R) \in Nat
      BY <1>5, <1>9, ObsIdsFinite
    <2>. QED  BY <1>6, <1>9, <1>10, <1>12, <2>1
  <1>. DEFINE r == [read EXCEPT !.pool = Q]
  <1>14. /\ r \in ReadRow /\ r.pool = Q /\ r.tool = read.tool /\ r.query = read.query
         /\ r.limit = read.limit /\ r.complete = read.complete /\ r.rows = read.rows
         /\ r.always = read.always /\ r.ever = read.ever /\ r.step = read.step
         /\ r.phase = read.phase
    BY <1>1, <1>11 DEF ReadRow
  <1>. HIDE DEF r
  <1>15. /\ read' \in ReadRow /\ read'.pool = Q
         /\ read'.tool = "recall" /\ read'.query = read.query
         /\ read'.limit = read.limit /\ read'.complete = read.complete
         /\ read'.rows = read.rows
         /\ read'.always = read.always /\ read'.ever = read.ever
         /\ \/ /\ read.step < Len(plan)
               /\ read'.step = read.step + 1 /\ read'.phase = "collect"
            \/ /\ ~(read.step < Len(plan))
               /\ read'.step = read.step /\ read'.phase = "hydrate"
    BY <1>1, <1>8, <1>14, NextChannelRow DEF r
  <1>16. AccessShape'
    BY <1>1, <1>15 DEF ReadInv, AccessShape, CollectChannel
  <1>17. CallShape(read')
    BY <1>1, <1>3, <1>10, <1>15 DEF CallShape
  <1>18. Seen(read', db', clock')
    <2>1. db' = db /\ clock' = clock
      BY DEF CollectChannel, vars
    <2>. QED  BY <1>4, <1>15, <2>1 DEF Seen, F
  <1>19. Collected(read')
    <2>1. Q \subseteq read.ever
      BY <1>1, <1>4, <1>5, <1>9, <1>10 DEF ReadInv, Collected
    <2>2. ASSUME read.complete, ~Enough(read')
          PROVE  \A p \in read.always : p[1] <= read.step => p[2] \in Q
      <3>1. Cardinality(Q) < CollectLimit(read.limit)
        BY <1>6, <1>12, <1>15, <2>2 DEF Enough
      <3>2. Behind(read)
        BY <1>1, <1>6, <1>12, <2>2, <3>1 DEF ReadInv, Collected, Enough
      <3>3. hits \subseteq Q
        BY <1>6, <1>12, <1>13, <3>1
      <3>. SUFFICES ASSUME NEW p \in read.always, p[1] <= read.step PROVE p[2] \in Q
        OBVIOUS
      <3>4. p \in F /\ p[1] \in DOMAIN plan /\ p = <<p[1], p[2]>>
        BY <1>2, <1>4
      <3>5. CASE p[1] < read.step
        BY <1>10, <3>2, <3>5 DEF Behind
      <3>6. CASE p[1] = read.step
        <4>1. p[2] \in Hits(db, read.query, plan[p[1]], clock)
          BY <1>2, <3>4
        <4>. QED  BY <3>3, <3>6, <4>1 DEF hits, step
      <3>. QED  BY <1>1, <1>3, <3>4, <3>5, <3>6
    <2>3. CASE read'.phase = "collect"
      <3>1. read'.complete => Behind(read') \/ Enough(read')
        BY <1>1, <1>2, <1>3, <1>4, <1>15, <2>2, <2>3 DEF Behind
      <3>. QED  BY <1>15, <2>1, <2>3, <3>1 DEF Collected
    <2>4. CASE read'.phase = "hydrate"
      <3>1. \A p \in read.always : p[1] <= read.step
        BY <1>1, <1>2, <1>3, <1>4, <1>15, <2>4
      <3>2. read'.complete => RowsIn(read'.always) \subseteq read'.pool \/ Enough(read')
        BY <1>15, <2>2, <3>1 DEF RowsIn
      <3>. QED  BY <1>15, <2>1, <2>4, <3>2 DEF Collected
    <2>. QED  BY <1>15, <2>3, <2>4
  <1>. QED  BY <1>16, <1>17, <1>18, <1>19 DEF ReadInv

\* A channel that failed: the call is no longer complete.
LEMMA ErrorKeeps ==
  ASSUME ReadInv, FtsQueryError
  PROVE  ReadInv'
  <1>. DEFINE r == [read EXCEPT !.complete = FALSE]
              plan == Plan(read.query)
  <1>1. /\ read \in ReadRow /\ read.query \in Query /\ read.step \in Nat
        /\ read.phase = "collect" /\ read.tool = "recall"
        /\ read.step \in DOMAIN plan /\ read # NoRead
    BY NoReadRow DEF ReadInv, CallShape, FtsQueryError, ReadRow
  <1>2. /\ r \in ReadRow /\ r.pool = read.pool /\ r.tool = read.tool
        /\ r.query = read.query /\ r.limit = read.limit /\ r.complete = FALSE
        /\ r.rows = read.rows /\ r.always = read.always /\ r.ever = read.ever
        /\ r.step = read.step /\ r.phase = read.phase
    BY <1>1 DEF ReadRow
  <1>3. read' = NextChannel(r) /\ UNCHANGED <<vars, access>>
    BY DEF FtsQueryError
  <1>. HIDE DEF r
  <1>4. /\ read' \in ReadRow /\ read'.pool = read.pool
        /\ read'.tool = "recall" /\ read'.query = read.query
        /\ read'.limit = read.limit /\ read'.complete = FALSE
        /\ read'.rows = read.rows
        /\ read'.always = read.always /\ read'.ever = read.ever
        /\ \/ /\ read.step < Len(plan)
               /\ read'.step = read.step + 1 /\ read'.phase = "collect"
            \/ /\ ~(read.step < Len(plan))
               /\ read'.step = read.step /\ read'.phase = "hydrate"
    BY <1>1, <1>2, <1>3, NextChannelRow
  <1>5. DOMAIN plan = 1 .. Len(plan) /\ Len(plan) \in Nat
    <2>1. plan \in Seq(Channels \X Nat) /\ Len(plan) \in Nat
      BY <1>1, PlanShape
    <2>. QED  BY <2>1
  <1>6. AccessShape'
    BY <1>1, <1>3, <1>4 DEF ReadInv, AccessShape
  <1>7. CallShape(read')
    BY <1>1, <1>4, <1>5 DEF ReadInv, CallShape
  <1>8. Collected(read')
    BY <1>1, <1>4 DEF ReadInv, Collected
  <1>9. Seen(read', db', clock')
    BY <1>1, <1>3, <1>4 DEF ReadInv, Seen, vars
  <1>. QED  BY <1>6, <1>7, <1>8, <1>9 DEF ReadInv

\* A pool that was full but has lost so many rows that too few are left: more
\* came or went than the surplus.
LEMMA LeftOut ==
  ASSUME NEW pool \in SUBSET ObsIds, NEW live \in SUBSET pool, NEW limit \in Nat,
         NEW ever \in SUBSET ObsIds, NEW sure,
         pool \subseteq ever, sure \cap pool \subseteq live,
         Cardinality(live) < limit, Cardinality(pool) >= CollectLimit(limit)
  PROVE  Cardinality(ever \ sure) > (Multiplier - 1) * limit
  <1>1. /\ IsFiniteSet(pool) /\ Cardinality(pool) \in Nat /\ IsFiniteSet(live)
        /\ Cardinality(live) \in Nat /\ Cardinality(pool \ live) \in Nat
        /\ IsFiniteSet(ever \ sure) /\ Cardinality(ever \ sure) \in Nat
    BY ObsIdsFinite
  <1>2. Cardinality(pool \ live) = Cardinality(pool) - Cardinality(live)
    <2>1. pool \cap live = live
      OBVIOUS
    <2>. QED  BY <1>1, <2>1, FS_Difference
  <1>3. Cardinality(pool \ live) <= Cardinality(ever \ sure)
    <2>1. pool \ live \subseteq ever \ sure
      OBVIOUS
    <2>. QED  BY <1>1, <2>1, FS_Subset
  <1>4. (Multiplier - 1) * limit = limit * Multiplier - limit
    BY SearchAssumption
  <1>. QED  BY <1>1, <1>2, <1>3, <1>4, LimitsAreNumbers DEF CollectLimit

LEMMA HydrateKeeps ==
  ASSUME ReadInv, RowsFit, IInv, Hydrate
  PROVE  ReadInv'
  <1>. DEFINE V == VisibleRows(db, clock)
              live == read.pool \cap V
              k == IF Cardinality(live) < read.limit THEN Cardinality(live)
                                                     ELSE read.limit
              sure == RowsIn(read.always)
  <1>1. /\ read \in ReadRow /\ read.query \in Query /\ read.limit \in Nat
        /\ read.pool \in SUBSET ObsIds /\ read.ever \in SUBSET ObsIds
        /\ read.phase = "hydrate" /\ read.tool = "recall" /\ read # NoRead
    BY NoReadRow DEF ReadInv, CallShape, Hydrate, ReadRow
  <1>2. PICK rows \in kSubset(k, live) :
           read' = [read EXCEPT !.rows = rows, !.pool = {}, !.phase = "touch"]
    BY DEF Hydrate
  <1>3. sure \subseteq V /\ Seen(read, db, clock)
    <2>1. RowsIn(Found(db, read.query, clock)) \subseteq V
      BY <1>1, WhatIsFound
    <2>2. Seen(read, db, clock)
      BY <1>1 DEF ReadInv
    <2>3. RowsIn(read.always) \subseteq RowsIn(Found(db, read.query, clock))
      BY <2>2 DEF Seen, RowsIn
    <2>. QED  BY <2>1, <2>2, <2>3
  <1>4. /\ live \in SUBSET ObsIds /\ live \in SUBSET read.pool
        /\ IsFiniteSet(live) /\ Cardinality(live) \in Nat
    BY <1>1, ObsIdsFinite
  <1>. HIDE DEF live
  <1>5. rows \in SUBSET live /\ Cardinality(rows) = k
    BY <1>2 DEF kSubset
  <1>6. rows \in SUBSET ObsIds
    BY <1>4, <1>5
  <1>7. /\ read' \in ReadRow
        /\ read'.phase = "touch" /\ read'.rows = rows /\ read'.pool = {}
        /\ read'.tool = read.tool /\ read'.query = read.query
        /\ read'.limit = read.limit /\ read'.complete = read.complete
        /\ read'.always = read.always /\ read'.ever = read.ever
    BY <1>1, <1>2, <1>6, TakenRow
  <1>8. read.complete => Filled(read')
    <2>1. CASE Cardinality(live) >= read.limit
      BY <1>1, <1>4, <1>5, <1>7, <2>1 DEF Filled
    <2>2. CASE Cardinality(live) < read.limit
      <3>1. rows = live
        <4>1. Cardinality(rows) = Cardinality(live)
          BY <1>5, <2>2
        <4>. QED  BY <1>4, <1>5, <4>1, FS_Subset
      <3>2. CASE sure \subseteq read.pool
        BY <1>3, <1>7, <3>1, <3>2 DEF Filled, live
      <3>3. CASE Enough(read)
        <4>1. sure \cap read.pool \subseteq live /\ read.pool \subseteq read.ever
          BY <1>1, <1>3 DEF live, ReadInv, Collected
        <4>. HIDE DEF sure
        <4>2. Cardinality(read.ever \ sure) > (Multiplier - 1) * read.limit
          BY <1>1, <1>4, <2>2, <3>3, <4>1, LeftOut DEF Enough
        <4>. QED  BY <1>7, <4>2 DEF Filled, sure
      <3>. QED  BY <1>1, <3>2, <3>3 DEF ReadInv, Collected
    <2>. QED  BY <1>1, <1>4, <2>1, <2>2
  <1>9. AccessShape'
    BY <1>1, <1>7 DEF ReadInv, AccessShape, Hydrate
  <1>10. CallShape(read')
    <2>1. Cardinality(rows) <= read.limit
      BY <1>1, <1>4, <1>5
    <2>2. Cardinality(read'.pool) = 0 /\ PoolSize(read.limit) \in Nat
      BY <1>1, <1>7, FS_EmptySet, LimitsAreNumbers
    <2>. QED  BY <1>7, <2>1, <2>2 DEF CallShape
  <1>11. Collected(read')
    BY <1>7, <1>8 DEF Collected
  <1>12. Seen(read', db', clock')
    BY <1>3, <1>7 DEF Seen, Hydrate, vars
  <1>. QED  BY <1>9, <1>10, <1>11, <1>12 DEF ReadInv

\* The tools that do not search take their rows at once.
LEMMA RowsTaken ==
  ASSUME RowsFit, IInv, read \in ReadRow
  PROVE  RowsOf(read, db, clock) \in SUBSET ObsIds
  <1>1. VisibleRows(db, clock) \subseteq ObsIds /\ DOMAIN db.obs \subseteq ObsIds
    BY VisibleRowsFit
  <1>2. CASE read.tool = "recall_entity"
    BY <1>1, <1>2 DEF RowsOf
  <1>3. CASE read.tool = "recall_event"
    BY <1>1, <1>3 DEF RowsOf
  <1>4. CASE read.tool \notin {"recall_entity", "recall_event"}
    BY <1>1, <1>4 DEF RowsOf
  <1>. QED  BY <1>2, <1>3, <1>4

LEMMA SelectKeeps ==
  ASSUME ReadInv, RowsFit, IInv, SelectRows
  PROVE  ReadInv'
  <1>. DEFINE rows == RowsOf(read, db, clock)
  <1>1. /\ read \in ReadRow /\ read.phase = "rows" /\ read.tool # "recall"
        /\ read # NoRead
    BY NoReadRow DEF ReadInv, CallShape, SelectRows
  <1>2. rows \in SUBSET ObsIds
    BY <1>1, RowsTaken
  <1>3. read' = [read EXCEPT !.rows = rows, !.pool = {}, !.phase = "touch"]
    BY DEF SelectRows
  <1>. HIDE DEF rows
  <1>4. /\ read' \in ReadRow
        /\ read'.phase = "touch" /\ read'.tool = read.tool /\ read'.query = read.query
        /\ read'.always = read.always /\ read'.ever = read.ever
    BY <1>1, <1>2, <1>3, TakenRow
  <1>5. UNCHANGED <<vars, access>>
    BY DEF SelectRows
  <1>6. AccessShape'
    BY <1>1, <1>4, <1>5 DEF ReadInv, AccessShape
  <1>7. CallShape(read') /\ Collected(read')
    BY <1>1, <1>4 DEF CallShape, Collected
  <1>8. Seen(read', db', clock')
    BY <1>1, <1>4, <1>5 DEF ReadInv, Seen, vars
  <1>. QED  BY <1>6, <1>7, <1>8 DEF ReadInv

LEMMA TouchKeeps ==
  ASSUME ReadInv, Touch
  PROVE  ReadInv'
  <1>1. /\ read \in ReadRow /\ read.phase = "touch" /\ read # NoRead
        /\ access \in [ObsIds -> 0 .. MaxAccess]
        /\ \A o \in ObsIds : access[o] < MaxAccess
        /\ MaxAccess \in Nat
    BY NoReadRow, SearchAssumption DEF ReadInv, AccessShape, CallShape, Touch
  <1>2. read' = [read EXCEPT !.phase = "done"] /\ UNCHANGED vars
    BY DEF Touch
  <1>3. /\ read' \in ReadRow /\ read'.phase = "done"
        /\ read'.tool = read.tool /\ read'.query = read.query
        /\ read'.limit = read.limit /\ read'.complete = read.complete
        /\ read'.pool = read.pool /\ read'.rows = read.rows
        /\ read'.always = read.always /\ read'.ever = read.ever
    BY <1>1, <1>2 DEF ReadRow, Phases
  <1>4. AccessShape'
    <2>. DEFINE touched == read.rows \cap VisibleRows(db, clock)
    <2>1. access' = [o \in ObsIds |-> access[o] + (IF o \in touched THEN 1 ELSE 0)]
      BY DEF Touch
    <2>. HIDE DEF touched
    <2>2. \A o \in ObsIds : access'[o] \in 0 .. MaxAccess
      BY <1>1, <2>1
    <2>3. access' \in [ObsIds -> 0 .. MaxAccess]
      BY <2>1, <2>2
    <2>. QED  BY <1>3, <2>3 DEF AccessShape
  <1>5. CallShape(read') /\ Collected(read')
    BY <1>1, <1>3 DEF ReadInv, CallShape, Collected, Filled
  <1>6. Seen(read', db', clock')
    BY <1>1, <1>2, <1>3 DEF ReadInv, Seen, vars
  <1>. QED  BY <1>4, <1>5, <1>6 DEF ReadInv

LEMMA EndKeeps ==
  ASSUME ReadInv, Return \/ FailRead
  PROVE  ReadInv'
  <1>1. read' = NoRead /\ access' = access
    BY DEF Return, FailRead
  <1>2. AccessShape'
    BY <1>1, NoReadRow DEF ReadInv, AccessShape
  <1>. QED  BY <1>1, <1>2, EmptyCall DEF ReadInv

\* What a writer leaves of a call: fewer rows found all along, more found ever.
LEMMA WriteKeeps ==
  ASSUME ReadInv, (RowsFit /\ IInv)', WriteStep
  PROVE  ReadInv'
  <1>1. CASE read = NoRead
    <2>1. read' = NoRead /\ access' = access
      BY <1>1 DEF WriteStep
    <2>. QED  BY <1>1, <2>1 DEF ReadInv, AccessShape
  <1>2. CASE read # NoRead
    <2>. DEFINE F == Found(db', read.query, clock')
    <2>1. /\ read \in ReadRow /\ read.query \in Query /\ read.limit \in Nat
          /\ read.ever \in SUBSET ObsIds
          /\ read' = Observe(read, db', clock') /\ access' = access
      BY <1>2 DEF ReadInv, CallShape, WriteStep, ReadRow
    <2>2. RowsIn(F) \subseteq ObsIds
      <3>1. RowsIn(F) \subseteq VisibleRows(db', clock')
        BY <2>1, WhatIsFound
      <3>2. (VisibleRows(db, clock) \subseteq ObsIds)'
        BY VisibleRowsFit, PTL
      <3>. QED  BY <3>1, <3>2
    <2>3. /\ read' \in ReadRow
          /\ read'.phase = read.phase /\ read'.tool = read.tool
          /\ read'.query = read.query /\ read'.limit = read.limit
          /\ read'.step = read.step /\ read'.complete = read.complete
          /\ read'.pool = read.pool /\ read'.rows = read.rows
          /\ read'.always = read.always \cap F
          /\ read'.ever = read.ever \cup RowsIn(F)
      BY <2>1, <2>2, ObservedRow
    <2>. HIDE DEF F
    <2>4. AccessShape' /\ CallShape(read')
      BY <2>1, <2>3 DEF ReadInv, AccessShape, CallShape
    <2>5. Seen(read', db', clock')
      BY <2>3 DEF Seen, F
    <2>6. RowsIn(read'.always) \subseteq RowsIn(read.always)
      BY <2>3 DEF RowsIn
    <2>7. Filled(read) => Filled(read')
      <3>. DEFINE lost == read.ever \ RowsIn(read.always)
                  lostNow == read'.ever \ RowsIn(read'.always)
      <3>1. lost \subseteq lostNow /\ lostNow \in SUBSET ObsIds
        BY <2>1, <2>2, <2>3, <2>6
      <3>. HIDE DEF lost, lostNow
      <3>2. Cardinality(lost) <= Cardinality(lostNow)
        BY <3>1, ObsIdsFinite, FS_Subset
      <3>3. Cardinality(lost) \in Nat /\ Cardinality(lostNow) \in Nat
        BY <3>1, ObsIdsFinite
      <3>4. (Multiplier - 1) * read.limit \in Int
        BY <2>1, SearchAssumption
      <3>5. ASSUME Cardinality(lost) > (Multiplier - 1) * read.limit
            PROVE  Cardinality(lostNow) > (Multiplier - 1) * read.limit
        BY <3>2, <3>3, <3>4, <3>5
      <3>. QED  BY <2>3, <2>6, <3>5 DEF Filled, lost, lostNow
    <2>8. Collected(read')
      BY <2>3, <2>6, <2>7 DEF ReadInv, Collected, Behind, Enough
    <2>. QED  BY <2>4, <2>5, <2>8 DEF ReadInv
  <1>. QED  BY <1>1, <1>2

LEMMA StartKeeps ==
  ASSUME ReadInv, RowsFit, IInv, StartRead
  PROVE  ReadInv'
  <1>1. \A o \in ObsIds : access[o] < MaxAccess
    BY DEF StartRead
  <1>2. ASSUME NEW q \in Queries, NEW limit \in Limits, RecallTool(q, limit)
        PROVE  ReadInv'
    <2>. DEFINE r == [NoRead EXCEPT !.tool = "recall", !.phase = "collect",
                         !.query = q, !.limit = SanitizeSearchLimit(limit)]
    <2>1. q \in Query /\ SanitizeSearchLimit(limit) \in Nat
      BY AskedAssumption, LimitsAreNumbers
    <2>2. /\ r \in ReadRow /\ r.phase = "collect" /\ r.tool = "recall"
          /\ r.step = 1 /\ r.pool = {} /\ r.rows = {}
      BY <2>1, NoReadRow DEF ReadRow, Phases, Tools
    <2>3. Begin(r)
      BY <1>2 DEF RecallTool
    <2>. HIDE DEF r
    <2>. QED  BY <1>1, <2>2, <2>3, BegunCall
  <1>3. ASSUME NEW n \in Names, RecallEntity(n)
        PROVE  ReadInv'
    <2>. DEFINE r == [NoRead EXCEPT !.tool = "recall_entity", !.phase = "rows",
                                    !.name = {n}]
    <2>1. /\ r \in ReadRow /\ r.phase = "rows" /\ r.tool = "recall_entity"
          /\ r.rows = {}
      BY NoReadRow DEF ReadRow, Phases, Tools
    <2>2. Begin(r)
      BY <1>3 DEF RecallEntity
    <2>. HIDE DEF r
    <2>. QED  BY <1>1, <2>1, <2>2, BegunCall
  <1>4. ASSUME NEW e \in EventIds, RecallEvent(e)
        PROVE  ReadInv'
    <2>. DEFINE r == [NoRead EXCEPT !.tool = "recall_event", !.phase = "rows",
                                    !.event = e]
    <2>1. e \in Nat
      BY BoundsAssumption DEF EventIds
    <2>2. /\ r \in ReadRow /\ r.phase = "rows" /\ r.tool = "recall_event"
          /\ r.rows = {}
      BY <2>1, NoReadRow DEF ReadRow, Phases, Tools
    <2>3. Begin(r)
      BY <1>4 DEF RecallEvent
    <2>. HIDE DEF r
    <2>. QED  BY <1>1, <2>2, <2>3, BegunCall
  <1>5. ASSUME NEW ids \in IdLists, GetObservations(ids)
        PROVE  ReadInv'
    <2>. DEFINE r == [NoRead EXCEPT !.tool = "get_observations", !.phase = "rows",
                                    !.pool = ids]
    <2>1. ids \in SUBSET ObsIds
      BY AskedAssumption
    <2>2. /\ r \in ReadRow /\ r.phase = "rows" /\ r.tool = "get_observations"
          /\ r.rows = {}
      BY <2>1, NoReadRow DEF ReadRow, Phases, Tools
    <2>3. Begin(r)
      BY <1>5 DEF GetObservations
    <2>. HIDE DEF r
    <2>. QED  BY <1>1, <2>2, <2>3, BegunCall
  <1>. QED  BY <1>2, <1>3, <1>4, <1>5 DEF StartRead

LEMMA ReadInvStep ==
  ReadInv /\ (RowsFit /\ IInv) /\ (RowsFit /\ IInv)' /\ [RecallNext]_<<vars, readVars>>
     => ReadInv'
  <1>. SUFFICES ASSUME ReadInv, RowsFit, IInv, (RowsFit /\ IInv)',
                       [RecallNext]_<<vars, readVars>>
                PROVE  ReadInv'
    OBVIOUS
  <1>1. CASE StartRead
    BY <1>1, StartKeeps
  <1>2. CASE CollectChannel \/ FtsQueryError \/ Hydrate \/ SelectRows \/ Touch
                \/ Return \/ FailRead
    BY <1>2, CollectKeeps, ErrorKeeps, HydrateKeeps, SelectKeeps, TouchKeeps, EndKeeps
  <1>3. CASE WriteStep
    BY <1>3, WriteKeeps
  <1>4. CASE UNCHANGED <<vars, readVars>>
    BY <1>4 DEF ReadInv, AccessShape, vars, readVars
  <1>. QED  BY <1>1, <1>2, <1>3, <1>4 DEF RecallNext, ReadStep

---------------------------------------------------------------------------
(* What the read tools promise.                                            *)

LEMMA ReadsBesideWrites == RecallSpec => [](IInv /\ RowsFit /\ ReadInv)
  <1>1. RecallInit => IInv /\ RowsFit /\ ReadInv
    BY InitGood, RowsFitInit, ReadInvInit DEF RecallInit
  <1>2. IInv /\ RowsFit /\ ReadInv /\ [RecallNext]_<<vars, readVars>>
           => (IInv /\ RowsFit /\ ReadInv)'
    <2>1. ReadInv /\ (RowsFit /\ IInv) /\ (RowsFit /\ IInv)'
             /\ [RecallNext]_<<vars, readVars>> => ReadInv'
      BY ReadInvStep
    <2>2. IInv /\ RowsFit /\ [RecallNext]_<<vars, readVars>> => IInv' /\ RowsFit'
      BY ReadersWriteNothing, NextGood, RowsFitStep
    <2>. QED  BY <2>1, <2>2
  <1>. QED  BY <1>1, <1>2, PTL DEF RecallSpec

\* The pool of a recall and its answer keep to their limits, whatever is
\* written meanwhile.
THEOREM ReadTypes == RecallSpec => []ReadsTypeOK
  <1>1. ReadInv => ReadsTypeOK
    BY DEF ReadInv, AccessShape, CallShape, ReadRow, ReadsTypeOK
  <1>. QED  BY <1>1, ReadsBesideWrites, PTL

\* Overcollection: a recall that misses a fact one channel would have found all
\* along is full, or its surplus was outrun by what came and went.
THEOREM OvercollectionCorrect == RecallSpec => []RecallFillsLimit
  <1>1. ReadInv => RecallFillsLimit
    BY DEF ReadInv, Collected, Filled, RecallFillsLimit
  <1>. QED  BY <1>1, ReadsBesideWrites, PTL

\* No read tool takes a row that is hidden when it takes it.  recall_entity,
\* which reads an entity's rows without asking for the entity again, is right
\* because nothing is left undeleted under a tombstone.
THEOREM OnlyVisibleIsRead == NoDrift /\ RecallSpec => ReadsOnlyVisible
  <1>. DEFINE P == read'.rows \subseteq read.rows \cup VisibleRows(db, clock)
  <1>1. TInv /\ ReadInv /\ [RecallNext]_<<vars, readVars>> => P
    <2>. SUFFICES ASSUME TInv, ReadInv, [RecallNext]_<<vars, readVars>> PROVE P
      OBVIOUS
    <2>1. read \in ReadRow
      BY DEF ReadInv, CallShape
    <2>2. CASE StartRead
      <3>1. ASSUME NEW q, NEW limit, RecallTool(q, limit) PROVE read'.rows = {}
        BY <3>1 DEF RecallTool, Begin, NoRead
      <3>2. ASSUME NEW n, RecallEntity(n) PROVE read'.rows = {}
        BY <3>2 DEF RecallEntity, Begin, NoRead
      <3>3. ASSUME NEW e, RecallEvent(e) PROVE read'.rows = {}
        BY <3>3 DEF RecallEvent, Begin, NoRead
      <3>4. ASSUME NEW ids, GetObservations(ids) PROVE read'.rows = {}
        BY <3>4 DEF GetObservations, Begin, NoRead
      <3>. QED  BY <2>2, <3>1, <3>2, <3>3, <3>4 DEF StartRead
    <2>3. CASE CollectChannel
      <3>1. PICK Q : read' = NextChannel([read EXCEPT !.pool = Q])
        BY <2>3 DEF CollectChannel
      <3>. QED  BY <2>1, <3>1 DEF NextChannel, ReadRow
    <2>4. CASE FtsQueryError
      BY <2>1, <2>4 DEF FtsQueryError, NextChannel, ReadRow
    <2>5. CASE Hydrate
      <3>. DEFINE live == read.pool \cap VisibleRows(db, clock)
      <3>1. PICK rows \in SUBSET live :
               read' = [read EXCEPT !.rows = rows, !.pool = {}, !.phase = "touch"]
        BY <2>5 DEF Hydrate, kSubset
      <3>. QED  BY <2>1, <3>1 DEF ReadRow
    <2>6. CASE SelectRows
      <3>1. read' = [read EXCEPT !.rows = RowsOf(read, db, clock), !.pool = {},
                                 !.phase = "touch"]
        BY <2>6 DEF SelectRows
      <3>2. RowsOf(read, db, clock) \subseteq VisibleRows(db, clock)
        <4>1. CASE read.tool = "recall_entity"
          <5>. SUFFICES ASSUME NEW o \in DOMAIN db.obs, ActiveObservation(db, o, clock)
                        PROVE  Visible(db, o, clock)
            BY <4>1 DEF RowsOf, VisibleRows
          <5>1. db.obs[o].ent \in Names
            BY RowsAreFacts DEF TInv, IInv, Good
          <5>. QED  BY <5>1 DEF TInv, Tidy, Swept, Visible, ActiveObservation, Live
        <4>2. CASE read.tool = "recall_event"
          BY <4>2 DEF RowsOf
        <4>3. CASE read.tool \notin {"recall_entity", "recall_event"}
          BY <4>3 DEF RowsOf
        <4>. QED  BY <4>1, <4>2, <4>3
      <3>. QED  BY <2>1, <3>1, <3>2 DEF ReadRow
    <2>7. CASE Touch
      BY <2>1, <2>7 DEF Touch, ReadRow
    <2>8. CASE Return \/ FailRead
      BY <2>8 DEF Return, FailRead, NoRead
    <2>9. CASE WriteStep
      BY <2>1, <2>9 DEF WriteStep, Observe, ReadRow
    <2>10. CASE UNCHANGED <<vars, readVars>>
      BY <2>10 DEF readVars
    <2>. QED  BY <2>2, <2>3, <2>4, <2>5, <2>6, <2>7, <2>8, <2>9, <2>10
              DEF RecallNext, ReadStep
  <1>2. RecallInit => Init
    BY DEF RecallInit
  <1>. QED  BY <1>1, <1>2, TidyInit, TidyStep, ReadersWriteNothing,
              ReadsBesideWrites, PTL DEF ReadsOnlyVisible, RecallSpec

\* An access is counted once, for a row that is about to be returned and is
\* visible at that moment.
THEOREM AccessesCorrect == RecallSpec => TouchedWereReturned
  <1>. DEFINE P == \A o \in ObsIds : access'[o] # access[o] =>
                      /\ access'[o] = access[o] + 1
                      /\ o \in read.rows
                      /\ Visible(db', o, clock')
  <1>1. ReadInv /\ [RecallNext]_<<vars, readVars>> => P
    <2>. SUFFICES ASSUME ReadInv, [RecallNext]_<<vars, readVars>> PROVE P
      OBVIOUS
    <2>1. CASE Touch
      <3>. DEFINE touched == read.rows \cap VisibleRows(db, clock)
      <3>1. /\ access' = [o \in ObsIds |-> access[o] + (IF o \in touched THEN 1 ELSE 0)]
            /\ db' = db /\ clock' = clock
        BY <2>1 DEF Touch, vars
      <3>2. \A o \in ObsIds : access[o] \in Int
        BY DEF ReadInv, AccessShape
      <3>3. \A o \in touched : o \in read.rows /\ Visible(db', o, clock')
        BY <3>1 DEF VisibleRows
      <3>. HIDE DEF touched
      <3>. QED  BY <3>1, <3>2, <3>3
    <2>2. CASE access' = access
      BY <2>2
    <2>. QED
      BY <2>1, <2>2
      DEF RecallNext, StartRead, ReadStep, WriteStep, RecallTool, RecallEntity,
          RecallEvent, GetObservations, Begin, CollectChannel, FtsQueryError,
          Hydrate, SelectRows, Return, FailRead, readVars
  <1>. QED  BY <1>1, ReadsBesideWrites, PTL DEF TouchedWereReturned, RecallSpec

---------------------------------------------------------------------------
(* The semantic report beside the writers.  ReportInv: every row and edge   *)
(* has its entity; and the open transaction, which a commit will publish,    *)
(* has left nothing under a tombstone and no vector of a deleted row that    *)
(* the database it began with had not.                                       *)

ReportRow == [phase : {"none", "scanned", "selected", "embedding", "ready"},
              asOf : Nat, scan : SUBSET Names, rows : SUBSET Nat,
              missing : SUBSET Nat]

Owned(d) ==
    /\ \A o \in DOMAIN d.obs : d.ent[d.obs[o].ent].state # "absent"
    /\ \A r \in d.rel : /\ d.ent[r.from].state # "absent"
                        /\ d.ent[r.to].state # "absent"

NoWorse(d, w) == /\ Leaked(w) \subseteq Leaked(d)
                 /\ \A n \in Names : Swept(d, n) => Swept(w, n)

ReportInv == /\ IInv /\ rep \in ReportRow
             /\ Owned(db) /\ Owned(tx.work)
             /\ NoWorse(db, tx.work)

LEMMA CleanIsSwept ==
  ASSUME NEW d, NEW n
  PROVE  Clean(d, n) <=> Swept(d, n)
  BY DEF Clean, Swept, ObsOf, Undeleted

\* A write brings no row or edge without an entity.
LEMMA WrittenOwned ==
  ASSUME IInv, NEW d, Good(d, clock), Owned(d), NEW w, Written(d, w)
  PROVE  Owned(w)
  <1>1. /\ d \in Database /\ clock \in Nat
        /\ \A o \in DOMAIN d.obs : d.obs[o].ent \in Names
        /\ \A r \in d.rel : r.from \in Names /\ r.to \in Names
    <2>1. d \in Database /\ clock \in Nat
      BY DEF IInv, Good
    <2>2. \A r \in d.rel : r.from \in Names /\ r.to \in Names
      BY <2>1 DEF Database, Relation
    <2>. QED  BY <2>1, <2>2, RowsAreFacts
  <1>2. ASSUME NEW n \in Names, NEW c, NEW e, NEW looked,
               Stored(d, w, n, c, e, looked, clock)
        PROVE  Owned(w)
    <2>1. \A m \in Names : d.ent[m].state # "absent" => w.ent[m].state # "absent"
      BY <1>2 DEF Stored
    <2>2. \A o \in DOMAIN w.obs : \/ o \in DOMAIN d.obs /\ w.obs[o] = d.obs[o]
                                  \/ w.obs[o].ent = n
      BY <1>2 DEF Stored, Carries
    <2>3. w.ent[n].state # "absent" /\ w.rel = d.rel
      BY <1>2 DEF Stored
    <2>. QED  BY <1>1, <2>1, <2>2, <2>3 DEF Owned
  <1>3. ASSUME NEW n \in Names, NEW m \in Names, NEW k, Related(d, w, n, m, k)
        PROVE  Owned(w)
    <2>1. \A i \in Names : d.ent[i].state # "absent" => w.ent[i].state # "absent"
      BY <1>3 DEF Related
    <2>2. /\ w.ent[n].state # "absent" /\ w.ent[m].state # "absent" /\ w.obs = d.obs
          /\ \A r \in w.rel : r \in d.rel \/ (r.from = n /\ r.to = m)
      BY <1>3 DEF Related
    <2>. QED  BY <1>1, <2>1, <2>2 DEF Owned
  <1>4. ASSUME NEW S, Erased(d, w, S), w.ent = d.ent, w.rel = d.rel
        PROVE  Owned(w)
    BY <1>4 DEF Erased, Owned
  <1>5. ASSUME NEW n \in Names, Forgotten(d, w, n) PROVE Owned(w)
    <2>1. \A m \in Names : d.ent[m].state # "absent" => w.ent[m].state # "absent"
      BY <1>5 DEF Forgotten
    <2>2. /\ DOMAIN w.obs = DOMAIN d.obs /\ w.rel \subseteq d.rel
          /\ \A o \in DOMAIN d.obs : w.obs[o].ent = d.obs[o].ent
      BY <1>5 DEF Forgotten, Erased
    <2>. QED  BY <1>1, <2>1, <2>2 DEF Owned
  <1>6. ASSUME Remarked(d, w) PROVE Owned(w)
    BY <1>6 DEF Remarked, Owned
  <1>7. \/ \E n \in Names, c \in Contents, e \in Nat, looked \in Recent :
              Stored(d, w, n, c, e, looked, clock)
        \/ \E n, i \in Names, k \in Kinds : Related(d, w, n, i, k)
        \/ \E o \in ObsIds : Erased(d, w, {o}) /\ w.ent = d.ent /\ w.rel = d.rel
        \/ \E n \in Names : Forgotten(d, w, n)
        \/ Remarked(d, w)
    BY MarkedStep DEF Written
  <1>. QED  BY <1>2, <1>3, <1>4, <1>5, <1>6, <1>7

\* A write that deletes rows drops their vectors.
LEMMA WrittenLeaks ==
  ASSUME IInv, NEW d, Good(d, clock), NEW w, Written(d, w)
  PROVE  Leaked(w) \subseteq Leaked(d)
  <1>1. ASSUME NEW n, NEW c, NEW e, NEW looked, Stored(d, w, n, c, e, looked, clock)
        PROVE  Leaked(w) \subseteq Leaked(d)
    BY <1>1 DEF Stored, Leaked
  <1>2. ASSUME NEW n, NEW m, NEW k, Related(d, w, n, m, k)
        PROVE  Leaked(w) \subseteq Leaked(d)
    BY <1>2 DEF Related, Leaked
  <1>3. ASSUME NEW S, Erased(d, w, S)
        PROVE  Leaked(w) \subseteq Leaked(d)
    BY <1>3 DEF Erased, Leaked
  <1>4. ASSUME Remarked(d, w) PROVE Leaked(w) \subseteq Leaked(d)
    BY <1>4 DEF Remarked, Leaked
  <1>5. \/ \E n \in Names, c \in Contents, e \in Nat, looked \in Recent :
              Stored(d, w, n, c, e, looked, clock)
        \/ \E n, i \in Names, k \in Kinds : Related(d, w, n, i, k)
        \/ \E o \in ObsIds : Erased(d, w, {o})
        \/ \E n \in Names : Erased(d, w, ObsOf(d, n))
        \/ Remarked(d, w)
    BY MarkedStep DEF Written, Forgotten
  <1>. QED  BY <1>1, <1>2, <1>3, <1>4, <1>5

LEMMA WrittenNoWorse ==
  ASSUME IInv, NEW d, Good(d, clock), NEW w, Written(d, w)
  PROVE  NoWorse(d, w)
  BY WrittenLeaks, WrittenSwept DEF NoWorse

LEMMA EmptyIsOwned ==
  Owned(EmptyDatabase) /\ \A d : NoWorse(d, EmptyDatabase)
  <1>1. Owned(EmptyDatabase) /\ Leaked(EmptyDatabase) = {}
    BY DEF EmptyDatabase, Owned, Leaked
  <1>2. \A n \in Names : Swept(EmptyDatabase, n)
    BY EmptyIsTidy DEF Tidy
  <1>. QED  BY <1>1, <1>2 DEF NoWorse

LEMMA ReportInit0 == ReportInit => ReportInv
  <1>. SUFFICES ASSUME ReportInit PROVE ReportInv
    OBVIOUS
  <1>1. db \in Seeds /\ tx.work = EmptyDatabase /\ IInv
    BY InitGood, NoTxIsTransaction DEF ReportInit, Init
  <1>2. Owned(db)
    BY <1>1, SeedsAssumption DEF Owned
  <1>3. rep \in ReportRow
    BY DEF ReportInit, NoReport, ReportRow
  <1>. QED  BY <1>1, <1>2, <1>3, EmptyIsOwned DEF ReportInv

LEMMA SameIsNoWorse ==
  ASSUME NEW d, NEW w, w.ent = d.ent, w.obs = d.obs, w.rel = d.rel, w.emb = d.emb
  PROVE  NoWorse(d, w) /\ (Owned(d) => Owned(w))
  BY DEF NoWorse, Leaked, Swept, Owned

LEMMA NoWorseChain ==
  ASSUME NEW d, NEW u, NEW w, NoWorse(d, u), NoWorse(u, w)
  PROVE  NoWorse(d, w)
  BY DEF NoWorse

\* No writer makes the database worse.
LEMMA WritersKeepReport ==
  ASSUME ReportInv, [Next]_vars, rep' = rep
  PROVE  ReportInv' /\ NoWorse(db, db')
  <1>1. /\ IInv /\ IInv' /\ Good(db, clock) /\ Good(tx.work, clock)
        /\ tx.work \in Database /\ db \in Database
        /\ rep' \in ReportRow /\ NoWorse(db, tx.work)
        /\ Owned(db) /\ Owned(tx.work) /\ NoWorse(db, db)
    BY NextGood, SameIsNoWorse DEF ReportInv, IInv, Good
  <1>2. ASSUME db' = db, Owned(tx'.work), NoWorse(db, tx'.work)
        PROVE  ReportInv' /\ NoWorse(db, db')
    BY <1>1, <1>2 DEF ReportInv
  <1>3. ASSUME tx'.work = EmptyDatabase, Owned(db'), NoWorse(db, db')
        PROVE  ReportInv' /\ NoWorse(db, db')
    BY <1>1, <1>3, EmptyIsOwned DEF ReportInv
  <1>4. CASE UNCHANGED vars \/ Tick
    BY <1>1, <1>2, <1>4 DEF vars, Tick
  <1>5. CASE UNCHANGED <<clock, tx>> /\ tx = NoTx /\ Written(db, db')
    BY <1>1, <1>3, <1>5, NoTxIsTransaction, WrittenOwned, WrittenNoWorse
  <1>6. CASE UNCHANGED <<db, clock>> /\ tx'.work = db
    BY <1>1, <1>2, <1>6
  <1>7. ASSUME NEW x \in Nat, UNCHANGED <<db, clock>>, tx'.work = CreateEvent(db, x)
        PROVE  ReportInv' /\ NoWorse(db, db')
    <2>1. Owned(tx'.work) /\ NoWorse(db, tx'.work)
      BY <1>1, <1>7, EventCreated, SameIsNoWorse
    <2>. QED  BY <1>2, <1>7, <2>1
  <1>8. CASE UNCHANGED <<db, clock>> /\ Worked(tx.work, tx'.work)
    <2>1. Written(tx.work, tx'.work)
      BY <1>8 DEF Worked, Written
    <2>2. Owned(tx'.work) /\ NoWorse(tx.work, tx'.work)
      BY <1>1, <2>1, WrittenOwned, WrittenNoWorse
    <2>. QED  BY <1>1, <1>2, <1>8, <2>2, NoWorseChain
  <1>9. CASE CommitFacts
    BY <1>1, <1>3, <1>9, NoTxIsTransaction DEF CommitFacts
  <1>10. CASE AbortFacts
    BY <1>1, <1>2, <1>10, NoTxIsTransaction, EmptyIsOwned DEF AbortFacts
  <1>. QED  BY <1>1, <1>4, <1>5, <1>6, <1>7, <1>8, <1>9, <1>10, Steps

\* A vector cached by the report: rows, edges and tombstones are as before.
LEMMA CachedVectors ==
  ASSUME ReportInv, CacheVectors
  PROVE  /\ ReportInv'
         /\ \A n \in Names : Swept(db, n) => Swept(db', n)
         /\ \A o \in Leaked(db') \ Leaked(db) :
               rep.phase = "embedding" /\ o \in rep.missing /\ o \notin db.emb
  <1>1. /\ db \in Database /\ rep \in ReportRow /\ clock \in Nat /\ tx \in Transaction
        /\ Good(db, clock) /\ Good(tx.work, clock) /\ Owned(db)
        /\ rep.missing \in SUBSET Nat
    BY DEF ReportInv, IInv, Good, ReportRow
  <1>2. /\ tx = NoTx /\ UNCHANGED <<clock, tx>> /\ rep.phase = "embedding"
        /\ db' = [db EXCEPT !.emb = @ \cup rep.missing]
        /\ rep' = [rep EXCEPT !.phase = "ready"]
    BY DEF CacheVectors, Idle
  <1>3. /\ db' \in Database /\ db'.ent = db.ent /\ db'.obs = db.obs /\ db'.rel = db.rel
        /\ db'.fts = db.fts /\ db'.runs = db.runs /\ db'.dec = db.dec
        /\ db'.emb = db.emb \cup rep.missing
    BY <1>1, <1>2 DEF Database
  <1>4. Good(db', clock')
    BY <1>1, <1>2, <1>3, FrameKeeps
  <1>5. IInv'
    BY <1>1, <1>2, <1>4 DEF IInv
  <1>6. rep' \in ReportRow
    BY <1>1, <1>2 DEF ReportRow
  <1>7. Owned(db') /\ \A n \in Names : Swept(db, n) => Swept(db', n)
    BY <1>1, <1>3 DEF Owned, Swept
  <1>8. ReportInv'
    BY <1>2, <1>5, <1>6, <1>7, NoTxIsTransaction, EmptyIsOwned DEF ReportInv
  <1>9. \A o \in Leaked(db') \ Leaked(db) : o \in rep.missing /\ o \notin db.emb
    BY <1>3 DEF Leaked
  <1>. QED  BY <1>2, <1>7, <1>8, <1>9

\* The report's other steps write nothing.
LEMMA ReportKeeps ==
  ASSUME ReportInv, UNCHANGED vars,
         \/ \E cutoff \in 0 .. MaxTime, S \in SUBSET Names : ScanEntities(cutoff, S)
         \/ SelectObservations \/ LoadVectors \/ FailReport \/ EmitReport
  PROVE  ReportInv'
  <1>1. /\ rep \in ReportRow /\ clock \in Nat /\ db.obs \in Seq(ObsRow)
        /\ NoReport \in ReportRow
    BY DEF ReportInv, IInv, Good, Database, NoReport, ReportRow
  <1>2. ASSUME NEW cutoff, NEW S \in SUBSET Names, ScanEntities(cutoff, S)
        PROVE  rep' \in ReportRow
    <2>1. rep' = [phase |-> "scanned", asOf |-> clock, scan |-> S,
                  rows |-> {}, missing |-> {}]
      BY <1>2 DEF ScanEntities, NoReport
    <2>. QED  BY <1>1, <1>2, <2>1 DEF ReportRow
  <1>3. ASSUME SelectObservations  PROVE rep' \in ReportRow
    <2>. DEFINE rows == UNION {Considered(db, n, rep.asOf) : n \in rep.scan}
    <2>1. rows \subseteq DOMAIN db.obs
      BY DEF Considered, ActiveOf, ObsOf
    <2>2. rows \in SUBSET Nat
      <3>1. DOMAIN db.obs \subseteq Nat
        BY <1>1
      <3>. QED  BY <2>1, <3>1
    <2>3. rep' = [rep EXCEPT !.phase = "selected", !.rows = rows]
      BY <1>3 DEF SelectObservations
    <2>. HIDE DEF rows
    <2>. QED  BY <1>1, <2>2, <2>3 DEF ReportRow
  <1>4. ASSUME LoadVectors  PROVE rep' \in ReportRow
    <2>. DEFINE missing == rep.rows \ db.emb
                next == IF missing = {} THEN "ready" ELSE "embedding"
    <2>1. \/ rep' = NoReport
          \/ rep' = [rep EXCEPT !.phase = next, !.missing = missing]
      BY <1>4 DEF LoadVectors
    <2>2. missing \in SUBSET Nat
      BY <1>1 DEF ReportRow
    <2>. HIDE DEF missing
    <2>3. next \in {"ready", "embedding"}
      OBVIOUS
    <2>. HIDE DEF next
    <2>. QED  BY <1>1, <2>1, <2>2, <2>3 DEF ReportRow
  <1>5. ASSUME FailReport \/ EmitReport  PROVE rep' \in ReportRow
    BY <1>1, <1>5 DEF FailReport, EmitReport
  <1>6. rep' \in ReportRow
    BY <1>2, <1>3, <1>4, <1>5
  <1>. QED  BY <1>6 DEF ReportInv, vars, IInv

LEMMA ReportMoves ==
  ASSUME ReportInv, [ReportNext]_<<vars, rep>>
  PROVE  /\ ReportInv'
         /\ \A n \in Names : Swept(db, n) => Swept(db', n)
         /\ \A o \in Leaked(db') \ Leaked(db) :
               rep.phase = "embedding" /\ o \in rep.missing /\ o \notin db.emb
  <1>1. CASE [Next]_vars /\ rep' = rep
    BY <1>1, WritersKeepReport DEF NoWorse
  <1>2. CASE CacheVectors
    BY <1>2, CachedVectors
  <1>3. CASE /\ UNCHANGED vars
             /\ \/ \E cutoff \in 0 .. MaxTime, S \in SUBSET Names : ScanEntities(cutoff, S)
                \/ SelectObservations \/ LoadVectors \/ FailReport \/ EmitReport
    BY <1>3, ReportKeeps DEF vars
  <1>. QED
    BY <1>1, <1>2, <1>3
    DEF ReportNext, ReportStep, ScanEntities, SelectObservations, LoadVectors,
        FailReport, EmitReport

\* Forgetting an entity of a drifted import cleans it for good, whatever is
\* written or reported later, and though a transaction was begun before.
THEOREM DriftIsRepaired == ReportSpec => ForgetRepairsDrift
  <1>. DEFINE P == \A n \in Names :
                      (Idle /\ db' = ForgetEntity(db, n)) \/ Clean(db, n)
                         => Clean(db', n)
  <1>1. ReportInv /\ [ReportNext]_<<vars, rep>> => P
    <2>. SUFFICES ASSUME ReportInv, [ReportNext]_<<vars, rep>>, NEW n \in Names,
                         db' = ForgetEntity(db, n) \/ Clean(db, n)
                  PROVE  Swept(db', n)
      BY CleanIsSwept
    <2>1. CASE Clean(db, n)
      BY <2>1, CleanIsSwept, ReportMoves
    <2>2. CASE db' = ForgetEntity(db, n) /\ db.ent[n].state = "absent"
      <3>1. db' = db
        BY <2>2 DEF ForgetEntity
      <3>. QED  BY <2>2, <3>1 DEF ReportInv, Owned, Swept
    <2>3. CASE db' = ForgetEntity(db, n) /\ db.ent[n].state # "absent"
      <3>1. db \in Database
        BY DEF ReportInv, IInv, Good
      <3>2. /\ Erased(db, db', ObsOf(db, n))
            /\ db'.rel = {r \in db.rel : r.from # n /\ r.to # n}
        BY <2>3, <3>1, ForgetEntityErases
      <3>. QED  BY <3>2 DEF Erased, ObsOf, Swept
    <2>. QED  BY <2>1, <2>2, <2>3
  <1>2. ReportInv /\ [ReportNext]_<<vars, rep>> => ReportInv'
    BY ReportMoves
  <1>. QED  BY <1>1, <1>2, ReportInit0, PTL DEF ReportSpec, ForgetRepairsDrift

\* No path of forget leaves a vector behind: only a report that had asked for
\* it writes the vector of a deleted row.
THEOREM LeaksAreTheReports == ReportSpec => OnlyReportsLeakVectors
  <1>. DEFINE P == \A o \in Leaked(db') \ Leaked(db) :
                      rep.phase = "embedding" /\ o \in rep.missing /\ o \notin db.emb
  <1>1. ReportInv /\ [ReportNext]_<<vars, rep>> => P /\ ReportInv'
    BY ReportMoves
  <1>. QED  BY <1>1, ReportInit0, PTL DEF ReportSpec, OnlyReportsLeakVectors

===========================================================================
