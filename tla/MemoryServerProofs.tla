------------------------ MODULE MemoryServerProofs ------------------------
(***************************************************************************)
(* Proofs about MemoryServer for every number of entities, contents, rows,  *)
(* events, runs and seconds.                                                *)
(*                                                                          *)
(* IInv (shape, index and audit, of the committed database and of the       *)
(* transaction's working copy) is inductive by itself.  Lemma Steps then    *)
(* says what each step does in terms of a few predicates on the databases   *)
(* before and after it (Stored, Related, Erased, Forgotten, Remarked), and  *)
(* three more invariants rest on those: AInv (events), TInv (tombstones)    *)
(* and WInv (the working copy against the committed database).              *)
(***************************************************************************)
EXTENDS MemoryServer, WellFoundedInduction, TLAPS

---------------------------------------------------------------------------
(* Sequences updated row by row.                                           *)

\* A row-by-row update of a table is a table of the same length.
LEMMA UpdatedTable ==
    ASSUME NEW R, NEW s \in Seq(R), NEW f,
           f = [o \in DOMAIN s |-> f[o]],
           \A o \in DOMAIN s : f[o] \in R
    PROVE  f \in Seq(R) /\ Len(f) = Len(s) /\ DOMAIN f = DOMAIN s
  <1>1. DOMAIN s = 1 .. Len(s) /\ Len(s) \in Nat
    OBVIOUS
  <1>2. f \in [1 .. Len(s) -> R]
    BY <1>1
  <1>3. f \in Seq(R) /\ Len(f) = Len(s)
    BY <1>1, <1>2
  <1>. QED  BY <1>1, <1>2, <1>3

\* A row of a table is a row.
LEMMA RowOfTable ==
    ASSUME NEW R, NEW s \in Seq(R), NEW o \in DOMAIN s
    PROVE  s[o] \in R
  OBVIOUS

\* Appending a row keeps the rows and their ids.
LEMMA AppendedTable ==
    ASSUME NEW R, NEW s \in Seq(R), NEW r \in R
    PROVE  /\ Append(s, r) \in Seq(R)
           /\ Len(Append(s, r)) = Len(s) + 1
           /\ DOMAIN Append(s, r) = DOMAIN s \cup {Len(s) + 1}
           /\ Len(s) + 1 \notin DOMAIN s
           /\ \A o \in DOMAIN s : Append(s, r)[o] = s[o]
           /\ Append(s, r)[Len(s) + 1] = r
  OBVIOUS

---------------------------------------------------------------------------
(* The invariant of one database: committed or being worked on.            *)

Good(d, now) == /\ d \in Database
                /\ IndexMatches(d)
                /\ AuditBacks(d)
                /\ \A o \in DOMAIN d.obs : d.obs[o].created <= now

\* Writes that touch neither rows, index nor audit tables keep the rest.
LEMMA FrameKeeps ==
    ASSUME NEW d, NEW e, NEW now, Good(d, now), e \in Database,
           e.obs = d.obs, e.fts = d.fts, e.runs = d.runs, e.dec = d.dec
    PROVE  Good(e, now)
  <1>1. IndexMatches(e)
    BY DEF Good, IndexMatches, PostingOf, Undeleted
  <1>2. AuditBacks(e)
    BY DEF Good, AuditBacks, CurrentSources, Newer, DecisionsOf
  <1>. QED  BY <1>1, <1>2 DEF Good

LEMMA UpsertKeeps ==
    ASSUME NEW d, NEW now, Good(d, now),
           NEW n \in Names, NEW t \in Types \cup {NoType}
    PROVE  /\ Good(UpsertEntity(d, n, t), now)
           /\ UpsertEntity(d, n, t).obs = d.obs
           /\ UpsertEntity(d, n, t).events = d.events
           /\ UpsertEntity(d, n, t).rel = d.rel
           /\ UpsertEntity(d, n, t).ent[n].state = "live"
  <1>. DEFINE u == UpsertEntity(d, n, t)
  <1>1. u \in Database
    BY DEF Good, UpsertEntity, Database, EntityRow
  <1>2. /\ u.obs = d.obs /\ u.fts = d.fts /\ u.runs = d.runs
        /\ u.dec = d.dec /\ u.events = d.events /\ u.rel = d.rel
        /\ u.ent[n].state = "live"
    BY DEF Good, UpsertEntity, Database, EntityRow
  <1>3. Good(u, now)
    BY <1>1, <1>2, FrameKeeps
  <1>. QED  BY <1>2, <1>3

\* The new row and its posting enter together; no audit row can name it yet.
LEMMA InsertKeeps ==
    ASSUME NEW d, NEW now \in Nat, Good(d, now), NEW n \in Names,
           NEW c \in Contents, NEW e \in Nat
    PROVE  Good(InsertRow(d, n, c, e, now), now)
  <1>. DEFINE id  == Len(d.obs) + 1
              row == [ent |-> n, content |-> c, type |-> d.ent[n].type,
                      event |-> e, created |-> now, deleted |-> FALSE,
                      by |-> NoObs, run |-> NoRun]
              new == [id |-> id, ent |-> n, content |-> c, type |-> row.type]
              f   == InsertRow(d, n, c, e, now)
  <1>1. d \in Database /\ d.obs \in Seq(ObsRow) /\ Len(d.obs) \in Nat
    BY DEF Good, Database
  <1>2. row \in ObsRow
    BY <1>1 DEF ObsRow, Database, EntityRow, NoObs, NoRun
  <1>3. /\ f.obs = Append(d.obs, row) /\ f.fts = d.fts \cup {new}
        /\ f.ent = d.ent /\ f.rel = d.rel /\ f.events = d.events
        /\ f.runs = d.runs /\ f.dec = d.dec /\ f.emb = d.emb
    BY <1>1 DEF InsertRow, Database
  <1>4. /\ f.obs \in Seq(ObsRow)
        /\ DOMAIN f.obs = DOMAIN d.obs \cup {id} /\ id \notin DOMAIN d.obs
        /\ \A o \in DOMAIN d.obs : f.obs[o] = d.obs[o]
        /\ f.obs[id] = row
    <2>. HIDE DEF f, row
    <2>1. /\ Append(d.obs, row) \in Seq(ObsRow)
          /\ DOMAIN Append(d.obs, row) = DOMAIN d.obs \cup {id}
          /\ id \notin DOMAIN d.obs
          /\ \A o \in DOMAIN d.obs : Append(d.obs, row)[o] = d.obs[o]
          /\ Append(d.obs, row)[id] = row
      BY <1>1, <1>2, AppendedTable
    <2>. QED  BY <1>3, <2>1
  <1>5. f \in Database
    <2>1. new \in Posting
      BY <1>1, <1>2 DEF Posting, ObsRow
    <2>. QED  BY <1>1, <1>3, <1>4, <2>1 DEF Database, InsertRow
  <1>6. IndexMatches(f)
    <2>1. Undeleted(f, DOMAIN f.obs) = Undeleted(d, DOMAIN d.obs) \cup {id}
      BY <1>4 DEF Undeleted
    <2>2. \A o \in DOMAIN d.obs : PostingOf(f, o) = PostingOf(d, o)
      BY <1>4 DEF PostingOf
    <2>3. PostingOf(f, id) = new
      BY <1>4 DEF PostingOf
    <2>4. d.fts = {PostingOf(d, o) : o \in Undeleted(d, DOMAIN d.obs)}
      BY DEF Good, IndexMatches
    <2>5. Undeleted(d, DOMAIN d.obs) \subseteq DOMAIN d.obs
      BY DEF Undeleted
    <2>. QED  BY <1>3, <2>1, <2>2, <2>3, <2>4, <2>5 DEF IndexMatches
  <1>7. AuditBacks(f)
    <2>1. \A x \in d.dec : CurrentSources(f, x) = CurrentSources(d, x)
      <3>. TAKE x \in d.dec
      <3>1. x.target \in DOMAIN d.obs
        BY DEF Good, AuditBacks
      <3>2. x.target # NoObs
        BY <1>1, <3>1 DEF NoObs
      <3>. QED  BY <1>4, <3>2 DEF CurrentSources
    <2>2. \A x \in d.dec, o \in DOMAIN d.obs :
             Newer(d, x.target, o) => Newer(f, x.target, o)
      BY <1>4 DEF Newer, Good, AuditBacks
    <2>3. \A x \in d.dec : CurrentSources(d, x) \subseteq DOMAIN d.obs
      BY DEF CurrentSources
    <2>4. f.obs[id].by = NoObs
      BY <1>4
    <2>5. AuditBacks(d)
      BY DEF Good
    <2>. HIDE DEF f
    <2>6. \A o \in DOMAIN f.obs :
            f.obs[o].by # NoObs =>
              \E x \in f.dec : /\ x.reverted = NoRun
                               /\ o \in x.sources \cap CurrentSources(f, x)
      BY <1>3, <1>4, <2>1, <2>4, <2>5 DEF AuditBacks
    <2>7. ASSUME NEW x \in f.dec, x.reverted = NoRun
          PROVE  /\ x.sources = CurrentSources(f, x)
                 /\ \A o \in x.sources : Newer(f, x.target, o)
      BY <1>3, <2>1, <2>2, <2>3, <2>5, <2>7 DEF AuditBacks
    <2>8. \A x \in f.dec : DecisionsOf(f, x.run) = DecisionsOf(d, x.run)
      BY <1>3 DEF DecisionsOf
    <2>. QED  BY <1>3, <1>4, <2>5, <2>6, <2>7, <2>8 DEF AuditBacks
  <1>8. \A o \in DOMAIN f.obs : f.obs[o].created <= now
    BY <1>4 DEF Good
  <1>. QED  BY <1>5, <1>6, <1>7, <1>8 DEF Good

LEMMA AddObservationKeeps ==
    ASSUME NEW d, NEW now \in Nat, Good(d, now), NEW n \in Names,
           NEW c \in Contents, NEW e \in Nat, NEW looked
    PROVE  Good(AddObservation(d, n, c, e, looked, now), now)
  BY InsertKeeps DEF AddObservation

LEMMA StoreFactKeeps ==
    ASSUME NEW d, NEW now \in Nat, Good(d, now), NEW n \in Names,
           NEW t \in Types \cup {NoType}, NEW c \in Contents,
           NEW e \in Nat, NEW looked
    PROVE  Good(StoreFact(d, n, t, c, e, looked, now), now)
  BY UpsertKeeps, AddObservationKeeps DEF StoreFact

LEMMA CreateEventKeeps ==
    ASSUME NEW d, NEW now, Good(d, now), NEW expires \in Nat
    PROVE  Good(CreateEvent(d, expires), now)
  <1>. DEFINE e == CreateEvent(d, expires)
  <1>1. e.events \in Seq(Nat)
    BY DEF Good, Database, CreateEvent
  <1>2. /\ e.obs = d.obs /\ e.fts = d.fts /\ e.runs = d.runs
        /\ e.dec = d.dec /\ e \in Database
    BY <1>1 DEF Good, Database, CreateEvent
  <1>. QED  BY <1>2, FrameKeeps

LEMMA RelateKeeps ==
    ASSUME NEW d, NEW now, Good(d, now), NEW n \in Names, NEW m \in Names,
           NEW k \in Kinds
    PROVE  Good(RelateEntities(d, n, m, k), now)
  <1>. DEFINE u == UpsertEntity(UpsertEntity(d, n, NoType), m, NoType)
              e == RelateEntities(d, n, m, k)
  <1>1. Good(u, now)
    BY UpsertKeeps
  <1>2. [from |-> n, to |-> m, kind |-> k] \in Relation
    BY DEF Relation
  <1>. HIDE DEF u
  <1>3. e = [u EXCEPT !.rel = @ \cup {[from |-> n, to |-> m, kind |-> k]}]
    BY DEF u, RelateEntities
  <1>. HIDE DEF e
  <1>4. /\ e.obs = u.obs /\ e.fts = u.fts /\ e.runs = u.runs
        /\ e.dec = u.dec /\ e \in Database
    BY <1>1, <1>2, <1>3 DEF Good, Database
  <1>. QED  BY <1>1, <1>4, FrameKeeps DEF e

\* Tombstoning rows moves no supersession mark and no audit row.
LEMMA MarksKept ==
    ASSUME NEW d, NEW e, AuditBacks(d), e.runs = d.runs, e.dec = d.dec,
           DOMAIN e.obs = DOMAIN d.obs,
           \A o \in DOMAIN d.obs :
              /\ e.obs[o].ent = d.obs[o].ent
              /\ e.obs[o].content = d.obs[o].content
              /\ e.obs[o].created = d.obs[o].created
              /\ e.obs[o].by = d.obs[o].by
              /\ e.obs[o].run = d.obs[o].run
    PROVE  AuditBacks(e)
  <1>1. \A x : CurrentSources(e, x) = CurrentSources(d, x)
    BY DEF CurrentSources
  <1>2. \A x \in d.dec, o \in DOMAIN d.obs :
           Newer(d, x.target, o) => Newer(e, x.target, o)
    BY DEF Newer, AuditBacks
  <1>3. \A x : CurrentSources(d, x) \subseteq DOMAIN d.obs
    BY DEF CurrentSources
  <1>4. \A o \in DOMAIN e.obs :
          e.obs[o].by # NoObs =>
            \E x \in e.dec : /\ x.reverted = NoRun
                             /\ o \in x.sources \cap CurrentSources(e, x)
    BY <1>1 DEF AuditBacks
  <1>5. \A x \in e.dec :
          /\ x.run \in DOMAIN e.runs /\ e.runs[x.run].mode = "apply"
          /\ x.target \in DOMAIN e.obs
          /\ x.reverted = NoRun =>
                /\ x.sources = CurrentSources(e, x)
                /\ \A o \in x.sources : Newer(e, x.target, o)
          /\ x.reverted # NoRun =>
                /\ x.reverted \in DOMAIN e.runs
                /\ e.runs[x.reverted].mode = "rollback"
                /\ \A y \in DecisionsOf(e, x.run) : y.reverted = x.reverted
    BY <1>1, <1>2, <1>3 DEF AuditBacks, DecisionsOf
  <1>. QED  BY <1>4, <1>5 DEF AuditBacks

\* Every forget path: the postings dropped are those of the rows tombstoned.
LEMMA EraseKeeps ==
    ASSUME NEW d, NEW now, Good(d, now), NEW S, S \subseteq DOMAIN d.obs
    PROVE  /\ Good(EraseRows(d, S), now)
           /\ DOMAIN EraseRows(d, S).obs = DOMAIN d.obs
           /\ EraseRows(d, S).ent = d.ent
           /\ EraseRows(d, S).rel = d.rel
  <1>. DEFINE gone == Undeleted(d, S)
              t == Tombstone(d, gone)
              e == EraseRows(d, S)
  <1>1. d \in Database /\ d.obs \in Seq(ObsRow)
    BY DEF Good, Database
  <1>2. /\ t = [o \in DOMAIN d.obs |-> t[o]]
        /\ \A o \in DOMAIN d.obs :
             /\ t[o] \in ObsRow
             /\ t[o].deleted = (d.obs[o].deleted \/ o \in gone)
             /\ t[o].ent = d.obs[o].ent /\ t[o].content = d.obs[o].content
             /\ t[o].type = d.obs[o].type /\ t[o].created = d.obs[o].created
             /\ t[o].by = d.obs[o].by /\ t[o].run = d.obs[o].run
    <2>1. t = [o \in DOMAIN d.obs |-> t[o]]
      BY DEF Tombstone
    <2>2. ASSUME NEW o \in DOMAIN d.obs
          PROVE  /\ t[o] \in ObsRow
                 /\ t[o].deleted = (d.obs[o].deleted \/ o \in gone)
                 /\ t[o].ent = d.obs[o].ent /\ t[o].content = d.obs[o].content
                 /\ t[o].type = d.obs[o].type
                 /\ t[o].created = d.obs[o].created
                 /\ t[o].by = d.obs[o].by /\ t[o].run = d.obs[o].run
      <3>1. d.obs[o] \in ObsRow
        BY <1>1
      <3>2. t[o] = IF o \in gone THEN [d.obs[o] EXCEPT !.deleted = TRUE]
                                 ELSE d.obs[o]
        BY DEF Tombstone
      <3>3. CASE o \in gone
        <4>. HIDE DEF t, gone
        <4>. QED  BY <3>1, <3>2, <3>3 DEF ObsRow
      <3>4. CASE o \notin gone
        <4>. HIDE DEF t, gone
        <4>1. d.obs[o].deleted \in BOOLEAN
          BY <3>1 DEF ObsRow
        <4>. QED  BY <3>1, <3>2, <3>4, <4>1
      <3>. QED  BY <3>3, <3>4
    <2>. QED  BY <2>1, <2>2
  <1>3. t \in Seq(ObsRow) /\ DOMAIN t = DOMAIN d.obs
    <2>. HIDE DEF t
    <2>. QED  BY <1>1, <1>2, UpdatedTable
  <1>4. /\ e.obs = t
        /\ e.fts = d.fts \ {PostingOf(d, o) : o \in gone}
        /\ e.emb = d.emb \ S
        /\ e.ent = d.ent /\ e.rel = d.rel /\ e.events = d.events
        /\ e.runs = d.runs /\ e.dec = d.dec
        /\ e = [d EXCEPT !.fts = e.fts, !.obs = e.obs, !.emb = e.emb]
    BY <1>1 DEF EraseRows, Database
  <1>. HIDE DEF t, e
  <1>5. e \in Database
    BY <1>1, <1>3, <1>4 DEF Database
  <1>6. IndexMatches(e)
    <2>1. Undeleted(e, DOMAIN e.obs) = Undeleted(d, DOMAIN d.obs) \ gone
      BY <1>2, <1>3, <1>4 DEF Undeleted
    <2>2. \A o \in DOMAIN d.obs : PostingOf(e, o) = PostingOf(d, o)
      BY <1>2, <1>4 DEF PostingOf
    <2>3. \A o, p : PostingOf(d, o) = PostingOf(d, p) => o = p
      BY DEF PostingOf
    <2>4. d.fts = {PostingOf(d, o) : o \in Undeleted(d, DOMAIN d.obs)}
      BY DEF Good, IndexMatches
    <2>5. /\ Undeleted(d, DOMAIN d.obs) \subseteq DOMAIN d.obs
          /\ gone \subseteq Undeleted(d, DOMAIN d.obs)
      BY DEF Undeleted
    <2>. HIDE DEF gone
    <2>6. e.fts = {PostingOf(d, o) : o \in Undeleted(d, DOMAIN d.obs) \ gone}
      <3>1. \A p \in e.fts :
               \E o \in Undeleted(d, DOMAIN d.obs) \ gone : p = PostingOf(d, o)
        BY <1>4, <2>4
      <3>2. \A o \in Undeleted(d, DOMAIN d.obs) \ gone :
               PostingOf(d, o) \in e.fts
        <4>. TAKE o \in Undeleted(d, DOMAIN d.obs) \ gone
        <4>1. PostingOf(d, o) \in d.fts
          BY <2>4
        <4>2. \A x \in gone : PostingOf(d, x) # PostingOf(d, o)
          BY <2>3
        <4>. QED  BY <1>4, <4>1, <4>2
      <3>. QED  BY <3>1, <3>2
    <2>. QED  BY <2>1, <2>2, <2>5, <2>6 DEF IndexMatches
  <1>7. AuditBacks(e)
    BY <1>2, <1>3, <1>4, MarksKept DEF Good
  <1>8. \A o \in DOMAIN e.obs : e.obs[o].created <= now
    BY <1>2, <1>3, <1>4 DEF Good
  <1>. QED  BY <1>3, <1>4, <1>5, <1>6, <1>7, <1>8 DEF Good, e

LEMMA ForgetObservationKeeps ==
    ASSUME NEW d, NEW now, Good(d, now), NEW o
    PROVE  Good(ForgetObservation(d, o), now)
  <1>1. CASE o \in DOMAIN d.obs
    BY <1>1, EraseKeeps DEF ForgetObservation
  <1>2. CASE o \notin DOMAIN d.obs
    <2>. DEFINE e == [d EXCEPT !.emb = @ \ {o}]
    <2>1. /\ e \in Database /\ e.obs = d.obs /\ e.fts = d.fts
          /\ e.runs = d.runs /\ e.dec = d.dec
      BY DEF Good, Database
    <2>2. Good(e, now)
      BY <2>1, FrameKeeps
    <2>. QED  BY <1>2, <2>2 DEF ForgetObservation
  <1>. QED  BY <1>1, <1>2

LEMMA ForgetEntityKeeps ==
    ASSUME NEW d, NEW now, Good(d, now), NEW n \in Names
    PROVE  Good(ForgetEntity(d, n), now)
  <1>. DEFINE u == EraseRows(d, ObsOf(d, n))
              e == [u EXCEPT !.rel = {r \in @ : r.from # n /\ r.to # n},
                             !.ent[n].state = "tombstone"]
  <1>1. Good(u, now)
    BY EraseKeeps DEF ObsOf
  <1>. HIDE DEF u
  <1>2. /\ e \in Database /\ e.obs = u.obs /\ e.fts = u.fts
        /\ e.runs = u.runs /\ e.dec = u.dec
    <2>1. u \in Database
      BY <1>1 DEF Good
    <2>2. [u.ent EXCEPT ![n].state = "tombstone"] \in [Names -> EntityRow]
      BY <2>1 DEF Database, EntityRow
    <2>3. e = [u EXCEPT !.rel = e.rel, !.ent = e.ent]
      BY <2>1 DEF Database
    <2>4. /\ e.rel \subseteq u.rel
          /\ e.ent = [u.ent EXCEPT ![n].state = "tombstone"]
      BY <2>1 DEF Database
    <2>. HIDE DEF e
    <2>. QED  BY <2>1, <2>2, <2>3, <2>4 DEF Database
  <1>3. Good(e, now)
    BY <1>1, <1>2, FrameKeeps
  <1>. QED  BY <1>3 DEF ForgetEntity, u

---------------------------------------------------------------------------
(* Reconcile.                                                              *)

\* A bounded, non-empty set of naturals has a largest member.
LEMMA LargestExists ==
    ASSUME NEW S \in SUBSET Nat, S # {}, NEW b \in Nat,
           \A k \in S : k <= b
    PROVE  \E m \in S : \A k \in S : k <= m
  <1>. DEFINE T == {b - k : k \in S}
  <1>1. T \subseteq Nat /\ T # {}
    <2>1. \A k \in S : b - k \in Nat
      OBVIOUS
    <2>. QED  BY <2>1
  <1>2. PICK t \in T : \A u \in T : <<u, t>> \notin OpToRel(<, Nat)
    <2>. HIDE DEF T
    <2>. QED  BY <1>1, WFMin, NatLessThanWellFounded, Zenon
  <1>3. \A u \in T : ~(u < t)
    <2>. HIDE DEF T
    <2>. QED  BY <1>1, <1>2 DEF OpToRel
  <1>4. PICK m \in S : t = b - m
    OBVIOUS
  <1>5. \A k \in S : k <= m
    <2>. TAKE k \in S
    <2>1. ~(b - k < b - m)
      BY <1>3, <1>4
    <2>. QED  BY <2>1
  <1>. QED  BY <1>5

\* Among the visible copies of a fact one is newer than all the others, so
\* the target of a group is one of its rows.
LEMMA TargetIsNewest ==
    ASSUME NEW d, NEW now \in Nat, Good(d, now), NEW f, NEW asOf,
           Carriers(d, f[1], f[2], asOf) # {}
    PROVE  /\ Target(d, f, asOf) \in Carriers(d, f[1], f[2], asOf)
           /\ \A p \in Carriers(d, f[1], f[2], asOf) \ {Target(d, f, asOf)} :
                Newer(d, Target(d, f, asOf), p)
  <1>. DEFINE C == Carriers(d, f[1], f[2], asOf)
              T == {d.obs[o].created : o \in C}
  <1>1. /\ C \subseteq 1 .. Len(d.obs) /\ Len(d.obs) \in Nat
        /\ \A o \in C : d.obs[o].created \in Nat /\ d.obs[o].created <= now
    <2>1. d.obs \in Seq(ObsRow) /\ C \subseteq DOMAIN d.obs
      BY DEF Good, Database, Carriers
    <2>. HIDE DEF C
    <2>2. DOMAIN d.obs = 1 .. Len(d.obs) /\ Len(d.obs) \in Nat
      BY <2>1
    <2>3. \A o \in DOMAIN d.obs : d.obs[o] \in ObsRow
      BY <2>1
    <2>. QED  BY <2>1, <2>2, <2>3 DEF Good, ObsRow
  <1>. HIDE DEF C
  <1>2. PICK t \in T : \A k \in T : k <= t
    <2>1. T \in SUBSET Nat /\ T # {} /\ \A k \in T : k <= now
      BY <1>1 DEF C
    <2>. HIDE DEF T
    <2>. QED  BY <2>1, LargestExists
  <1>. DEFINE N == {o \in C : d.obs[o].created = t}
  <1>3. PICK m \in N : \A k \in N : k <= m
    <2>1. N # {}
      OBVIOUS
    <2>2. \A k \in N : k \in Nat /\ k <= Len(d.obs)
      BY <1>1
    <2>. HIDE DEF N
    <2>. QED  BY <1>1, <2>1, <2>2, LargestExists
  <1>4. \A p \in C \ {m} : Newer(d, m, p)
    <2>. TAKE p \in C \ {m}
    <2>1. d.obs[p].created <= t /\ d.obs[m].created = t
      BY <1>2, <1>3
    <2>2. d.obs[p].created = t => p < m
      BY <1>1, <1>3
    <2>3. d.obs[p].created \in Nat /\ t \in Nat /\ p \in Nat /\ m \in Nat
      BY <1>1, <1>3
    <2>4. d.obs[m].created > d.obs[p].created
          \/ (d.obs[m].created = d.obs[p].created /\ m > p)
      <3>1. CASE d.obs[p].created = t
        BY <2>1, <2>2, <2>3, <3>1
      <3>2. CASE d.obs[p].created # t
        BY <2>1, <2>3, <3>2
      <3>. QED  BY <3>1, <3>2
    <2>. QED  BY <2>4 DEF Newer
  <1>5. \E o \in C : \A p \in C \ {o} : Newer(d, o, p)
    BY <1>3, <1>4
  <1>6. Target(d, f, asOf) =
           CHOOSE o \in C : \A p \in C \ {o} : Newer(d, o, p)
    BY DEF Target, C
  <1>. QED  BY <1>5, <1>6 DEF C

\* Changing marks leaves what the index and the creation times say.
LEMMA RemarkKeeps ==
    ASSUME NEW d, NEW e, NEW now, Good(d, now), e.fts = d.fts,
           DOMAIN e.obs = DOMAIN d.obs,
           \A o \in DOMAIN d.obs :
              /\ e.obs[o].ent = d.obs[o].ent
              /\ e.obs[o].content = d.obs[o].content
              /\ e.obs[o].type = d.obs[o].type
              /\ e.obs[o].created = d.obs[o].created
              /\ e.obs[o].deleted = d.obs[o].deleted
    PROVE  /\ IndexMatches(e)
           /\ \A o \in DOMAIN e.obs : e.obs[o].created <= now
  <1>1. IndexMatches(e)
    <2>1. Undeleted(e, DOMAIN e.obs) = Undeleted(d, DOMAIN d.obs)
      BY DEF Undeleted
    <2>2. \A o \in DOMAIN d.obs : PostingOf(e, o) = PostingOf(d, o)
      BY DEF PostingOf
    <2>3. Undeleted(d, DOMAIN d.obs) \subseteq DOMAIN d.obs
      BY DEF Undeleted
    <2>4. d.fts = {PostingOf(d, o) : o \in Undeleted(d, DOMAIN d.obs)}
      BY DEF Good, IndexMatches
    <2>. QED  BY <2>1, <2>2, <2>3, <2>4 DEF IndexMatches
  <1>2. \A o \in DOMAIN e.obs : e.obs[o].created <= now
    BY DEF Good
  <1>. QED  BY <1>1, <1>2

\* The rows of one apply run, its decisions, and the groups they stand for.
LEMMA ApplyKeeps ==
    ASSUME NEW d, NEW now \in Nat, Good(d, now),
           NEW S \in SUBSET Names, NEW asOf, NEW scope \in Scopes
    PROVE  Good(ApplyExactDuplicates(d, S, asOf, scope), now)
  <1>. DEFINE run    == Len(d.runs) + 1
              row    == [mode |-> "apply", scope |-> scope]
              groups == DuplicateFacts(d, S, asOf)
              T(f)   == Target(d, f, asOf)
              Hidden(o) == /\ FactOf(d, o) \in groups
                           /\ o \in Sources(d, FactOf(d, o), asOf)
              t == [o \in DOMAIN d.obs |->
                      IF Hidden(o)
                      THEN [d.obs[o] EXCEPT !.by  = T(FactOf(d, o)),
                                            !.run = run]
                      ELSE d.obs[o]]
              Dec(f) == [run |-> run, ent |-> f[1], content |-> f[2],
                         target |-> T(f), sources |-> Sources(d, f, asOf),
                         reverted |-> NoRun]
              new == {Dec(f) : f \in groups}
              e == ApplyExactDuplicates(d, S, asOf, scope)
  <1>1. /\ d \in Database /\ d.obs \in Seq(ObsRow) /\ d.runs \in Seq(RunRow)
        /\ run \in Nat /\ run \notin DOMAIN d.runs /\ run # NoRun
        /\ DOMAIN d.obs \subseteq Nat \ {0}
    BY DEF Good, Database, NoRun
  <1>2. \A f \in groups :
          /\ f \in Names \X Contents
          /\ T(f) \in Carriers(d, f[1], f[2], asOf)
          /\ Sources(d, f, asOf) \subseteq Carriers(d, f[1], f[2], asOf)
          /\ \A p \in Sources(d, f, asOf) : Newer(d, T(f), p)
          /\ T(f) \notin Sources(d, f, asOf)
    <2>. TAKE f \in groups
    <2>1. f \in Names \X Contents /\ Carriers(d, f[1], f[2], asOf) # {}
      BY DEF DuplicateFacts
    <2>2. /\ T(f) \in Carriers(d, f[1], f[2], asOf)
          /\ \A p \in Carriers(d, f[1], f[2], asOf) \ {T(f)} :
                Newer(d, T(f), p)
      BY <2>1, TargetIsNewest
    <2>. QED  BY <2>1, <2>2 DEF Sources
  <1>3. \A f, o : o \in Carriers(d, f[1], f[2], asOf) =>
                    /\ o \in DOMAIN d.obs
                    /\ d.obs[o].ent = f[1] /\ d.obs[o].content = f[2]
                    /\ d.obs[o].by = NoObs
    BY DEF Carriers, Visible, ActiveObservation
  <1>4. \A f \in groups, o \in DOMAIN d.obs :
          d.obs[o].ent = f[1] /\ d.obs[o].content = f[2] => FactOf(d, o) = f
    BY <1>2 DEF FactOf
  <1>. HIDE DEF groups, run
  <1>5. /\ e.obs = t /\ e.runs = Append(d.runs, row)
        /\ e.dec = d.dec \cup new /\ e.fts = d.fts
        /\ e = [d EXCEPT !.obs = e.obs, !.runs = e.runs, !.dec = e.dec]
    BY <1>1 DEF ApplyExactDuplicates, Database, groups, run
  <1>6. /\ t = [o \in DOMAIN d.obs |-> t[o]]
        /\ \A o \in DOMAIN d.obs :
             /\ Hidden(o) => t[o] = [d.obs[o] EXCEPT !.by  = T(FactOf(d, o)),
                                                     !.run = run]
             /\ ~Hidden(o) => t[o] = d.obs[o]
    OBVIOUS
  <1>7. \A o \in DOMAIN d.obs :
          Hidden(o) => /\ T(FactOf(d, o)) \in Nat \ {0}
                       /\ d.obs[o].by = NoObs
    BY <1>1, <1>2, <1>3
  <1>. HIDE DEF T, Hidden, t, e
  <1>8. /\ t \in Seq(ObsRow) /\ DOMAIN t = DOMAIN d.obs
        /\ \A o \in DOMAIN d.obs :
              /\ t[o].ent = d.obs[o].ent /\ t[o].content = d.obs[o].content
              /\ t[o].type = d.obs[o].type
              /\ t[o].created = d.obs[o].created
              /\ t[o].deleted = d.obs[o].deleted
    <2>1. ASSUME NEW o \in DOMAIN d.obs
          PROVE  /\ t[o] \in ObsRow
                 /\ t[o].ent = d.obs[o].ent /\ t[o].content = d.obs[o].content
                 /\ t[o].type = d.obs[o].type
                 /\ t[o].created = d.obs[o].created
                 /\ t[o].deleted = d.obs[o].deleted
      <3>1. d.obs[o] \in ObsRow
        BY <1>1, RowOfTable
      <3>2. CASE Hidden(o)
        <4>1. T(FactOf(d, o)) \in Nat
          BY <1>7, <3>2
        <4>2. t[o] = [d.obs[o] EXCEPT !.by = T(FactOf(d, o)), !.run = run]
          BY <1>6, <3>2
        <4>3. PICK b \in Nat : t[o] = [d.obs[o] EXCEPT !.by = b, !.run = run]
          BY <4>1, <4>2
        <4>4. run \in Nat
          BY <1>1
        <4>. QED  BY <3>1, <4>3, <4>4 DEF ObsRow
      <3>3. CASE ~Hidden(o)
        BY <1>6, <3>1, <3>3
      <3>. QED  BY <3>2, <3>3
    <2>2. t \in Seq(ObsRow) /\ DOMAIN t = DOMAIN d.obs
      BY <1>1, <1>6, <2>1, UpdatedTable
    <2>. QED  BY <2>1, <2>2
  <1>9. \A o \in DOMAIN d.obs :
          /\ Hidden(o) => t[o].by = T(FactOf(d, o)) /\ t[o].run = run
          /\ ~Hidden(o) => t[o].by = d.obs[o].by /\ t[o].run = d.obs[o].run
    <2>. TAKE o \in DOMAIN d.obs
    <2>1. d.obs[o] \in ObsRow
      BY <1>1, RowOfTable
    <2>. QED  BY <1>6, <2>1 DEF ObsRow
  <1>10. e \in Database
    <2>1. row \in RunRow /\ Append(d.runs, row) \in Seq(RunRow)
      <3>1. row \in RunRow
        BY DEF RunRow
      <3>. QED  BY <1>1, <3>1, AppendedTable
    <2>2. new \subseteq Decision
      <3>. SUFFICES ASSUME NEW f \in groups
                    PROVE  Dec(f) \in Decision
        OBVIOUS
      <3>1. /\ f[1] \in Names /\ f[2] \in Contents /\ T(f) \in Nat
            /\ Sources(d, f, asOf) \in SUBSET Nat
        BY <1>1, <1>2, <1>3
      <3>. QED  BY <1>1, <3>1 DEF Decision, NoRun
    <2>3. d.dec \cup new \subseteq Decision
      BY <1>1, <2>2 DEF Database
    <2>. HIDE DEF new, row
    <2>. QED  BY <1>1, <1>5, <1>8, <2>1, <2>3 DEF Database
  <1>11. IndexMatches(e) /\ \A o \in DOMAIN e.obs : e.obs[o].created <= now
    BY <1>5, <1>8, RemarkKeeps
  <1>12. AuditBacks(e)
    <2>1. \A x \in d.dec : /\ x.run \in DOMAIN d.runs /\ x.run # run
                           /\ x.target # NoObs /\ x.target \in DOMAIN d.obs
      BY <1>1 DEF Good, AuditBacks, NoObs
    <2>2. \A x \in d.dec : CurrentSources(e, x) = CurrentSources(d, x)
      <3>. TAKE x \in d.dec
      <3>1. \A o \in DOMAIN d.obs :
              (t[o].by = x.target /\ t[o].run = x.run) <=>
              (d.obs[o].by = x.target /\ d.obs[o].run = x.run)
        BY <1>7, <1>9, <2>1
      <3>. QED  BY <1>5, <1>8, <3>1 DEF CurrentSources
    <2>3. \A o \in DOMAIN d.obs : d.obs[o].by # NoObs => d.obs[o].run # run
      BY <2>1 DEF Good, AuditBacks, CurrentSources
    <2>4. ASSUME NEW f \in groups
          PROVE  CurrentSources(e, Dec(f)) = Sources(d, f, asOf)
      <3>1. ASSUME NEW o \in DOMAIN d.obs
            PROVE  (/\ t[o].by = T(f) /\ t[o].run = run
                    /\ t[o].ent = f[1] /\ t[o].content = f[2])
                   <=> o \in Sources(d, f, asOf)
        <4>1. CASE Hidden(o)
          BY <1>2, <1>3, <1>4, <1>8, <1>9, <4>1 DEF Hidden
        <4>2. CASE ~Hidden(o)
          <5>1. o \notin Sources(d, f, asOf)
            BY <1>2, <1>3, <1>4, <4>2 DEF Hidden
          <5>2. T(f) # NoObs
            BY <1>1, <1>2, <1>3 DEF NoObs
          <5>3. t[o].by = T(f) => t[o].run # run
            BY <1>9, <2>3, <4>2, <5>2
          <5>. QED  BY <5>1, <5>3
        <4>. QED  BY <4>1, <4>2
      <3>2. Sources(d, f, asOf) \subseteq DOMAIN d.obs
        BY <1>2, <1>3
      <3>. QED  BY <1>5, <1>8, <3>1, <3>2 DEF CurrentSources
    <2>5. \A o, p \in DOMAIN d.obs : Newer(d, o, p) => Newer(e, o, p)
      BY <1>5, <1>8 DEF Newer
    <2>6. ASSUME NEW o \in DOMAIN e.obs, e.obs[o].by # NoObs
          PROVE  \E x \in e.dec : /\ x.reverted = NoRun
                                  /\ o \in x.sources \cap CurrentSources(e, x)
      <3>1. CASE Hidden(o)
        <4>1. FactOf(d, o) \in groups
              /\ o \in Sources(d, FactOf(d, o), asOf)
          BY <3>1 DEF Hidden
        <4>. QED  BY <1>5, <2>4, <4>1
      <3>2. CASE ~Hidden(o)
        <4>1. PICK x \in d.dec : /\ x.reverted = NoRun
                                 /\ o \in x.sources \cap CurrentSources(d, x)
          BY <1>5, <1>8, <1>9, <2>6, <3>2 DEF Good, AuditBacks
        <4>. QED  BY <1>5, <2>2, <4>1
      <3>. QED  BY <3>1, <3>2
    <2>7. /\ DOMAIN e.runs = DOMAIN d.runs \cup {run}
          /\ \A r \in DOMAIN d.runs : e.runs[r] = d.runs[r]
          /\ e.runs[run] = row
      <3>1. row \in RunRow
        BY DEF RunRow
      <3>. HIDE DEF row
      <3>2. /\ DOMAIN Append(d.runs, row) =
                  DOMAIN d.runs \cup {Len(d.runs) + 1}
            /\ \A r \in DOMAIN d.runs : Append(d.runs, row)[r] = d.runs[r]
            /\ Append(d.runs, row)[Len(d.runs) + 1] = row
        BY <1>1, <3>1, AppendedTable
      <3>. QED  BY <1>5, <3>2 DEF run
    <2>8. ASSUME NEW x \in d.dec
          PROVE  /\ x.run \in DOMAIN e.runs /\ e.runs[x.run].mode = "apply"
                 /\ x.target \in DOMAIN e.obs
                 /\ x.reverted = NoRun =>
                      /\ x.sources = CurrentSources(e, x)
                      /\ \A o \in x.sources : Newer(e, x.target, o)
                 /\ x.reverted # NoRun =>
                      /\ x.reverted \in DOMAIN e.runs
                      /\ e.runs[x.reverted].mode = "rollback"
                      /\ \A y \in DecisionsOf(e, x.run) :
                            y.reverted = x.reverted
      <3>1. DecisionsOf(e, x.run) = DecisionsOf(d, x.run)
        <4>1. \A y \in new : y.run = run
          OBVIOUS
        <4>. HIDE DEF new
        <4>. QED  BY <1>5, <2>1, <4>1 DEF DecisionsOf
      <3>2. CurrentSources(d, x) \subseteq DOMAIN d.obs
        BY DEF CurrentSources
      <3>3. /\ x.run \in DOMAIN d.runs /\ d.runs[x.run].mode = "apply"
            /\ x.target \in DOMAIN d.obs
            /\ x.reverted = NoRun =>
                  /\ x.sources = CurrentSources(d, x)
                  /\ \A o \in x.sources : Newer(d, x.target, o)
            /\ x.reverted # NoRun =>
                  /\ x.reverted \in DOMAIN d.runs
                  /\ d.runs[x.reverted].mode = "rollback"
                  /\ \A y \in DecisionsOf(d, x.run) :
                        y.reverted = x.reverted
        BY DEF Good, AuditBacks
      <3>4. DOMAIN e.obs = DOMAIN d.obs
        BY <1>5, <1>8
      <3>. QED  BY <2>2, <2>5, <2>7, <3>1, <3>2, <3>3, <3>4
    <2>9. ASSUME NEW f \in groups
          PROVE  /\ Dec(f).run \in DOMAIN e.runs
                 /\ e.runs[Dec(f).run].mode = "apply"
                 /\ Dec(f).target \in DOMAIN e.obs
                 /\ Dec(f).reverted = NoRun
                 /\ Dec(f).sources = CurrentSources(e, Dec(f))
                 /\ \A o \in Dec(f).sources : Newer(e, Dec(f).target, o)
      <3>1. T(f) \in DOMAIN d.obs /\ Sources(d, f, asOf) \subseteq DOMAIN d.obs
        BY <1>2, <1>3
      <3>2. \A o \in Sources(d, f, asOf) : Newer(e, T(f), o)
        BY <1>2, <2>5, <3>1
      <3>3. DOMAIN e.obs = DOMAIN d.obs
        BY <1>5, <1>8
      <3>4. run \in DOMAIN e.runs /\ e.runs[run].mode = "apply"
        BY <2>7
      <3>. QED  BY <2>4, <3>1, <3>2, <3>3, <3>4
    <2>. HIDE DEF Dec
    <2>10. \A x \in e.dec : x \in d.dec \/ \E f \in groups : x = Dec(f)
      BY <1>5
    <2>. QED  BY <2>6, <2>8, <2>9, <2>10 DEF AuditBacks
  <1>. QED  BY <1>10, <1>11, <1>12 DEF Good, e

\* A rollback clears exactly the marks its run left and closes its decisions.
LEMMA RollbackKeeps ==
    ASSUME NEW d, NEW now, Good(d, now), NEW r, NEW asOf,
           NEW scope \in Scopes, NEW aliases,
           CanRollback(d, r, asOf, scope, aliases)
    PROVE  Good(RollbackRun(d, r, scope), now)
  <1>. DEFINE run      == Len(d.runs) + 1
              row      == [mode |-> "rollback", scope |-> scope]
              restored == UNION {x.sources : x \in DecisionsOf(d, r)}
              t == [o \in DOMAIN d.obs |->
                      IF o \in restored
                      THEN [d.obs[o] EXCEPT !.by = NoObs, !.run = NoRun]
                      ELSE d.obs[o]]
              Closed(x) == IF x.run = r THEN [x EXCEPT !.reverted = run] ELSE x
              e == RollbackRun(d, r, scope)
  <1>1. /\ d \in Database /\ d.obs \in Seq(ObsRow) /\ d.runs \in Seq(RunRow)
        /\ d.dec \subseteq Decision
        /\ run \in Nat /\ run # NoRun
        /\ DOMAIN d.obs \subseteq Nat \ {0}
        /\ \A x \in d.dec : x \in Decision
    BY DEF Good, Database, NoRun
  <1>2. \A x \in d.dec : x.run = r =>
          /\ x.reverted = NoRun
          /\ x.sources = CurrentSources(d, x)
    BY DEF CanRollback, CanRevert, DecisionsOf
  <1>3. \A x \in d.dec : /\ x.run \in DOMAIN d.runs
                         /\ d.runs[x.run].mode = "apply"
                         /\ x.target \in DOMAIN d.obs /\ x.target # NoObs
    BY <1>1 DEF Good, AuditBacks, NoObs
  <1>4. \A o \in restored : o \in DOMAIN d.obs /\ d.obs[o].run = r
    BY <1>2 DEF DecisionsOf, CurrentSources
  <1>5. /\ e.obs = t /\ e.runs = Append(d.runs, row)
        /\ e.dec = {Closed(x) : x \in d.dec} /\ e.fts = d.fts
        /\ e = [d EXCEPT !.obs = e.obs, !.runs = e.runs, !.dec = e.dec]
    BY <1>1 DEF RollbackRun, Database
  <1>6. /\ t = [o \in DOMAIN d.obs |-> t[o]]
        /\ \A o \in DOMAIN d.obs :
             /\ o \in restored =>
                  t[o] = [d.obs[o] EXCEPT !.by = NoObs, !.run = NoRun]
             /\ o \notin restored => t[o] = d.obs[o]
    OBVIOUS
  <1>7. \A x \in d.dec :
          /\ x.run = r => Closed(x) = [x EXCEPT !.reverted = run]
          /\ x.run # r => Closed(x) = x
    OBVIOUS
  <1>. HIDE DEF restored, t, Closed, e, run
  <1>8. ASSUME NEW o \in DOMAIN d.obs
        PROVE  /\ t[o] \in ObsRow
               /\ t[o].ent = d.obs[o].ent /\ t[o].content = d.obs[o].content
               /\ t[o].type = d.obs[o].type
               /\ t[o].created = d.obs[o].created
               /\ t[o].deleted = d.obs[o].deleted
               /\ o \in restored => t[o].by = NoObs /\ t[o].run = NoRun
               /\ o \notin restored => /\ t[o].by = d.obs[o].by
                                       /\ t[o].run = d.obs[o].run
    <2>1. d.obs[o] \in ObsRow
      BY <1>1, RowOfTable
    <2>2. CASE o \in restored
      <3>1. PICK b \in Nat : t[o] = [d.obs[o] EXCEPT !.by = b, !.run = b]
                             /\ b = NoObs /\ b = NoRun
        BY <1>6, <2>2 DEF NoObs, NoRun
      <3>2. /\ t[o] \in ObsRow
            /\ t[o].ent = d.obs[o].ent /\ t[o].content = d.obs[o].content
            /\ t[o].type = d.obs[o].type /\ t[o].created = d.obs[o].created
            /\ t[o].deleted = d.obs[o].deleted
            /\ t[o].by = b /\ t[o].run = b
        BY <2>1, <3>1 DEF ObsRow
      <3>. QED  BY <2>2, <3>1, <3>2
    <2>3. CASE o \notin restored
      BY <1>6, <2>1, <2>3
    <2>. QED  BY <2>2, <2>3
  <1>9. t \in Seq(ObsRow) /\ DOMAIN t = DOMAIN d.obs
    BY <1>1, <1>6, <1>8, UpdatedTable
  <1>10. /\ DOMAIN e.runs = DOMAIN d.runs \cup {run}
         /\ \A q \in DOMAIN d.runs : e.runs[q] = d.runs[q]
         /\ e.runs[run] = row /\ run \notin DOMAIN d.runs
         /\ e.runs \in Seq(RunRow)
    <2>1. row \in RunRow
      BY DEF RunRow
    <2>. HIDE DEF row
    <2>2. /\ DOMAIN Append(d.runs, row) = DOMAIN d.runs \cup {Len(d.runs) + 1}
          /\ \A q \in DOMAIN d.runs : Append(d.runs, row)[q] = d.runs[q]
          /\ Append(d.runs, row)[Len(d.runs) + 1] = row
          /\ Len(d.runs) + 1 \notin DOMAIN d.runs
          /\ Append(d.runs, row) \in Seq(RunRow)
      BY <1>1, <2>1, AppendedTable
    <2>. QED  BY <1>5, <2>2 DEF run
  <1>11. \A x \in d.dec :
           /\ Closed(x) \in Decision
           /\ Closed(x).run = x.run /\ Closed(x).ent = x.ent
           /\ Closed(x).content = x.content /\ Closed(x).target = x.target
           /\ Closed(x).sources = x.sources
           /\ x.run = r => Closed(x).reverted = run
           /\ x.run # r => Closed(x).reverted = x.reverted
    <2>. TAKE x \in d.dec
    <2>1. x \in Decision
      BY <1>1
    <2>2. CASE x.run = r
      BY <1>1, <1>7, <2>1, <2>2 DEF Decision
    <2>3. CASE x.run # r
      BY <1>7, <2>1, <2>3
    <2>. QED  BY <2>2, <2>3
  <1>12. e \in Database
    <2>1. e.dec \subseteq Decision
      BY <1>5, <1>11
    <2>. HIDE DEF row
    <2>. QED  BY <1>1, <1>5, <1>9, <1>10, <2>1 DEF Database
  <1>13. IndexMatches(e) /\ \A o \in DOMAIN e.obs : e.obs[o].created <= now
    BY <1>5, <1>8, <1>9, RemarkKeeps
  <1>14. AuditBacks(e)
    <2>0. \A z \in e.dec : \E x \in d.dec : z = Closed(x)
      BY <1>5
    <2>1. \A x \in d.dec : x.run # r =>
             CurrentSources(e, x) = CurrentSources(d, x)
      <3>. SUFFICES ASSUME NEW x \in d.dec, x.run # r
                    PROVE  CurrentSources(e, x) = CurrentSources(d, x)
        OBVIOUS
      <3>1. \A o \in DOMAIN d.obs :
              (t[o].by = x.target /\ t[o].run = x.run) <=>
              (d.obs[o].by = x.target /\ d.obs[o].run = x.run)
        BY <1>3, <1>4, <1>8
      <3>. QED  BY <1>5, <1>8, <1>9, <3>1 DEF CurrentSources
    <2>2. \A o, p \in DOMAIN d.obs : Newer(d, o, p) => Newer(e, o, p)
      BY <1>5, <1>8, <1>9 DEF Newer
    <2>3. ASSUME NEW o \in DOMAIN e.obs, e.obs[o].by # NoObs
          PROVE  \E x \in e.dec : /\ x.reverted = NoRun
                                  /\ o \in x.sources \cap CurrentSources(e, x)
      <3>1. o \in DOMAIN d.obs /\ o \notin restored /\ d.obs[o].by # NoObs
        BY <1>5, <1>8, <1>9, <2>3
      <3>2. PICK x \in d.dec : /\ x.reverted = NoRun
                               /\ o \in x.sources \cap CurrentSources(d, x)
        BY <3>1 DEF Good, AuditBacks
      <3>3. x.run # r
        BY <3>1, <3>2 DEF restored, DecisionsOf
      <3>4. x \in e.dec
        <4>1. Closed(x) = x
          BY <1>7, <3>3
        <4>2. Closed(x) \in e.dec
          BY <1>5
        <4>. QED  BY <4>1, <4>2
      <3>. QED  BY <2>1, <3>2, <3>3, <3>4
    <2>4. ASSUME NEW x \in d.dec
          PROVE  /\ Closed(x).run \in DOMAIN e.runs
                 /\ e.runs[Closed(x).run].mode = "apply"
                 /\ Closed(x).target \in DOMAIN e.obs
                 /\ Closed(x).reverted = NoRun =>
                      /\ Closed(x).sources = CurrentSources(e, Closed(x))
                      /\ \A o \in Closed(x).sources :
                            Newer(e, Closed(x).target, o)
                 /\ Closed(x).reverted # NoRun =>
                      /\ Closed(x).reverted \in DOMAIN e.runs
                      /\ e.runs[Closed(x).reverted].mode = "rollback"
                      /\ \A y \in DecisionsOf(e, Closed(x).run) :
                            y.reverted = Closed(x).reverted
      <3>1. /\ Closed(x).run \in DOMAIN e.runs
            /\ e.runs[Closed(x).run].mode = "apply"
            /\ Closed(x).target \in DOMAIN e.obs
        <4>1. /\ Closed(x).run = x.run /\ Closed(x).target = x.target
              /\ DOMAIN e.obs = DOMAIN d.obs
          BY <1>5, <1>9, <1>11
        <4>2. /\ x.run \in DOMAIN d.runs /\ d.runs[x.run].mode = "apply"
              /\ x.target \in DOMAIN d.obs
          BY <1>3
        <4>3. x.run \in DOMAIN e.runs /\ e.runs[x.run] = d.runs[x.run]
          BY <1>10, <4>2
        <4>. QED  BY <4>1, <4>2, <4>3
      <3>2. CASE x.run = r
        <4>1. \A y \in DecisionsOf(e, r) : y.reverted = run
          <5>. SUFFICES ASSUME NEW y \in e.dec, y.run = r
                        PROVE  y.reverted = run
            BY DEF DecisionsOf
          <5>1. PICK z \in d.dec : y = Closed(z)
            BY <2>0
          <5>. QED  BY <1>11, <5>1
        <4>2. Closed(x).reverted = run /\ Closed(x).run = r
          BY <1>11, <3>2
        <4>3. run \in DOMAIN e.runs /\ e.runs[run].mode = "rollback"
          BY <1>10
        <4>. QED  BY <1>1, <3>1, <4>1, <4>2, <4>3
      <3>3. CASE x.run # r
        <4>1. Closed(x) = x
          BY <1>7, <3>3
        <4>2. DecisionsOf(e, x.run) = DecisionsOf(d, x.run)
          <5>1. ASSUME NEW y \in e.dec, y.run = x.run  PROVE  y \in d.dec
            <6>1. PICK z \in d.dec : y = Closed(z)
              BY <2>0
            <6>2. z.run # r
              BY <1>11, <3>3, <5>1, <6>1
            <6>. QED  BY <1>7, <6>1, <6>2
          <5>2. ASSUME NEW y \in d.dec, y.run = x.run  PROVE  y \in e.dec
            <6>1. y.run # r
              BY <3>3, <5>2
            <6>2. Closed(y) = y
              BY <1>7, <6>1
            <6>3. Closed(y) \in e.dec
              BY <1>5
            <6>. QED  BY <6>2, <6>3
          <5>. QED  BY <5>1, <5>2 DEF DecisionsOf
        <4>3. CurrentSources(d, x) \subseteq DOMAIN d.obs
          BY DEF CurrentSources
        <4>4. /\ x.target \in DOMAIN d.obs
              /\ x.reverted = NoRun =>
                    /\ x.sources = CurrentSources(d, x)
                    /\ \A o \in x.sources : Newer(d, x.target, o)
              /\ x.reverted # NoRun =>
                    /\ x.reverted \in DOMAIN d.runs
                    /\ d.runs[x.reverted].mode = "rollback"
                    /\ \A y \in DecisionsOf(d, x.run) :
                          y.reverted = x.reverted
          BY DEF Good, AuditBacks
        <4>. QED  BY <1>10, <2>1, <2>2, <3>1, <3>3, <4>1, <4>2, <4>3, <4>4
      <3>. QED  BY <3>2, <3>3
    <2>. QED  BY <2>0, <2>3, <2>4 DEF AuditBacks
  <1>. QED  BY <1>12, <1>13, <1>14 DEF Good, e

---------------------------------------------------------------------------
(* The specification.                                                      *)

\* What every step keeps: the committed database and the open transaction's
\* working copy are both good at the current second.
IInv == /\ clock \in Nat
        /\ tx \in Transaction
        /\ Good(db, clock)
        /\ Good(tx.work, clock)

\* A database that is good stays good as time passes.
LEMMA GoodLater ==
    ASSUME NEW d, NEW now \in Nat, Good(d, now)
    PROVE  Good(d, now + 1)
  <1>1. ASSUME NEW o \in DOMAIN d.obs
        PROVE  d.obs[o].created <= now + 1
    <2>1. d.obs[o] \in ObsRow
      BY RowOfTable DEF Good, Database
    <2>2. d.obs[o].created \in Nat /\ d.obs[o].created <= now
      BY <2>1 DEF Good, ObsRow
    <2>. QED  BY <2>2
  <1>. QED  BY <1>1 DEF Good

LEMMA EmptyIsGood ==
    ASSUME NEW now \in Nat
    PROVE  Good(EmptyDatabase, now)
  <1>1. EmptyDatabase \in Database
    BY DEF EmptyDatabase, Database, EntityRow
  <1>2. IndexMatches(EmptyDatabase)
    BY DEF EmptyDatabase, IndexMatches, Undeleted
  <1>3. AuditBacks(EmptyDatabase)
    BY DEF EmptyDatabase, AuditBacks
  <1>. QED  BY <1>1, <1>2, <1>3 DEF Good, EmptyDatabase

LEMMA NoTxIsTransaction == NoTx \in Transaction /\ NoTx.work = EmptyDatabase
  <1>1. EmptyDatabase \in Database
    BY EmptyIsGood DEF Good
  <1>. QED  BY <1>1 DEF NoTx, Transaction, NoEvent

LEMMA InitGood == Init => IInv
  <1>. SUFFICES ASSUME Init PROVE IInv
    OBVIOUS
  <1>1. Good(db, 0)
    <2>1. db \in Seeds
      BY DEF Init
    <2>2. \A o \in DOMAIN db.obs : db.obs[o].created <= 0
      BY <2>1, SeedsAssumption
    <2>. QED  BY <2>1, <2>2, SeedsAssumption DEF Good
  <1>. QED  BY <1>1, EmptyIsGood, NoTxIsTransaction DEF Init, IInv

\* One write installed on the committed database.
LEMMA InstallGood ==
    ASSUME IInv, NEW d, Good(d, clock), Install(d)
    PROVE  IInv'
  BY DEF IInv, Install, Good

LEMMA NextGood == IInv /\ [Next]_vars => IInv'
  <1>. SUFFICES ASSUME IInv, [Next]_vars PROVE IInv'
    OBVIOUS
  <1>1. /\ clock \in Nat /\ Good(db, clock) /\ Good(tx.work, clock)
        /\ tx.work \in Database /\ tx.event \in Nat /\ tx \in Transaction
    BY DEF IInv, Transaction
  <1>2. NoEvent \in Nat
    BY DEF NoEvent
  <1>3. ASSUME NEW n \in Names, NEW t \in Types \cup {NoType},
               NEW c \in Contents, NEW e \in EventIds \cup {NoEvent},
               NEW checked, NEW looked,
               Remember(n, t, c, e, checked, looked)
        PROVE  IInv'
    <2>1. e \in Nat
      BY <1>2 DEF EventIds
    <2>2. Good(StoreFact(db, n, t, c, e, looked, clock), clock)
      BY <1>1, <2>1, StoreFactKeeps
    <2>. QED  BY <1>3, <2>2, InstallGood DEF Remember
  <1>4. ASSUME NEW n \in Names, NEW t \in Types \cup {NoType},
               NEW c \in Contents, NEW e \in EventIds \cup {NoEvent},
               NEW checked, NEW looked,
               AddFact(n, t, c, e, checked, looked)
        PROVE  IInv'
    <2>. DEFINE w == StoreFact(tx.work, n, t, c, FactEvent(e), looked, clock)
    <2>1. FactEvent(e) \in Nat
      BY <1>1, <1>2 DEF FactEvent, EventIds
    <2>2. Good(w, clock)
      BY <1>1, <2>1, StoreFactKeeps
    <2>3. tx' = [tx EXCEPT !.work = w, !.facts = @ \cup {<<n, c>>}]
          /\ db' = db /\ clock' = clock
      BY <1>4 DEF AddFact
    <2>. HIDE DEF w
    <2>4. tx' \in Transaction /\ tx'.work = w
      <3>1. tx.facts \cup {<<n, c>>} \in SUBSET Facts
        BY <1>1 DEF Transaction, Facts
      <3>2. w \in Database
        BY <2>2 DEF Good
      <3>3. PICK F \in SUBSET Facts : tx' = [tx EXCEPT !.work = w, !.facts = F]
        BY <2>3, <3>1
      <3>. QED  BY <1>1, <3>2, <3>3 DEF Transaction
    <2>. QED  BY <1>1, <2>2, <2>3, <2>4 DEF IInv, Good
  <1>5. ASSUME NEW n \in Names, NEW m \in Names, NEW k \in Kinds,
               Relate(n, m, k)
        PROVE  IInv'
    BY <1>1, <1>5, RelateKeeps, InstallGood DEF Relate
  <1>6. ASSUME NEW o \in ObsIds, ForgetById(o)
        PROVE  IInv'
    BY <1>1, <1>6, ForgetObservationKeeps, InstallGood DEF ForgetById
  <1>7. ASSUME NEW n \in Names, ForgetByName(n)
        PROVE  IInv'
    BY <1>1, <1>7, ForgetEntityKeeps, InstallGood DEF ForgetByName
  <1>8. ASSUME BeginBatch
        PROVE  IInv'
    <2>1. tx' \in Transaction /\ tx'.work = db
      BY <1>1, <1>2, <1>8 DEF BeginBatch, Transaction, Good
    <2>. QED  BY <1>1, <1>8, <2>1 DEF BeginBatch, IInv, Good
  <1>9. ASSUME NEW expires \in 0 .. MaxTime + 1, BeginEvent(expires)
        PROVE  IInv'
    <2>. DEFINE w == CreateEvent(db, expires)
    <2>1. Good(w, clock)
      BY <1>1, BoundsAssumption, CreateEventKeeps
    <2>2. /\ tx' = [kind |-> "event", work |-> w, event |-> Len(w.events),
                    facts |-> {}]
          /\ db' = db /\ clock' = clock
      BY <1>9 DEF BeginEvent
    <2>. HIDE DEF w
    <2>3. w \in Database /\ Len(w.events) \in Nat
      BY <2>1 DEF Good, Database
    <2>4. tx' \in Transaction /\ tx'.work = w
      BY <2>2, <2>3 DEF Transaction
    <2>. QED  BY <1>1, <2>1, <2>2, <2>4 DEF IInv, Good
  <1>10. ASSUME CommitFacts
         PROVE  IInv'
    BY <1>1, <1>10, EmptyIsGood, NoTxIsTransaction
       DEF CommitFacts, IInv, Good
  <1>11. ASSUME AbortFacts
         PROVE  IInv'
    BY <1>1, <1>11, EmptyIsGood, NoTxIsTransaction
       DEF AbortFacts, IInv, Good
  <1>12. ASSUME NEW lag \in 0 .. MaxLag, NEW cutoff \in 0 .. MaxTime,
                NEW S \in SUBSET Names, NEW scope \in Scopes,
                Apply(lag, cutoff, S, scope)
         PROVE  IInv'
    BY <1>1, <1>12, ApplyKeeps, InstallGood DEF Apply
  <1>13. ASSUME NEW lag \in 0 .. MaxLag, NEW r \in Runs,
                NEW scope \in Scopes, NEW aliases \in SUBSET Scopes,
                Rollback(lag, r, scope, aliases)
         PROVE  IInv'
    BY <1>1, <1>13, RollbackKeeps, InstallGood DEF Rollback
  <1>14. ASSUME Tick
         PROVE  IInv'
    BY <1>1, <1>14, GoodLater DEF Tick, IInv, Good
  <1>15. ASSUME UNCHANGED vars
         PROVE  IInv'
    BY <1>1, <1>15 DEF vars, IInv, Good
  <1>. QED
    BY <1>3, <1>4, <1>5, <1>6, <1>7, <1>8, <1>9, <1>10, <1>11, <1>12,
       <1>13, <1>14, <1>15 DEF Next

\* Type correctness: whatever the handlers and the reconcile commands do,
\* the tables, the clock and the open transaction keep their shape.
THEOREM TypeCorrect == Spec => []TypeOK
  <1>1. IInv => TypeOK
    BY DEF IInv, TypeOK, Good
  <1>. QED  BY <1>1, InitGood, NextGood, PTL DEF Spec

\* The contentless index never holds a posting of a row that is gone and
\* never lacks one of a row that is not.
THEOREM IndexCorrect == Spec => []IndexMatchesRows
  <1>1. IInv => IndexMatchesRows
    BY DEF IInv, IndexMatchesRows, Good
  <1>. QED  BY <1>1, InitGood, NextGood, PTL DEF Spec

\* The audit trail of reconcile and the supersession marks on the rows agree
\* after any sequence of writes, applies and rollbacks.
THEOREM AuditCorrect == Spec => []AuditBacksSupersession
  <1>1. IInv => AuditBacksSupersession
    BY DEF IInv, AuditBacksSupersession, Good
  <1>. QED  BY <1>1, InitGood, NextGood, PTL DEF Spec

---------------------------------------------------------------------------
(* What the handlers do to the facts.                                      *)

Carries(d, o, n, c) == d.obs[o].ent = n /\ d.obs[o].content = c

\* w is d with one more fact stored: a row is added, or an active one reused.
Stored(d, w, n, c, e, looked, now) ==
    /\ w.events = d.events /\ w.rel = d.rel /\ w.runs = d.runs /\ w.dec = d.dec
    /\ w.emb = d.emb
    /\ w.ent[n].state = "live"
    /\ \A m \in Names \ {n} : w.ent[m].state = d.ent[m].state
    /\ \A o \in DOMAIN d.obs : o \in DOMAIN w.obs /\ w.obs[o] = d.obs[o]
    /\ \/ /\ DOMAIN w.obs = DOMAIN d.obs
          /\ \E o \in DOMAIN d.obs :
                Carries(d, o, n, c) /\ ActiveObservation(d, o, looked)
       \/ /\ \E o \in DOMAIN w.obs \ DOMAIN d.obs :
                /\ DOMAIN w.obs = DOMAIN d.obs \cup {o}
                /\ Carries(w, o, n, c) /\ w.obs[o].event = e
                /\ w.obs[o].created = now
                /\ ~w.obs[o].deleted /\ w.obs[o].by = NoObs
          /\ \A o \in DOMAIN d.obs :
                Carries(d, o, n, c) => ~ActiveObservation(d, o, looked)

LEMMA StoreFactStores ==
    ASSUME NEW d \in Database, NEW now \in Nat, NEW n \in Names,
           NEW t \in Types \cup {NoType}, NEW c \in Contents,
           NEW e \in Nat, NEW looked
    PROVE  Stored(d, StoreFact(d, n, t, c, e, looked, now), n, c, e, looked, now)
  <1>. DEFINE u == UpsertEntity(d, n, t)
              w == StoreFact(d, n, t, c, e, looked, now)
              row == [ent |-> n, content |-> c, type |-> u.ent[n].type,
                      event |-> e, created |-> now, deleted |-> FALSE,
                      by |-> NoObs, run |-> NoRun]
              Dup == \E o \in DOMAIN d.obs :
                        Carries(d, o, n, c) /\ ActiveObservation(d, o, looked)
  <1>1. /\ u.obs = d.obs /\ u.events = d.events /\ u.rel = d.rel
        /\ u.runs = d.runs /\ u.dec = d.dec /\ u.emb = d.emb /\ u.ent[n].state = "live"
        /\ \A m \in Names \ {n} : u.ent[m] = d.ent[m]
        /\ u.ent[n].type \in Types \cup {NoType}
        /\ u.obs \in Seq(ObsRow)
    BY DEF UpsertEntity, Database, EntityRow
  <1>2. (\E o \in ObsOf(u, n) : u.obs[o].content = c /\ ActiveObservation(u, o, looked))
          <=> Dup
    BY <1>1 DEF ObsOf, ActiveObservation, EventAllows, ActiveEvent, Carries
  <1>. HIDE DEF u, Dup
  <1>3. CASE Dup
    <2>1. w = u
      BY <1>2, <1>3 DEF StoreFact, AddObservation, u
    <2>. QED  BY <1>1, <1>3, <2>1 DEF Stored, Dup
  <1>4. CASE ~Dup
    <2>1. w = InsertRow(u, n, c, e, now)
      BY <1>2, <1>4 DEF StoreFact, AddObservation, u
    <2>2. /\ w.obs = Append(d.obs, row) /\ w.events = d.events /\ w.rel = d.rel
          /\ w.runs = d.runs /\ w.dec = d.dec /\ w.emb = d.emb /\ w.ent = u.ent
      <3>1. u \in Database
        BY DEF u, UpsertEntity, Database, EntityRow
      <3>. QED  BY <1>1, <2>1, <3>1 DEF InsertRow, Database
    <2>3. row \in ObsRow
      BY <1>1 DEF ObsRow, NoObs, NoRun
    <2>4. /\ row.ent = n /\ row.content = c /\ row.event = e /\ row.created = now
          /\ ~row.deleted /\ row.by = NoObs
      OBVIOUS
    <2>. HIDE DEF w, row
    <2>5. /\ DOMAIN w.obs = DOMAIN d.obs \cup {Len(d.obs) + 1}
          /\ Len(d.obs) + 1 \notin DOMAIN d.obs
          /\ \A o \in DOMAIN d.obs : w.obs[o] = d.obs[o]
          /\ w.obs[Len(d.obs) + 1] = row
      BY <1>1, <2>2, <2>3, AppendedTable
    <2>. QED  BY <1>1, <1>4, <2>2, <2>4, <2>5 DEF Stored, Carries, Dup, w
  <1>. QED  BY <1>3, <1>4

\* Every row carries a fact.
LEMMA RowsAreFacts ==
    ASSUME NEW d \in Database
    PROVE  \A o \in DOMAIN d.obs : d.obs[o].ent \in Names /\ d.obs[o].content \in Contents
  <1>. SUFFICES ASSUME NEW o \in DOMAIN d.obs
                PROVE  d.obs[o].ent \in Names /\ d.obs[o].content \in Contents
    OBVIOUS
  <1>1. d.obs[o] \in ObsRow
    BY RowOfTable DEF Database
  <1>. QED  BY <1>1 DEF ObsRow

\* What every row says of its event: it is there, and was not over when the
\* row was attached to it, but for the statements of one call.
Attached(d) ==
    \A o \in DOMAIN d.obs :
        d.obs[o].event # NoEvent =>
            /\ d.obs[o].event \in DOMAIN d.events
            /\ LET expires == d.events[d.obs[o].event]
               IN  expires = Never \/ expires + MaxLag > d.obs[o].created

LEMMA StoredAttached ==
    ASSUME NEW d \in Database, NEW w, NEW n, NEW c, NEW e, NEW looked, NEW now \in Nat,
           NEW checked \in Nat, now - checked <= MaxLag,
           CanAttach(d, e, checked), Attached(d),
           Stored(d, w, n, c, e, looked, now)
    PROVE  Attached(w)
  <1>1. \A x \in DOMAIN d.events : d.events[x] \in Nat
    BY DEF Database
  <1>2. ASSUME NEW o \in DOMAIN w.obs, w.obs[o].event # NoEvent
        PROVE  /\ w.obs[o].event \in DOMAIN w.events
               /\ \/ w.events[w.obs[o].event] = Never
                  \/ w.events[w.obs[o].event] + MaxLag > w.obs[o].created
    <2>1. CASE o \in DOMAIN d.obs
      BY <1>2, <2>1 DEF Stored, Attached
    <2>2. CASE o \notin DOMAIN d.obs
      <3>1. w.obs[o].event = e /\ w.obs[o].created = now /\ w.events = d.events
        BY <2>2 DEF Stored
      <3>2. e \in DOMAIN d.events /\ (d.events[e] = Never \/ d.events[e] > checked)
        BY <1>2, <3>1 DEF CanAttach, ActiveEvent
      <3>. QED  BY <1>1, <3>1, <3>2, BoundsAssumption
    <2>. QED  BY <2>1, <2>2
  <1>. QED  BY <1>2 DEF Attached

\* A write that attaches no row and keeps the events attaches nothing wrong.
LEMMA AttachedStays ==
    ASSUME NEW d, NEW w, Attached(d), w.events = d.events,
           DOMAIN w.obs = DOMAIN d.obs,
           \A o \in DOMAIN d.obs : /\ w.obs[o].event = d.obs[o].event
                                   /\ w.obs[o].created = d.obs[o].created
    PROVE  Attached(w)
  BY DEF Attached

\* w is d with marks on its rows changed.
Remarked(d, w) ==
    /\ w.ent = d.ent /\ w.rel = d.rel /\ w.events = d.events /\ w.emb = d.emb
    /\ DOMAIN w.obs = DOMAIN d.obs
    /\ \A o \in DOMAIN d.obs :
          /\ w.obs[o].ent = d.obs[o].ent /\ w.obs[o].content = d.obs[o].content
          /\ w.obs[o].event = d.obs[o].event /\ w.obs[o].created = d.obs[o].created
          /\ w.obs[o].deleted = d.obs[o].deleted

\* A row that w does not leave as it was is hidden behind another row of its
\* fact, one that was visible at asOf and that w does leave as it was.
Hides(d, w, asOf) ==
    \A o \in DOMAIN d.obs :
        \/ w.obs[o] = d.obs[o]
        \/ \E p \in DOMAIN d.obs \ {o} :
              /\ w.obs[o].by = p /\ w.obs[p] = d.obs[p]
              /\ FactOf(d, p) = FactOf(d, o) /\ Visible(d, p, asOf)

LEMMA ApplyRemarks ==
    ASSUME NEW d, NEW now \in Nat, Good(d, now), NEW S \in SUBSET Names,
           NEW asOf, NEW scope \in Scopes,
           NEW w, w = ApplyExactDuplicates(d, S, asOf, scope)
    PROVE  /\ Remarked(d, w)
           /\ Hides(d, w, asOf)
           /\ Len(w.runs) = Len(d.runs) + 1
           /\ d.dec \subseteq w.dec
           /\ \A x \in w.dec \ d.dec : x.run \notin DOMAIN d.runs
  <1>. DEFINE run == Len(d.runs) + 1
              groups == DuplicateFacts(d, S, asOf)
              T(f) == Target(d, f, asOf)
              Superseded(o) == /\ FactOf(d, o) \in groups
                               /\ o \in Sources(d, FactOf(d, o), asOf)
              t == [o \in DOMAIN d.obs |->
                      IF Superseded(o)
                      THEN [d.obs[o] EXCEPT !.by = T(FactOf(d, o)), !.run = run]
                      ELSE d.obs[o]]
              row == [mode |-> "apply", scope |-> scope]
              Dec(f) == [run |-> run, ent |-> f[1], content |-> f[2],
                         target |-> T(f), sources |-> Sources(d, f, asOf),
                         reverted |-> NoRun]
  <1>1. /\ d \in Database /\ d.obs \in Seq(ObsRow) /\ d.runs \in Seq(RunRow)
        /\ Len(d.runs) \in Nat /\ run \notin DOMAIN d.runs
    BY DEF Good, Database
  <1>2. /\ w.obs = t /\ w.runs = Append(d.runs, row)
        /\ w.dec = d.dec \cup {Dec(f) : f \in groups}
        /\ w.ent = d.ent /\ w.rel = d.rel /\ w.events = d.events /\ w.emb = d.emb
    BY <1>1 DEF ApplyExactDuplicates, Database
  <1>3. ASSUME NEW o \in DOMAIN d.obs, Superseded(o)
        PROVE  /\ T(FactOf(d, o)) \in Carriers(d, d.obs[o].ent, d.obs[o].content, asOf)
               /\ T(FactOf(d, o)) # o
    <2>1. o \in Carriers(d, d.obs[o].ent, d.obs[o].content, asOf) \ {T(FactOf(d, o))}
      BY <1>3 DEF Sources, FactOf
    <2>2. FactOf(d, o)[1] = d.obs[o].ent /\ FactOf(d, o)[2] = d.obs[o].content
      BY DEF FactOf
    <2>. QED  BY <2>1, <2>2, TargetIsNewest
  <1>4. ASSUME NEW o \in DOMAIN d.obs
        PROVE  /\ t[o].ent = d.obs[o].ent /\ t[o].content = d.obs[o].content
               /\ t[o].event = d.obs[o].event /\ t[o].created = d.obs[o].created
               /\ t[o].deleted = d.obs[o].deleted
               /\ IF Superseded(o) THEN t[o].by = T(FactOf(d, o)) ELSE t[o] = d.obs[o]
    <2>1. d.obs[o] \in ObsRow
      BY <1>1, RowOfTable
    <2>2. CASE Superseded(o)
      <3>1. PICK b, q : b = T(FactOf(d, o)) /\ t[o] = [d.obs[o] EXCEPT !.by = b, !.run = q]
        BY <2>2
      <3>. HIDE DEF t, T, Superseded
      <3>. QED  BY <2>1, <2>2, <3>1 DEF ObsRow
    <2>3. CASE ~Superseded(o)
      BY <2>3
    <2>. QED  BY <2>2, <2>3
  <1>5. DOMAIN t = DOMAIN d.obs
    OBVIOUS
  <1>6. ASSUME NEW o \in DOMAIN d.obs, w.obs[o] # d.obs[o]
        PROVE  \E p \in DOMAIN d.obs \ {o} :
                  /\ w.obs[o].by = p /\ w.obs[p] = d.obs[p]
                  /\ FactOf(d, p) = FactOf(d, o) /\ Visible(d, p, asOf)
    <2>. DEFINE p == T(FactOf(d, o))
    <2>1. Superseded(o)
      BY <1>2, <1>4, <1>6
    <2>2. p \in Carriers(d, d.obs[o].ent, d.obs[o].content, asOf) /\ p # o
      BY <1>3, <2>1
    <2>3. p \in DOMAIN d.obs /\ Visible(d, p, asOf) /\ FactOf(d, p) = FactOf(d, o)
      BY <2>2 DEF Carriers, FactOf
    <2>4. ~Superseded(p)
      BY <2>3 DEF Sources
    <2>. HIDE DEF p
    <2>5. w.obs[p] = d.obs[p] /\ w.obs[o].by = p
      BY <1>2, <1>4, <2>1, <2>3, <2>4 DEF p
    <2>. QED  BY <2>2, <2>3, <2>5
  <1>7. \A x \in w.dec \ d.dec : x.run = run
    <2>1. \A f : Dec(f).run = run
      OBVIOUS
    <2>2. w.dec = d.dec \cup {Dec(f) : f \in groups}
      BY <1>2
    <2>. HIDE DEF Dec, groups, run, t, T, Superseded, row
    <2>. QED  BY <2>1, <2>2
  <1>8. Len(w.runs) = run
    <2>1. row \in RunRow
      BY DEF RunRow
    <2>. HIDE DEF row
    <2>2. Len(Append(d.runs, row)) = Len(d.runs) + 1
      BY <1>1, <2>1
    <2>3. w.runs = Append(d.runs, row)
      BY <1>2
    <2>. QED  BY <2>2, <2>3
  <1>. HIDE DEF t, Superseded, T
  <1>. QED  BY <1>1, <1>2, <1>4, <1>5, <1>6, <1>7, <1>8 DEF Remarked, Hides

\* Rollback clears the marks of the rows its run hid, and no others.
LEMMA RollbackRemarks ==
    ASSUME NEW d \in Database, NEW r, NEW scope \in Scopes,
           NEW w, w = RollbackRun(d, r, scope)
    PROVE  LET hidden == UNION {x.sources : x \in DecisionsOf(d, r)}
           IN  /\ Remarked(d, w)
               /\ \A o \in DOMAIN d.obs :
                     IF o \in hidden THEN w.obs[o].by = NoObs
                                     ELSE w.obs[o] = d.obs[o]
               /\ Len(w.runs) = Len(d.runs) + 1
               /\ \A x \in d.dec : x.run # r => x \in w.dec
               /\ \A x \in d.dec : x.run = r /\ x.reverted = NoRun => x \notin w.dec
               /\ \A x \in w.dec : x.run # r => x \in d.dec
  <1>. DEFINE hidden == UNION {x.sources : x \in DecisionsOf(d, r)}
              run == Len(d.runs) + 1
              t == [o \in DOMAIN d.obs |->
                      IF o \in hidden
                      THEN [d.obs[o] EXCEPT !.by = NoObs, !.run = NoRun]
                      ELSE d.obs[o]]
              row == [mode |-> "rollback", scope |-> scope]
              Closed(x) == IF x.run = r THEN [x EXCEPT !.reverted = run] ELSE x
  <1>1. /\ d.obs \in Seq(ObsRow) /\ d.runs \in Seq(RunRow) /\ Len(d.runs) \in Nat
        /\ \A x \in d.dec : x \in Decision
    BY DEF Database
  <1>2. /\ w.obs = t /\ w.runs = Append(d.runs, row)
        /\ w.dec = {Closed(x) : x \in d.dec}
        /\ w.ent = d.ent /\ w.rel = d.rel /\ w.events = d.events /\ w.emb = d.emb
    BY DEF RollbackRun, Database
  <1>3. ASSUME NEW x \in d.dec
        PROVE  /\ Closed(x).run = x.run
               /\ x.run # r => Closed(x) = x
               /\ x.run = r => Closed(x).reverted = run
    BY <1>1 DEF Decision
  <1>4. ASSUME NEW o \in DOMAIN d.obs
        PROVE  /\ t[o].ent = d.obs[o].ent /\ t[o].content = d.obs[o].content
               /\ t[o].event = d.obs[o].event /\ t[o].created = d.obs[o].created
               /\ t[o].deleted = d.obs[o].deleted
               /\ IF o \in hidden THEN t[o].by = NoObs ELSE t[o] = d.obs[o]
    <2>1. d.obs[o] \in ObsRow
      BY <1>1, RowOfTable
    <2>2. CASE o \in hidden
      <3>1. PICK b, q : b = NoObs /\ t[o] = [d.obs[o] EXCEPT !.by = b, !.run = q]
        BY <2>2
      <3>. HIDE DEF t, hidden
      <3>. QED  BY <2>1, <2>2, <3>1 DEF ObsRow
    <2>3. CASE o \notin hidden
      BY <2>3
    <2>. QED  BY <2>2, <2>3
  <1>5. DOMAIN t = DOMAIN d.obs
    OBVIOUS
  <1>6. Len(w.runs) = run
    <2>1. row \in RunRow
      BY DEF RunRow
    <2>. HIDE DEF row
    <2>2. Len(Append(d.runs, row)) = Len(d.runs) + 1
      BY <1>1, <2>1
    <2>3. w.runs = Append(d.runs, row)
      BY <1>2
    <2>. QED  BY <2>2, <2>3
  <1>. HIDE DEF Closed, t, hidden
  <1>7. \A x \in d.dec : x.run # r => x \in w.dec
    <2>. TAKE x \in d.dec
    <2>1. Closed(x) \in w.dec
      BY <1>2
    <2>. QED  BY <1>3, <2>1
  <1>8. ASSUME NEW x \in d.dec, x.run = r, x.reverted = NoRun, x \in w.dec PROVE FALSE
    <2>1. PICK y \in d.dec : x = Closed(y)
      BY <1>2, <1>8
    <2>2. x.reverted = run
      BY <1>3, <1>8, <2>1
    <2>. QED  BY <1>1, <1>8, <2>2 DEF NoRun
  <1>9. ASSUME NEW x \in w.dec, x.run # r PROVE x \in d.dec
    <2>1. PICK y \in d.dec : x = Closed(y)
      BY <1>2
    <2>. QED  BY <1>3, <1>9, <2>1
  <1>. QED  BY <1>2, <1>4, <1>5, <1>6, <1>7, <1>8, <1>9 DEF Remarked, hidden

\* w is d with the undeleted rows of S deleted, and the vectors of S dropped.
Erased(d, w, S) ==
    /\ w.events = d.events /\ w.runs = d.runs /\ w.dec = d.dec
    /\ w.emb = d.emb \ S
    /\ DOMAIN w.obs = DOMAIN d.obs
    /\ \A o \in DOMAIN d.obs :
          /\ w.obs[o].ent = d.obs[o].ent /\ w.obs[o].content = d.obs[o].content
          /\ w.obs[o].event = d.obs[o].event /\ w.obs[o].created = d.obs[o].created
          /\ w.obs[o].by = d.obs[o].by
          /\ w.obs[o].deleted <=> d.obs[o].deleted \/ o \in S

LEMMA EraseErases ==
    ASSUME NEW d \in Database, NEW S, S \subseteq DOMAIN d.obs,
           NEW w, w = EraseRows(d, S)
    PROVE  Erased(d, w, S) /\ w.ent = d.ent /\ w.rel = d.rel
  <1>. DEFINE gone == Undeleted(d, S)
              t == Tombstone(d, gone)
  <1>1. /\ w.obs = t /\ w.ent = d.ent /\ w.rel = d.rel /\ w.events = d.events
        /\ w.runs = d.runs /\ w.dec = d.dec /\ w.emb = d.emb \ S
    BY DEF EraseRows, Database
  <1>2. DOMAIN t = DOMAIN d.obs
    BY DEF Tombstone
  <1>3. ASSUME NEW o \in DOMAIN d.obs
        PROVE  /\ t[o].ent = d.obs[o].ent /\ t[o].content = d.obs[o].content
               /\ t[o].event = d.obs[o].event /\ t[o].created = d.obs[o].created
               /\ t[o].by = d.obs[o].by
               /\ t[o].deleted <=> d.obs[o].deleted \/ o \in S
    <2>1. d.obs[o] \in ObsRow
      BY RowOfTable DEF Database
    <2>2. CASE o \in gone
      <3>1. t[o] = [d.obs[o] EXCEPT !.deleted = TRUE] /\ o \in S
        BY <2>2 DEF Tombstone, Undeleted
      <3>. HIDE DEF t, gone
      <3>. QED  BY <2>1, <3>1 DEF ObsRow
    <2>3. CASE o \notin gone
      <3>1. t[o] = d.obs[o] /\ (o \in S => d.obs[o].deleted)
        BY <2>3 DEF Tombstone, Undeleted
      <3>2. d.obs[o].deleted \in BOOLEAN
        BY <2>1 DEF ObsRow
      <3>. HIDE DEF t, gone
      <3>. QED  BY <3>1, <3>2
    <2>. QED  BY <2>2, <2>3
  <1>. HIDE DEF t
  <1>. QED  BY <1>1, <1>2, <1>3 DEF Erased

LEMMA ForgetObservationErases ==
    ASSUME NEW d \in Database, NEW o, NEW w, w = ForgetObservation(d, o)
    PROVE  Erased(d, w, {o}) /\ w.ent = d.ent /\ w.rel = d.rel
  <1>1. CASE o \in DOMAIN d.obs
    BY <1>1, EraseErases DEF ForgetObservation
  <1>2. CASE o \notin DOMAIN d.obs
    <2>1. /\ w.obs = d.obs /\ w.ent = d.ent /\ w.rel = d.rel /\ w.events = d.events
          /\ w.runs = d.runs /\ w.dec = d.dec /\ w.emb = d.emb \ {o}
      BY <1>2 DEF ForgetObservation, Database
    <2>. QED  BY <1>2, <2>1 DEF Erased
  <1>. QED  BY <1>1, <1>2

LEMMA ForgetEntityErases ==
    ASSUME NEW d \in Database, NEW n \in Names, NEW w, w = ForgetEntity(d, n),
           d.ent[n].state # "absent"
    PROVE  /\ Erased(d, w, ObsOf(d, n))
           /\ w.rel = {r \in d.rel : r.from # n /\ r.to # n}
           /\ w.ent[n].state = "tombstone"
           /\ \A m \in Names \ {n} : w.ent[m] = d.ent[m]
  <1>. DEFINE u == EraseRows(d, ObsOf(d, n))
  <1>1. Erased(d, u, ObsOf(d, n)) /\ u.ent = d.ent /\ u.rel = d.rel
    BY EraseErases DEF ObsOf
  <1>2. u = [d EXCEPT !.fts = u.fts, !.obs = u.obs, !.emb = u.emb]
    BY DEF EraseRows, Database
  <1>. HIDE DEF u
  <1>3. w = [u EXCEPT !.rel = {r \in @ : r.from # n /\ r.to # n},
                      !.ent[n].state = "tombstone"]
    BY DEF ForgetEntity, u
  <1>4. d.ent \in [Names -> EntityRow]
    BY DEF Database
  <1>5. /\ w.obs = u.obs /\ w.events = u.events /\ w.runs = u.runs /\ w.dec = u.dec
        /\ w.rel = {r \in u.rel : r.from # n /\ r.to # n} /\ w.emb = u.emb
        /\ w.ent = [u.ent EXCEPT ![n].state = "tombstone"]
    BY <1>2, <1>3 DEF Database
  <1>6. /\ w.ent[n].state = "tombstone"
        /\ \A m \in Names \ {n} : w.ent[m] = d.ent[m]
    BY <1>1, <1>4, <1>5 DEF EntityRow
  <1>. QED  BY <1>1, <1>5, <1>6 DEF Erased

\* w is d with an edge, whose endpoints it revives.
Related(d, w, n, m, k) ==
    /\ w.obs = d.obs /\ w.events = d.events /\ w.runs = d.runs /\ w.dec = d.dec
    /\ w.emb = d.emb
    /\ w.rel = d.rel \cup {[from |-> n, to |-> m, kind |-> k]}
    /\ w.ent[n].state = "live" /\ w.ent[m].state = "live"
    /\ \A i \in Names \ {n, m} : w.ent[i].state = d.ent[i].state

\* w is d without the entity.
Forgotten(d, w, n) ==
    /\ Erased(d, w, ObsOf(d, n))
    /\ w.rel = {r \in d.rel : r.from # n /\ r.to # n}
    /\ w.ent[n].state = "tombstone"
    /\ \A m \in Names \ {n} : w.ent[m] = d.ent[m]

LEMMA RelateRelates ==
    ASSUME NEW d \in Database, NEW n \in Names, NEW m \in Names, NEW k \in Kinds,
           NEW w, w = RelateEntities(d, n, m, k)
    PROVE  Related(d, w, n, m, k)
  <1>. DEFINE u == UpsertEntity(d, n, NoType)
              v == UpsertEntity(u, m, NoType)
  <1>1. /\ u \in Database /\ u.ent[n].state = "live" /\ u.obs = d.obs
        /\ u.events = d.events /\ u.runs = d.runs /\ u.dec = d.dec /\ u.rel = d.rel
        /\ u.emb = d.emb
        /\ \A i \in Names \ {n} : u.ent[i] = d.ent[i]
    BY DEF UpsertEntity, Database, EntityRow
  <1>. HIDE DEF u
  <1>2. /\ v \in Database /\ v.ent[m].state = "live" /\ v.obs = u.obs
        /\ v.events = u.events /\ v.runs = u.runs /\ v.dec = u.dec /\ v.rel = u.rel
        /\ v.emb = u.emb
        /\ \A i \in Names \ {m} : v.ent[i] = u.ent[i]
    BY <1>1 DEF UpsertEntity, Database, EntityRow
  <1>. HIDE DEF v
  <1>3. w = [v EXCEPT !.rel = @ \cup {[from |-> n, to |-> m, kind |-> k]}]
    BY DEF RelateEntities, u, v
  <1>4. /\ w.obs = v.obs /\ w.events = v.events /\ w.runs = v.runs /\ w.dec = v.dec
        /\ w.emb = v.emb /\ w.ent = v.ent
        /\ w.rel = v.rel \cup {[from |-> n, to |-> m, kind |-> k]}
    BY <1>2, <1>3 DEF Database
  <1>. QED  BY <1>1, <1>2, <1>4 DEF Related

\* What one committed write does to the database.
Written(d, w) ==
    \/ \E n \in Names, c \in Contents, e \in Nat, checked, looked \in Recent :
          CanAttach(d, e, checked) /\ Stored(d, w, n, c, e, looked, clock)
    \/ \E n, m \in Names, k \in Kinds : n # m /\ Related(d, w, n, m, k)
    \/ \E o \in ObsIds : Erased(d, w, {o}) /\ w.ent = d.ent /\ w.rel = d.rel
    \/ \E n \in Names : Forgotten(d, w, n)
    \/ /\ Len(w.runs) <= MaxRuns
       /\ \E lag \in 0 .. MaxLag, S \in SUBSET Names, scope \in Scopes :
             w = ApplyExactDuplicates(d, S, clock - lag, scope)
    \/ /\ Len(w.runs) <= MaxRuns
       /\ \E lag \in 0 .. MaxLag, r \in Runs, scope \in Scopes,
             aliases \in SUBSET Scopes :
             /\ CanRollback(d, r, clock - lag, scope, aliases)
             /\ w = RollbackRun(d, r, scope)

\* What a transaction that stays open does to its working copy.
Worked(d, w) ==
    /\ tx # NoTx
    /\ \E n \in Names, c \in Contents, e \in Nat, checked, looked \in Recent :
          /\ CanAttach(d, e, checked) /\ Stored(d, w, n, c, e, looked, clock)
          /\ tx'.facts = tx.facts \cup {<<n, c>>}

LEMMA Steps ==
    ASSUME IInv, [Next]_vars
    PROVE  \/ UNCHANGED vars
           \/ Tick
           \/ UNCHANGED <<clock, tx>> /\ tx = NoTx /\ Written(db, db')
           \/ UNCHANGED <<db, clock>> /\ tx'.work = db /\ tx'.facts = {}
           \/ /\ UNCHANGED <<db, clock>> /\ tx'.facts = {}
              /\ \E expires \in Nat : tx'.work = CreateEvent(db, expires)
           \/ UNCHANGED <<db, clock>> /\ Worked(tx.work, tx'.work)
           \/ CommitFacts
           \/ AbortFacts
  <1>1. /\ clock \in Nat /\ tx \in Transaction /\ db \in Database
        /\ tx.work \in Database /\ tx.event \in Nat /\ NoEvent \in Nat
    BY DEF IInv, Good, Transaction, NoEvent
  <1>2. ASSUME NEW n \in Names, NEW t \in Types \cup {NoType},
               NEW c \in Contents, NEW e \in EventIds \cup {NoEvent},
               NEW checked \in Recent, NEW looked \in {s \in Recent : s >= checked},
               Remember(n, t, c, e, checked, looked)
        PROVE  UNCHANGED <<clock, tx>> /\ tx = NoTx /\ Written(db, db')
    <2>1. e \in Nat /\ looked \in Recent
      BY <1>1 DEF EventIds
    <2>2. /\ db' = StoreFact(db, n, t, c, e, looked, clock) /\ tx = NoTx
          /\ CanAttach(db, e, checked) /\ UNCHANGED <<clock, tx>>
      BY <1>2 DEF Remember, Install, Idle
    <2>3. Stored(db, db', n, c, e, looked, clock)
      BY <1>1, <2>1, <2>2, StoreFactStores
    <2>. QED  BY <2>1, <2>2, <2>3 DEF Written
  <1>3. ASSUME NEW n \in Names, NEW t \in Types \cup {NoType},
               NEW c \in Contents, NEW e \in EventIds \cup {NoEvent},
               NEW checked \in Recent, NEW looked \in {s \in Recent : s >= checked},
               AddFact(n, t, c, e, checked, looked)
        PROVE  UNCHANGED <<db, clock>> /\ Worked(tx.work, tx'.work)
    <2>. DEFINE w == StoreFact(tx.work, n, t, c, FactEvent(e), looked, clock)
    <2>1. FactEvent(e) \in Nat /\ looked \in Recent
      BY <1>1 DEF EventIds, FactEvent
    <2>2. /\ tx' = [tx EXCEPT !.work = w, !.facts = @ \cup {<<n, c>>}]
          /\ CanAttach(tx.work, FactEvent(e), checked) /\ UNCHANGED <<db, clock>>
          /\ tx # NoTx
      BY <1>3 DEF AddFact, Idle
    <2>3. Stored(tx.work, w, n, c, FactEvent(e), looked, clock)
      BY <1>1, <2>1, StoreFactStores
    <2>. HIDE DEF w
    <2>4. tx'.work = w /\ tx'.facts = tx.facts \cup {<<n, c>>}
      BY <1>1, <2>2 DEF Transaction
    <2>. QED  BY <2>1, <2>2, <2>3, <2>4 DEF Worked
  <1>4. ASSUME NEW n \in Names, NEW m \in Names, NEW k \in Kinds, Relate(n, m, k)
        PROVE  UNCHANGED <<clock, tx>> /\ tx = NoTx /\ Written(db, db')
    BY <1>1, <1>4, RelateRelates DEF Relate, Install, Idle, Written
  <1>5. ASSUME NEW o \in ObsIds, ForgetById(o)
        PROVE  UNCHANGED <<clock, tx>> /\ tx = NoTx /\ Written(db, db')
    BY <1>1, <1>5, ForgetObservationErases DEF ForgetById, Install, Idle, Written
  <1>6. ASSUME NEW n \in Names, ForgetByName(n)
        PROVE  \/ UNCHANGED vars
               \/ UNCHANGED <<clock, tx>> /\ tx = NoTx /\ Written(db, db')
    <2>1. db' = ForgetEntity(db, n) /\ UNCHANGED <<clock, tx>> /\ tx = NoTx
      BY <1>6 DEF ForgetByName, Install, Idle
    <2>2. CASE db.ent[n].state = "absent"
      BY <2>1, <2>2 DEF ForgetEntity, vars
    <2>3. CASE db.ent[n].state # "absent"
      BY <1>1, <2>1, <2>3, ForgetEntityErases DEF Forgotten, Written
    <2>. QED  BY <2>2, <2>3
  <1>7. BeginBatch => UNCHANGED <<db, clock>> /\ tx'.work = db /\ tx'.facts = {}
    BY DEF BeginBatch
  <1>8. ASSUME NEW expires \in 0 .. MaxTime + 1, BeginEvent(expires)
        PROVE  /\ UNCHANGED <<db, clock>> /\ tx'.facts = {}
               /\ \E x \in Nat : tx'.work = CreateEvent(db, x)
    BY <1>8, BoundsAssumption DEF BeginEvent
  <1>9. ASSUME NEW lag \in 0 .. MaxLag, NEW cutoff \in 0 .. MaxTime,
               NEW S \in SUBSET Names, NEW scope \in Scopes,
               Apply(lag, cutoff, S, scope)
        PROVE  UNCHANGED <<clock, tx>> /\ tx = NoTx /\ Written(db, db')
    BY <1>9 DEF Apply, Install, Idle, Written, Fits
  <1>10. ASSUME NEW lag \in 0 .. MaxLag, NEW r \in Runs, NEW scope \in Scopes,
                NEW aliases \in SUBSET Scopes, Rollback(lag, r, scope, aliases)
         PROVE  UNCHANGED <<clock, tx>> /\ tx = NoTx /\ Written(db, db')
    BY <1>10 DEF Rollback, Install, Idle, Written, Fits
  <1>. QED
    BY <1>2, <1>3, <1>4, <1>5, <1>6, <1>7, <1>8, <1>9, <1>10 DEF Next

---------------------------------------------------------------------------
(* Tombstones hide nothing, and no row is attached late.                   *)

LEMMA EventCreated ==
    ASSUME NEW d \in Database, NEW expires \in Nat, NEW w, w = CreateEvent(d, expires)
    PROVE  /\ w.obs = d.obs /\ w.rel = d.rel /\ w.runs = d.runs /\ w.dec = d.dec
           /\ w.ent = d.ent /\ w.emb = d.emb /\ Len(w.events) = Len(d.events) + 1
           /\ \A e \in DOMAIN d.events : e \in DOMAIN w.events /\ w.events[e] = d.events[e]
  <1>1. d.events \in Seq(Nat) /\ w.events = Append(d.events, expires)
        /\ w.obs = d.obs /\ w.rel = d.rel /\ w.runs = d.runs /\ w.dec = d.dec
        /\ w.ent = d.ent /\ w.emb = d.emb
    BY DEF CreateEvent, Database
  <1>. QED  BY <1>1

\* Apply and rollback change marks only.
LEMMA MarkedStep ==
    ASSUME IInv, NEW d, Good(d, clock), NEW w,
           \/ \E lag \in 0 .. MaxLag, S \in SUBSET Names, scope \in Scopes :
                 w = ApplyExactDuplicates(d, S, clock - lag, scope)
           \/ \E lag \in 0 .. MaxLag, r \in Runs, scope \in Scopes,
                 aliases \in SUBSET Scopes :
                 /\ CanRollback(d, r, clock - lag, scope, aliases)
                 /\ w = RollbackRun(d, r, scope)
    PROVE  Remarked(d, w)
  <1>1. d \in Database /\ clock \in Nat
    BY DEF IInv, Good
  <1>2. ASSUME NEW asOf, NEW S \in SUBSET Names, NEW scope \in Scopes,
               w = ApplyExactDuplicates(d, S, asOf, scope)
        PROVE  Remarked(d, w)
    BY <1>1, <1>2, ApplyRemarks
  <1>3. ASSUME NEW r, NEW scope \in Scopes, w = RollbackRun(d, r, scope)
        PROVE  Remarked(d, w)
    BY <1>1, <1>3, RollbackRemarks
  <1>. QED  BY <1>2, <1>3

LEMMA WrittenAttached ==
    ASSUME IInv, NEW d, Good(d, clock), Attached(d), NEW w, Written(d, w)
    PROVE  Attached(w)
  <1>1. d \in Database /\ clock \in Nat
    BY DEF IInv, Good
  <1>2. ASSUME NEW n \in Names, NEW c \in Contents, NEW e \in Nat,
               NEW checked \in Recent, NEW looked \in Recent,
               CanAttach(d, e, checked), Stored(d, w, n, c, e, looked, clock)
        PROVE  Attached(w)
    <2>1. checked \in Nat /\ clock - checked <= MaxLag
      BY <1>1 DEF Recent
    <2>. QED  BY <1>1, <1>2, <2>1, StoredAttached
  <1>3. ASSUME NEW n, NEW m, NEW k, Related(d, w, n, m, k) PROVE Attached(w)
    BY <1>3, AttachedStays DEF Related
  <1>4. ASSUME NEW S, Erased(d, w, S) PROVE Attached(w)
    BY <1>4, AttachedStays DEF Erased
  <1>5. ASSUME Remarked(d, w) PROVE Attached(w)
    BY <1>5, AttachedStays DEF Remarked
  <1>6. \/ \E n \in Names, c \in Contents, e \in Nat, checked, looked \in Recent :
              CanAttach(d, e, checked) /\ Stored(d, w, n, c, e, looked, clock)
        \/ \E n, m \in Names, k \in Kinds : Related(d, w, n, m, k)
        \/ \E S : Erased(d, w, S)
        \/ Remarked(d, w)
    BY MarkedStep DEF Written, Forgotten
  <1>. QED  BY <1>2, <1>3, <1>4, <1>5, <1>6

\* TombstonesEmpty, name by name and row by row.
Swept(d, n) ==
    d.ent[n].state # "live" =>
        /\ \A o \in DOMAIN d.obs : d.obs[o].ent = n => d.obs[o].deleted
        /\ \A r \in d.rel : r.from # n /\ r.to # n

Tidy(d) == \A n \in Names : Swept(d, n)

LEMMA TidyRows ==
    ASSUME NEW d
    PROVE  TombstonesEmpty(d) <=> Tidy(d)
  BY DEF TombstonesEmpty, Tidy, Swept, ObsOf, Undeleted

\* No write leaves anything under a tombstone that had nothing.
LEMMA StoredSwept ==
    ASSUME NEW d, NEW w, NEW n, NEW c, NEW e, NEW looked, NEW now,
           Stored(d, w, n, c, e, looked, now), NEW m \in Names, Swept(d, m)
    PROVE  Swept(w, m)
  <1>. SUFFICES ASSUME w.ent[m].state # "live"
                PROVE  /\ \A o \in DOMAIN w.obs : w.obs[o].ent = m => w.obs[o].deleted
                       /\ \A r \in w.rel : r.from # m /\ r.to # m
    BY DEF Swept
  <1>1. m # n /\ d.ent[m].state # "live"
    BY DEF Stored
  <1>2. ASSUME NEW o \in DOMAIN w.obs, w.obs[o].ent = m
        PROVE  o \in DOMAIN d.obs /\ w.obs[o] = d.obs[o]
    BY <1>1, <1>2 DEF Stored, Carries
  <1>. QED  BY <1>1, <1>2 DEF Swept, Stored

LEMMA WrittenSwept ==
    ASSUME IInv, NEW d, Good(d, clock), NEW w, Written(d, w),
           NEW m \in Names, Swept(d, m)
    PROVE  Swept(w, m)
  <1>1. d \in Database /\ clock \in Nat
    BY DEF IInv, Good
  <1>2. ASSUME NEW n \in Names, NEW i \in Names, NEW k, Related(d, w, n, i, k)
        PROVE  Swept(w, m)
    BY <1>2 DEF Related, Swept
  <1>3. ASSUME NEW S, Erased(d, w, S), w.ent = d.ent, w.rel = d.rel
        PROVE  Swept(w, m)
    BY <1>3 DEF Erased, Swept
  <1>4. ASSUME NEW n \in Names, Forgotten(d, w, n) PROVE Swept(w, m)
    <2>1. CASE m = n
      BY <1>4, <2>1 DEF Forgotten, Erased, ObsOf, Swept
    <2>2. CASE m # n
      BY <1>4, <2>2 DEF Forgotten, Erased, Swept
    <2>. QED  BY <2>1, <2>2
  <1>5. ASSUME Remarked(d, w) PROVE Swept(w, m)
    BY <1>5 DEF Remarked, Swept
  <1>6. \/ \E n \in Names, c \in Contents, e \in Nat, looked \in Recent :
              Stored(d, w, n, c, e, looked, clock)
        \/ \E n, i \in Names, k \in Kinds : Related(d, w, n, i, k)
        \/ \E o \in ObsIds : Erased(d, w, {o}) /\ w.ent = d.ent /\ w.rel = d.rel
        \/ \E n \in Names : Forgotten(d, w, n)
        \/ Remarked(d, w)
    BY MarkedStep DEF Written
  <1>. QED  BY <1>2, <1>3, <1>4, <1>5, <1>6, StoredSwept

LEMMA WrittenTidy ==
    ASSUME IInv, NEW d, Good(d, clock), Tidy(d), NEW w, Written(d, w)
    PROVE  Tidy(w)
  BY WrittenSwept DEF Tidy

LEMMA EmptyIsTidy == Attached(EmptyDatabase) /\ Tidy(EmptyDatabase)
  BY DEF EmptyDatabase, Attached, Tidy, Swept

AInv == IInv /\ Attached(db) /\ Attached(tx.work)

LEMMA AttachedStep == AInv /\ [Next]_vars => AInv'
  <1>. SUFFICES ASSUME AInv, [Next]_vars PROVE AInv'
    OBVIOUS
  <1>1. /\ IInv /\ IInv' /\ clock \in Nat /\ Good(db, clock) /\ Good(tx.work, clock)
        /\ db \in Database /\ tx.work \in Database
        /\ Attached(db) /\ Attached(tx.work)
    BY NextGood DEF AInv, IInv, Good
  <1>3. CASE UNCHANGED vars \/ Tick
    BY <1>1, <1>3 DEF AInv, vars, Tick, Attached
  <1>4. CASE UNCHANGED <<clock, tx>> /\ Written(db, db')
    BY <1>1, <1>4, WrittenAttached DEF AInv, Attached
  <1>5. CASE UNCHANGED <<db, clock>> /\ tx'.work = db
    BY <1>1, <1>5 DEF AInv, Attached
  <1>6. ASSUME NEW x \in Nat, UNCHANGED <<db, clock>>, tx'.work = CreateEvent(db, x)
        PROVE  AInv'
    <2>1. Attached(tx'.work)
      BY <1>1, <1>6, EventCreated DEF Attached
    <2>. QED  BY <1>1, <1>6, <2>1 DEF AInv, Attached
  <1>7. CASE UNCHANGED <<db, clock>> /\ Worked(tx.work, tx'.work)
    <2>1. Written(tx.work, tx'.work)
      BY <1>7 DEF Worked, Written
    <2>2. Attached(tx'.work)
      BY <1>1, <2>1, WrittenAttached
    <2>. QED  BY <1>1, <1>7, <2>2 DEF AInv, Attached
  <1>8. CASE CommitFacts
    BY <1>1, <1>8, EmptyIsTidy, NoTxIsTransaction DEF AInv, CommitFacts, Attached
  <1>9. CASE AbortFacts
    BY <1>1, <1>9, EmptyIsTidy, NoTxIsTransaction DEF AInv, AbortFacts, Attached
  <1>. QED  BY <1>1, <1>3, <1>4, <1>5, <1>6, <1>7, <1>8, <1>9, Steps

LEMMA AttachedInit == Init => AInv
  <1>. SUFFICES ASSUME Init PROVE AInv
    OBVIOUS
  <1>1. db \in Seeds /\ tx.work = EmptyDatabase /\ IInv
    BY InitGood, NoTxIsTransaction DEF Init
  <1>2. Attached(db)
    <2>. SUFFICES ASSUME NEW o \in DOMAIN db.obs, db.obs[o].event # NoEvent
                  PROVE  /\ db.obs[o].event \in DOMAIN db.events
                         /\ \/ db.events[db.obs[o].event] = Never
                            \/ db.events[db.obs[o].event] + MaxLag > db.obs[o].created
      BY DEF Attached
    <2>1. db.obs[o].event \in DOMAIN db.events /\ db.obs[o].created = 0
      BY <1>1, SeedsAssumption
    <2>2. db.events[db.obs[o].event] \in Nat
      BY <1>1, <2>1, SeedsAssumption DEF Database
    <2>. QED  BY <2>1, <2>2, BoundsAssumption DEF Never
  <1>. QED  BY <1>1, <1>2, EmptyIsTidy DEF AInv

\* ensureEventIsActive, within the seconds one call's statements may straddle:
\* no row is ever attached to an event that is over.
THEOREM AttachedCorrect == Spec => []AttachedWhileActive
  <1>1. AInv => AttachedWhileActive
    BY DEF AInv, Attached, AttachedWhileActive
  <1>. QED  BY <1>1, AttachedInit, AttachedStep, PTL DEF Spec

\* What reviving a name relies on: nothing undeleted under a tombstone.  It
\* holds of databases that only these handlers have written (a drifted import
\* is what the semantic report looks for).
NoDrift == \A d \in Seeds : TombstonesEmpty(d)

TInv == IInv /\ Tidy(db) /\ Tidy(tx.work)

LEMMA TidyInit == NoDrift /\ Init => TInv
  BY InitGood, NoTxIsTransaction, EmptyIsTidy, TidyRows DEF NoDrift, Init, TInv

LEMMA TidyStep == TInv /\ [Next]_vars => TInv'
  <1>. SUFFICES ASSUME TInv, [Next]_vars PROVE TInv'
    OBVIOUS
  <1>1. /\ IInv /\ IInv' /\ Good(db, clock) /\ Good(tx.work, clock)
        /\ db \in Database /\ Tidy(db) /\ Tidy(tx.work)
    BY NextGood DEF TInv, IInv, Good
  <1>2. CASE UNCHANGED vars \/ Tick
    BY <1>1, <1>2 DEF TInv, vars, Tick, Tidy, Swept
  <1>3. CASE UNCHANGED <<clock, tx>> /\ Written(db, db')
    BY <1>1, <1>3, WrittenTidy DEF TInv, Tidy, Swept
  <1>4. CASE UNCHANGED <<db, clock>> /\ tx'.work = db
    BY <1>1, <1>4 DEF TInv, Tidy, Swept
  <1>5. ASSUME NEW x \in Nat, UNCHANGED <<db, clock>>, tx'.work = CreateEvent(db, x)
        PROVE  TInv'
    <2>1. Tidy(tx'.work)
      BY <1>1, <1>5, EventCreated DEF Tidy, Swept
    <2>. QED  BY <1>1, <1>5, <2>1 DEF TInv, Tidy, Swept
  <1>6. CASE UNCHANGED <<db, clock>> /\ Worked(tx.work, tx'.work)
    <2>1. Written(tx.work, tx'.work)
      BY <1>6 DEF Worked, Written
    <2>2. Tidy(tx'.work)
      BY <1>1, <2>1, WrittenTidy
    <2>. QED  BY <1>1, <1>6, <2>2 DEF TInv, Tidy, Swept
  <1>7. CASE CommitFacts
    BY <1>1, <1>7, EmptyIsTidy, NoTxIsTransaction DEF TInv, CommitFacts, Tidy, Swept
  <1>8. CASE AbortFacts
    BY <1>1, <1>8, EmptyIsTidy, NoTxIsTransaction DEF TInv, AbortFacts, Tidy, Swept
  <1>. QED  BY <1>1, <1>2, <1>3, <1>4, <1>5, <1>6, <1>7, <1>8, Steps

\* The forget paths and UpsertEntity: whatever revives a name finds nothing
\* that was forgotten under it, neither a row, a superseded one included, nor
\* an edge.
THEOREM TombstonesCorrect == NoDrift /\ Spec => []TombstonesHideNothing
  <1>1. TInv => TombstonesHideNothing
    BY TidyRows DEF TInv, TombstonesHideNothing
  <1>. QED  BY <1>1, TidyInit, TidyStep, PTL DEF Spec

---------------------------------------------------------------------------
(* A transaction of several facts.                                         *)

\* What was active at a second was active at the seconds before.
LEMMA ActiveBefore ==
    ASSUME NEW d \in Database, NEW o \in DOMAIN d.obs, NEW now \in Nat,
           NEW before \in Nat, before <= now, ActiveObservation(d, o, now)
    PROVE  ActiveObservation(d, o, before)
  <1>1. \A e \in DOMAIN d.events : d.events[e] \in Nat
    BY DEF Database
  <1>. QED  BY <1>1 DEF ActiveObservation, EventAllows, ActiveEvent

\* The working copy w has everything the committed database d has.
Continues(d, w) ==
    /\ \A o \in DOMAIN d.obs : o \in DOMAIN w.obs /\ w.obs[o] = d.obs[o]
    /\ \A e \in DOMAIN d.events : e \in DOMAIN w.events /\ w.events[e] = d.events[e]
    /\ Len(w.events) <= Len(d.events) + 1
    /\ \A n \in Names : Live(d, n) => Live(w, n)
    /\ w.rel = d.rel /\ w.runs = d.runs /\ w.dec = d.dec

\* A row that w has beyond d is alone in carrying its fact actively.
NoTwins(d, w, now) ==
    \A o \in DOMAIN w.obs \ DOMAIN d.obs, p \in DOMAIN w.obs :
        o # p /\ FactOf(w, o) = FactOf(w, p) =>
            ~(ActiveObservation(w, o, now) /\ ActiveObservation(w, p, now))

HasFact(w, f) ==
    /\ Live(w, f[1])
    /\ \E o \in DOMAIN w.obs :
          FactOf(w, o) = f /\ ~w.obs[o].deleted /\ w.obs[o].by = NoObs

WInv == /\ IInv
        /\ tx # NoTx => /\ Continues(db, tx.work)
                        /\ NoTwins(db, tx.work, clock)
                        /\ \A f \in tx.facts : HasFact(tx.work, f)

\* A fact stored in d is the only active copy that is new, and leaves the
\* others as they are.
LEMMA StoredAlone ==
    ASSUME NEW d \in Database, NEW w, NEW n, NEW c, NEW e, NEW now \in Nat,
           NEW looked \in 0 .. now, Stored(d, w, n, c, e, looked, now)
    PROVE  /\ \A o \in DOMAIN d.obs :
                 /\ ActiveObservation(w, o, now) = ActiveObservation(d, o, now)
                 /\ FactOf(w, o) = FactOf(d, o)
           /\ NoTwins(d, w, now)
  <1>1. ASSUME NEW o \in DOMAIN d.obs
        PROVE  /\ ActiveObservation(w, o, now) = ActiveObservation(d, o, now)
               /\ FactOf(w, o) = FactOf(d, o)
    BY DEF Stored, ActiveObservation, EventAllows, ActiveEvent, FactOf
  <1>2. ASSUME NEW o \in DOMAIN w.obs \ DOMAIN d.obs, NEW p \in DOMAIN w.obs,
               o # p, FactOf(w, o) = FactOf(w, p), ActiveObservation(w, p, now)
        PROVE  FALSE
    <2>1. /\ p \in DOMAIN d.obs /\ Carries(w, o, n, c)
          /\ \A q \in DOMAIN d.obs : Carries(d, q, n, c) => ~ActiveObservation(d, q, looked)
      BY <1>2 DEF Stored
    <2>2. Carries(d, p, n, c)
      BY <1>1, <1>2, <2>1 DEF FactOf, Carries
    <2>3. ActiveObservation(d, p, now)
      BY <1>1, <1>2, <2>1
    <2>4. ActiveObservation(d, p, looked)
      BY <2>1, <2>3, ActiveBefore
    <2>. QED  BY <2>1, <2>2, <2>4
  <1>. QED  BY <1>1, <1>2 DEF NoTwins

LEMMA StoredHas ==
    ASSUME NEW d \in Database, NEW w, NEW n \in Names, NEW c, NEW e, NEW looked, NEW now,
           Stored(d, w, n, c, e, looked, now)
    PROVE  /\ HasFact(w, <<n, c>>)
           /\ \A f \in Facts : HasFact(d, f) => HasFact(w, f)
  <1>1. HasFact(w, <<n, c>>)
    <2>1. \E o \in DOMAIN w.obs :
             Carries(w, o, n, c) /\ ~w.obs[o].deleted /\ w.obs[o].by = NoObs
      BY DEF Stored, Carries, ActiveObservation
    <2>. QED  BY <2>1 DEF HasFact, Live, FactOf, Carries, Stored
  <1>2. ASSUME NEW f \in Facts, HasFact(d, f) PROVE HasFact(w, f)
    <2>1. f[1] \in Names
      BY DEF Facts
    <2>2. Live(w, f[1])
      BY <1>2, <2>1 DEF HasFact, Live, Stored
    <2>3. PICK o \in DOMAIN d.obs :
             FactOf(d, o) = f /\ ~d.obs[o].deleted /\ d.obs[o].by = NoObs
      BY <1>2 DEF HasFact
    <2>4. o \in DOMAIN w.obs /\ w.obs[o] = d.obs[o]
      BY DEF Stored
    <2>. QED  BY <2>2, <2>3, <2>4 DEF HasFact, FactOf
  <1>. QED  BY <1>1, <1>2

LEMMA StoredContinues ==
    ASSUME NEW d, NEW v, NEW w, NEW n \in Names, NEW c, NEW e, NEW looked, NEW now,
           Continues(d, v), Stored(v, w, n, c, e, looked, now)
    PROVE  Continues(d, w)
  BY DEF Continues, Stored, Live

LEMMA WorkInit == Init => WInv
  BY InitGood DEF Init, WInv

LEMMA WorkStep == WInv /\ [Next]_vars => WInv'
  <1>. SUFFICES ASSUME WInv, [Next]_vars PROVE WInv'
    OBVIOUS
  <1>1. /\ IInv /\ IInv' /\ clock \in Nat /\ Good(db, clock) /\ Good(tx.work, clock)
        /\ db \in Database /\ tx.work \in Database /\ tx.facts \subseteq Facts
    BY NextGood DEF WInv, IInv, Good, Transaction
  <1>2. CASE UNCHANGED vars
    BY <1>1, <1>2 DEF WInv, vars, HasFact, Live
  <1>3. CASE Tick
    <2>1. clock' = clock + 1 /\ UNCHANGED <<db, tx>>
      BY <1>3 DEF Tick
    <2>2. \A o \in DOMAIN tx.work.obs :
             ActiveObservation(tx.work, o, clock') => ActiveObservation(tx.work, o, clock)
      BY <1>1, <2>1, ActiveBefore
    <2>3. NoTwins(db, tx.work, clock) => NoTwins(db, tx.work, clock')
      BY <2>2 DEF NoTwins
    <2>. QED  BY <1>1, <2>1, <2>3 DEF WInv, HasFact, Live
  <1>4. CASE tx' = NoTx
    BY <1>1, <1>4 DEF WInv
  <1>5. CASE UNCHANGED <<db, clock>> /\ tx'.work = db /\ tx'.facts = {}
    <2>1. Continues(db, db) /\ NoTwins(db, db, clock)
      BY <1>1 DEF Continues, NoTwins, Database
    <2>. QED  BY <1>1, <1>5, <2>1 DEF WInv
  <1>6. ASSUME NEW x \in Nat, UNCHANGED <<db, clock>>, tx'.work = CreateEvent(db, x),
               tx'.facts = {}
        PROVE  WInv'
    <2>. DEFINE w == CreateEvent(db, x)
    <2>1. /\ w.obs = db.obs /\ w.rel = db.rel /\ w.runs = db.runs /\ w.dec = db.dec
          /\ w.ent = db.ent /\ Len(w.events) = Len(db.events) + 1
          /\ \A e \in DOMAIN db.events :
                e \in DOMAIN w.events /\ w.events[e] = db.events[e]
      BY <1>1, EventCreated
    <2>. HIDE DEF w
    <2>2. Continues(db, w) /\ NoTwins(db, w, clock)
      BY <2>1 DEF Continues, NoTwins, Live
    <2>. QED  BY <1>1, <1>6, <2>2 DEF WInv, w
  <1>7. CASE UNCHANGED <<db, clock>> /\ Worked(tx.work, tx'.work)
    <2>. DEFINE v == tx.work
                w == tx'.work
    <2>1. PICK n \in Names, c \in Contents, e \in Nat, looked \in Recent :
             Stored(v, w, n, c, e, looked, clock) /\ tx'.facts = tx.facts \cup {<<n, c>>}
      BY <1>7 DEF Worked
    <2>2. /\ Continues(db, v) /\ NoTwins(db, v, clock)
          /\ \A f \in tx.facts : HasFact(v, f)
      BY <1>7 DEF WInv, Worked
    <2>3. looked \in 0 .. clock
      BY DEF Recent
    <2>. HIDE DEF v, w
    <2>4. Continues(db, w)
      BY <2>1, <2>2, StoredContinues
    <2>5. v \in Database
      BY <1>1 DEF v
    <2>6. /\ \A o \in DOMAIN v.obs :
                /\ ActiveObservation(w, o, clock) = ActiveObservation(v, o, clock)
                /\ FactOf(w, o) = FactOf(v, o)
          /\ NoTwins(v, w, clock)
      BY <1>1, <2>1, <2>3, <2>5, StoredAlone
    <2>7. NoTwins(db, w, clock)
      <3>. SUFFICES ASSUME NEW o \in DOMAIN w.obs \ DOMAIN db.obs, NEW p \in DOMAIN w.obs,
                           o # p, FactOf(w, o) = FactOf(w, p),
                           ActiveObservation(w, o, clock), ActiveObservation(w, p, clock)
                    PROVE  FALSE
        BY DEF NoTwins
      <3>1. o \in DOMAIN v.obs
        BY <2>6 DEF NoTwins
      <3>2. p \in DOMAIN v.obs
        BY <2>6, <3>1 DEF NoTwins
      <3>. QED  BY <2>2, <2>6, <3>1, <3>2 DEF NoTwins
    <2>8. \A f \in tx'.facts : HasFact(w, f)
      BY <1>1, <2>1, <2>2, <2>5, StoredHas
    <2>. QED  BY <1>1, <1>7, <2>4, <2>7, <2>8 DEF WInv, w
  <1>. QED  BY <1>1, <1>2, <1>3, <1>4, <1>5, <1>6, <1>7, Steps DEF CommitFacts, AbortFacts

LEMMA WorkAlways == Spec => []WInv
  BY WorkInit, WorkStep, PTL DEF Spec

\* remember_batch and remember_event: when they report success, a row of the
\* live entity carries each fact, though it may have been reused.
THEOREM AcknowledgedCorrect == Spec => AcknowledgedFactsKept
  <1>. DEFINE P == CommitFacts =>
                 \A f \in tx.facts :
                    /\ Live(db', f[1])
                    /\ \E o \in DOMAIN db'.obs :
                          /\ FactOf(db', o) = f
                          /\ ~db'.obs[o].deleted /\ db'.obs[o].by = NoObs
  <1>1. WInv => P
    BY DEF WInv, CommitFacts, Idle, HasFact
  <1>. QED  BY <1>1, WorkAlways, PTL DEF AcknowledgedFactsKept, Spec

\* AddObservation's reuse, across handlers and within one transaction: no
\* write creates a second visible copy of a fact that is visible.
THEOREM NoDuplicates == Spec => NoNewDuplicates
  <1>. DEFINE P == \A o \in Added(db'), p \in DOMAIN db'.obs :
                 o # p /\ FactOf(db', o) = FactOf(db', p) =>
                    ~(Visible(db', o, clock') /\ Visible(db', p, clock'))
  <1>1. WInv /\ [Next]_vars => P
    <2>. SUFFICES ASSUME WInv, [Next]_vars PROVE P
      OBVIOUS
    <2>1. /\ IInv /\ clock \in Nat /\ db \in Database /\ Good(db, clock)
      BY DEF WInv, IInv, Good
    <2>2. NoTwins(db, db', clock') => P
      BY DEF NoTwins, Added, Visible
    <2>3. CASE DOMAIN db'.obs = DOMAIN db.obs
      BY <2>3 DEF Added
    <2>4. CASE CommitFacts
      BY <2>2, <2>4 DEF WInv, CommitFacts, Idle
    <2>5. CASE UNCHANGED clock /\ Written(db, db')
      <3>1. CASE \E n \in Names, c \in Contents, e \in Nat, looked \in Recent :
                    Stored(db, db', n, c, e, looked, clock)
        <4>1. Recent = {s \in 0 .. clock : clock - s <= MaxLag}
          BY DEF Recent
        <4>. QED  BY <2>1, <2>2, <2>5, <3>1, <4>1, StoredAlone
      <3>2. CASE Remarked(db, db')
        BY <2>3, <3>2 DEF Remarked
      <3>. QED  BY <2>1, <2>3, <2>5, <3>1, <3>2, MarkedStep
                DEF Written, Related, Erased, Forgotten
    <2>. QED  BY <2>1, <2>3, <2>4, <2>5, Steps DEF vars, Tick, AbortFacts
  <1>. QED  BY <1>1, WorkAlways, PTL DEF NoNewDuplicates, Spec

---------------------------------------------------------------------------
(* What a step does to the marks, and who may undo them.                    *)

\* The rows of d are rows of w under the same marks; w may delete some.
Kept(d, w) ==
    /\ w.dec = d.dec
    /\ \A e \in DOMAIN d.events : e \in DOMAIN w.events /\ w.events[e] = d.events[e]
    /\ \A o \in DOMAIN d.obs :
          /\ o \in DOMAIN w.obs
          /\ w.obs[o].ent = d.obs[o].ent /\ w.obs[o].content = d.obs[o].content
          /\ w.obs[o].event = d.obs[o].event /\ w.obs[o].by = d.obs[o].by
          /\ d.obs[o].deleted => w.obs[o].deleted

\* Only apply and rollback move marks.
LEMMA MarksMove ==
    ASSUME WInv, [Next]_vars
    PROVE  \/ Kept(db, db') /\ clock' \in Nat /\ clock <= clock'
           \/ /\ clock' = clock
              /\ \E lag \in 0 .. MaxLag, S \in SUBSET Names, scope \in Scopes :
                    db' = ApplyExactDuplicates(db, S, clock - lag, scope)
           \/ /\ clock' = clock
              /\ \E lag \in 0 .. MaxLag, r \in Runs, scope \in Scopes,
                    aliases \in SUBSET Scopes :
                    /\ CanRollback(db, r, clock - lag, scope, aliases)
                    /\ db' = RollbackRun(db, r, scope)
  <1>1. IInv /\ clock \in Nat
    BY DEF WInv, IInv
  <1>2. CASE UNCHANGED db
    <2>1. clock' = clock \/ clock' = clock + 1
      BY <1>1, Steps DEF Tick, CommitFacts, AbortFacts, vars
    <2>. QED  BY <1>1, <1>2, <2>1 DEF Kept
  <1>3. CASE CommitFacts
    BY <1>1, <1>3 DEF WInv, CommitFacts, Idle, Continues, Kept
  <1>4. CASE UNCHANGED <<clock, tx>> /\ Written(db, db')
    <2>1. \/ \E n \in Names, c \in Contents, e \in Nat, looked \in Recent :
                Stored(db, db', n, c, e, looked, clock)
          \/ \E n, m \in Names, k \in Kinds : Related(db, db', n, m, k)
          \/ \E S : Erased(db, db', S)
          => Kept(db, db')
      BY DEF Stored, Related, Erased, Kept
    <2>2. \/ Kept(db, db')
          \/ \E lag \in 0 .. MaxLag, S \in SUBSET Names, scope \in Scopes :
                db' = ApplyExactDuplicates(db, S, clock - lag, scope)
          \/ \E lag \in 0 .. MaxLag, r \in Runs, scope \in Scopes,
                aliases \in SUBSET Scopes :
                /\ CanRollback(db, r, clock - lag, scope, aliases)
                /\ db' = RollbackRun(db, r, scope)
      BY <1>4, <2>1 DEF Written, Forgotten
    <2>3. clock' = clock /\ clock' \in Nat /\ clock <= clock'
      BY <1>1, <1>4
    <2>. QED  BY <2>2, <2>3
  <1>5. UNCHANGED db \/ CommitFacts \/ (UNCHANGED <<clock, tx>> /\ Written(db, db'))
    BY <1>1, Steps DEF vars, Tick, AbortFacts
  <1>. QED  BY <1>2, <1>3, <1>4, <1>5

\* A row that w shows at a later second was shown by d, unless w took a mark
\* or the deletion of it back.
LEMMA StaysHidden ==
    ASSUME NEW d \in Database, Tidy(d), Attached(d), NEW w, NEW o \in DOMAIN d.obs,
           NEW now \in Nat, NEW later \in Nat, now <= later,
           \A e \in DOMAIN d.events : e \in DOMAIN w.events /\ w.events[e] = d.events[e],
           w.obs[o].event = d.obs[o].event,
           w.obs[o].by = NoObs => d.obs[o].by = NoObs,
           d.obs[o].deleted => w.obs[o].deleted,
           Visible(w, o, later)
    PROVE  Visible(d, o, now)
  <1>1. d.obs[o].ent \in Names /\ \A e \in DOMAIN d.events : d.events[e] \in Nat
    <2>1. d.obs[o] \in ObsRow
      BY RowOfTable DEF Database
    <2>2. d.events \in Seq(Nat)
      BY DEF Database
    <2>. QED  BY <2>1, <2>2 DEF ObsRow
  <1>2. ~d.obs[o].deleted /\ d.obs[o].by = NoObs
    BY DEF Visible, ActiveObservation
  <1>3. Live(d, d.obs[o].ent)
    BY <1>1, <1>2 DEF Tidy, Swept, Live
  <1>4. EventAllows(d, o, now)
    <2>1. CASE d.obs[o].event = NoEvent
      BY <2>1 DEF EventAllows
    <2>2. CASE d.obs[o].event # NoEvent
      <3>1. ActiveEvent(w, d.obs[o].event, later) /\ d.obs[o].event \in DOMAIN d.events
        BY <2>2 DEF Visible, ActiveObservation, EventAllows, Attached
      <3>. QED  BY <1>1, <3>1 DEF ActiveEvent, EventAllows
    <2>. QED  BY <2>1, <2>2
  <1>. QED  BY <1>2, <1>3, <1>4 DEF Visible, ActiveObservation

\* Nothing but a rollback makes a hidden row visible again: not reviving its
\* entity, relating it, remembering its content, forgetting the row that
\* superseded it, or time.
THEOREM RollbackAloneRestores == NoDrift /\ Spec => OnlyRollbackRestores
  <1>. DEFINE P == \A o \in DOMAIN db.obs :
                 ~Visible(db, o, clock) /\ Visible(db', o, clock') =>
                    /\ db.obs[o].by # NoObs /\ db'.obs[o].by = NoObs
                    /\ \E x \in db.dec \ db'.dec : o \in x.sources
  <1>1. TInv /\ AInv /\ WInv /\ [Next]_vars => P
    <2>. SUFFICES ASSUME TInv, AInv, WInv, [Next]_vars,
                         NEW o \in DOMAIN db.obs,
                         ~Visible(db, o, clock), Visible(db', o, clock')
                  PROVE  /\ db.obs[o].by # NoObs /\ db'.obs[o].by = NoObs
                         /\ \E x \in db.dec \ db'.dec : o \in x.sources
      OBVIOUS
    <2>1. /\ Tidy(db) /\ Attached(db) /\ clock \in Nat /\ db \in Database
          /\ Good(db, clock)
      BY DEF TInv, AInv, IInv, Good
    <2>2. CASE Kept(db, db') /\ clock' \in Nat /\ clock <= clock'
      BY <2>1, <2>2, StaysHidden DEF Kept
    <2>3. ASSUME NEW lag \in 0 .. MaxLag, NEW S \in SUBSET Names, NEW scope \in Scopes,
                 clock' = clock, db' = ApplyExactDuplicates(db, S, clock - lag, scope)
          PROVE  FALSE
      <3>1. Remarked(db, db')
        BY <2>1, <2>3, ApplyRemarks
      <3>2. \/ db'.obs[o] = db.obs[o]
            \/ \E p \in DOMAIN db.obs \ {o} : db'.obs[o].by = p
        <4>1. Hides(db, db', clock - lag)
          BY <2>1, <2>3, ApplyRemarks
        <4>. QED  BY <4>1 DEF Hides
      <3>3. NoObs \notin DOMAIN db.obs
        BY <2>1 DEF Database, NoObs
      <3>. QED  BY <2>1, <2>3, <3>1, <3>2, <3>3, StaysHidden DEF Remarked
    <2>4. ASSUME NEW lag \in 0 .. MaxLag, NEW r \in Runs, NEW scope \in Scopes,
                 NEW aliases \in SUBSET Scopes, clock' = clock,
                 CanRollback(db, r, clock - lag, scope, aliases),
                 db' = RollbackRun(db, r, scope)
          PROVE  /\ db.obs[o].by # NoObs /\ db'.obs[o].by = NoObs
                 /\ \E x \in db.dec \ db'.dec : o \in x.sources
      <3>. DEFINE hidden == UNION {x.sources : x \in DecisionsOf(db, r)}
      <3>1. /\ Remarked(db, db')
            /\ IF o \in hidden THEN db'.obs[o].by = NoObs ELSE db'.obs[o] = db.obs[o]
            /\ \A x \in db.dec : x.run = r /\ x.reverted = NoRun => x \notin db'.dec
        BY <2>1, <2>4, RollbackRemarks
      <3>2. o \in hidden
        BY <2>1, <2>4, <3>1, StaysHidden DEF Remarked
      <3>3. PICK x \in db.dec : x.run = r /\ o \in x.sources
        BY <3>2 DEF DecisionsOf
      <3>4. CanRevert(db, x, clock - lag)
        BY <2>4, <3>3 DEF CanRollback, DecisionsOf
      <3>5. x.target \in DOMAIN db.obs /\ db.obs[o].by = x.target
        BY <3>3, <3>4 DEF CanRevert, Carriers, CurrentSources
      <3>6. db.obs[o].by # NoObs
        BY <2>1, <3>5 DEF Database, NoObs
      <3>. QED  BY <3>1, <3>2, <3>3, <3>4, <3>6 DEF CanRevert
    <2>. QED  BY <2>2, <2>3, <2>4, MarksMove
  <1>. QED
    BY <1>1, TidyInit, TidyStep, AttachedInit, AttachedStep, WorkInit, WorkStep, PTL
       DEF OnlyRollbackRestores, Spec

\* A write happens in the second it was judged at.
NoLag == MaxLag = 0

\* Apply, when no second falls between its clock read and its write, hides a
\* row only in favour of another copy of its fact that is visible then.
THEOREM SupersessionCorrect == NoLag /\ Spec => SupersededByVisible
  <1>. DEFINE P == \A o \in DOMAIN db.obs :
                 db.obs[o].by = NoObs /\ db'.obs[o].by # NoObs =>
                    /\ db'.obs[o].by # o
                    /\ FactOf(db', o) = FactOf(db', db'.obs[o].by)
                    /\ Visible(db', db'.obs[o].by, clock')
  <1>1. NoLag /\ WInv /\ [Next]_vars => P
    <2>. SUFFICES ASSUME NoLag, WInv, [Next]_vars, NEW o \in DOMAIN db.obs,
                         db.obs[o].by = NoObs, db'.obs[o].by # NoObs
                  PROVE  /\ db'.obs[o].by # o
                         /\ FactOf(db', o) = FactOf(db', db'.obs[o].by)
                         /\ Visible(db', db'.obs[o].by, clock')
      OBVIOUS
    <2>1. clock \in Nat /\ db \in Database /\ Good(db, clock)
      BY DEF WInv, IInv, Good
    <2>2. PICK S \in SUBSET Names, scope \in Scopes :
             db' = ApplyExactDuplicates(db, S, clock, scope) /\ clock' = clock
      <3>1. ~Kept(db, db')
        BY DEF Kept
      <3>2. ASSUME NEW r, NEW scope \in Scopes, db' = RollbackRun(db, r, scope)
            PROVE  FALSE
        BY <2>1, <3>2, RollbackRemarks
      <3>3. \A lag \in 0 .. MaxLag : clock - lag = clock
        BY <2>1 DEF NoLag
      <3>. QED  BY <3>1, <3>2, <3>3, MarksMove
    <2>3. Remarked(db, db')
      BY <2>1, <2>2, ApplyRemarks
    <2>4. PICK p \in DOMAIN db.obs \ {o} :
             /\ db'.obs[o].by = p /\ db'.obs[p] = db.obs[p]
             /\ FactOf(db, p) = FactOf(db, o) /\ Visible(db, p, clock)
      <3>1. Hides(db, db', clock)
        BY <2>1, <2>2, ApplyRemarks
      <3>. QED  BY <3>1 DEF Hides
    <2>5. Visible(db', p, clock') /\ FactOf(db', p) = FactOf(db', o)
      BY <2>2, <2>3, <2>4
         DEF Remarked, Visible, ActiveObservation, EventAllows, ActiveEvent, Live, FactOf
    <2>. QED  BY <2>4, <2>5
  <1>2. NoLag => NoLag'
    BY DEF NoLag
  <1>. QED  BY <1>1, <1>2, WorkAlways, PTL DEF SupersededByVisible, Spec

\* Rollback, when no second falls between its clock read and its write, brings
\* back every source of every decision of the run, visible beside its target,
\* or nothing, and changes no other row.
THEOREM RollbackCorrect == NoLag /\ Spec => RollbackIsWhole
  <1>. DEFINE Whole(r) ==
                 LET hidden == UNION {x.sources : x \in DecisionsOf(db, r)}
                 IN  \A o \in DOMAIN db.obs :
                       IF o \in hidden
                       THEN /\ Visible(db', o, clock')
                            /\ \E x \in DecisionsOf(db, r) :
                                  o \in x.sources /\ Visible(db', x.target, clock')
                       ELSE db'.obs[o] = db.obs[o]
              P == \A r \in DOMAIN db.runs :
                     (\E x \in DecisionsOf(db, r) : x.reverted = NoRun)
                     /\ (\E x \in DecisionsOf(db', r) : x.reverted # NoRun) => Whole(r)
  <1>1. NoLag /\ WInv /\ [Next]_vars => P
    <2>. SUFFICES ASSUME NoLag, WInv, [Next]_vars, NEW r \in DOMAIN db.runs,
                         NEW x \in DecisionsOf(db, r), x.reverted = NoRun,
                         NEW y \in DecisionsOf(db', r), y.reverted # NoRun
                  PROVE  Whole(r)
      OBVIOUS
    <2>1. /\ clock \in Nat /\ db \in Database /\ Good(db, clock) /\ AuditBacks(db)
          /\ x \in db.dec /\ x.run = r /\ y \in db'.dec /\ y.run = r
      BY DEF WInv, IInv, Good, DecisionsOf
    <2>2. y \notin db.dec
      BY <2>1 DEF AuditBacks, DecisionsOf
    <2>3. PICK scope \in Scopes, aliases \in SUBSET Scopes :
             /\ CanRollback(db, r, clock, scope, aliases)
             /\ db' = RollbackRun(db, r, scope) /\ clock' = clock
      <3>1. ~Kept(db, db')
        BY <2>1, <2>2 DEF Kept
      <3>2. ASSUME NEW lag \in 0 .. MaxLag, NEW S \in SUBSET Names, NEW scope \in Scopes,
                   db' = ApplyExactDuplicates(db, S, clock - lag, scope)
            PROVE  FALSE
        <4>1. \A z \in db'.dec \ db.dec : z.run \notin DOMAIN db.runs
          BY <2>1, <3>2, ApplyRemarks
        <4>. QED  BY <2>1, <2>2, <4>1
      <3>3. ASSUME NEW q, NEW scope \in Scopes, db' = RollbackRun(db, q, scope)
            PROVE  q = r
        BY <2>1, <2>2, <3>3, RollbackRemarks
      <3>4. \A lag \in 0 .. MaxLag : clock - lag = clock
        BY <2>1 DEF NoLag
      <3>. QED  BY <3>1, <3>2, <3>3, <3>4, MarksMove
    <2>. DEFINE hidden == UNION {z.sources : z \in DecisionsOf(db, r)}
    <2>4. /\ Remarked(db, db')
          /\ \A o \in DOMAIN db.obs :
                IF o \in hidden THEN db'.obs[o].by = NoObs
                                ELSE db'.obs[o] = db.obs[o]
      BY <2>1, <2>3, RollbackRemarks
    <2>5. ASSUME NEW o \in DOMAIN db.obs, o \in hidden
          PROVE  /\ Visible(db', o, clock')
                 /\ \E z \in DecisionsOf(db, r) :
                       o \in z.sources /\ Visible(db', z.target, clock')
      <3>1. PICK z \in DecisionsOf(db, r) : o \in z.sources
        BY <2>5
      <3>2. CanRevert(db, z, clock)
        BY <2>3 DEF CanRollback
      <3>3. Restorable(db, o, clock) /\ z.target \in DOMAIN db.obs /\ Visible(db, z.target, clock)
        BY <3>1, <3>2 DEF CanRevert, Carriers
      <3>4. Visible(db', o, clock')
        BY <2>3, <2>4, <2>5, <3>3
           DEF Restorable, Remarked, Visible, ActiveObservation, EventAllows, ActiveEvent, Live
      <3>5. Visible(db', z.target, clock')
        BY <2>3, <2>4, <3>3
           DEF Remarked, Visible, ActiveObservation, EventAllows, ActiveEvent, Live
      <3>. QED  BY <3>1, <3>4, <3>5
    <2>. QED  BY <2>4, <2>5
  <1>2. NoLag => NoLag'
    BY DEF NoLag
  <1>. QED  BY <1>1, <1>2, WorkAlways, PTL DEF RollbackIsWhole, Spec

---------------------------------------------------------------------------
(* The tables implement the client's view.                                 *)

LEMMA FactsAreRows ==
    ASSUME NEW d \in Database, NEW now
    PROVE  /\ \A f : f \in VisibleFacts(d, now) <=>
                       \E o \in DOMAIN d.obs : Visible(d, o, now) /\ f = FactOf(d, o)
           /\ VisibleFacts(d, now) \subseteq Names \X Contents
           /\ \A o \in DOMAIN d.obs : FactOf(d, o) \in Names \X Contents
  <1>1. \A o \in DOMAIN d.obs : d.obs[o].ent \in Names /\ d.obs[o].content \in Contents
    BY RowsAreFacts
  <1>. QED  BY <1>1 DEF VisibleFacts, FactOf

\* Without drift no end of an edge is forgotten, and the listing of entities
\* agrees with what each of them would show.
LEMMA EdgesAreShown ==
    ASSUME NEW d \in Database, Tidy(d)
    PROVE  RecalledEdges(d) = d.rel
  <1>1. \A r \in d.rel : r.from \in Names /\ r.to \in Names
    BY DEF Database, Relation
  <1>2. \A r \in d.rel : Live(d, r.from) /\ Live(d, r.to)
    BY <1>1 DEF Tidy, Swept, Live
  <1>3. ASSUME NEW r PROVE r \in RecalledEdges(d) <=> r \in d.rel
    BY <1>1, <1>2 DEF RecalledEdges, RelationsOutgoing, RelationsIncoming
  <1>. QED  BY <1>3

LEMMA ListingAgrees ==
    ASSUME NEW d \in Database, Tidy(d), NEW now
    PROVE  ListEntities(d, now) =
              {f[1] : f \in VisibleFacts(d, now)}
                 \cup UNION {{r.from, r.to} : r \in RecalledEdges(d)}
  <1>. DEFINE F == VisibleFacts(d, now)
              Shown == {f[1] : f \in F} \cup UNION {{r.from, r.to} : r \in d.rel}
  <1>1. \A r \in d.rel : r.from \in Names /\ r.to \in Names
    BY DEF Database, Relation
  <1>2. \A r \in d.rel : Live(d, r.from) /\ Live(d, r.to)
    BY <1>1 DEF Tidy, Swept, Live
  <1>3. \A o \in DOMAIN d.obs : d.obs[o].ent \in Names
    BY RowsAreFacts
  <1>4. \A n : n \in {f[1] : f \in F} <=>
                 \E o \in DOMAIN d.obs : Visible(d, o, now) /\ n = d.obs[o].ent
    <2>1. \A f : f \in F <=> \E o \in DOMAIN d.obs : Visible(d, o, now) /\ f = FactOf(d, o)
      BY FactsAreRows
    <2>2. \A o : FactOf(d, o)[1] = d.obs[o].ent
      BY DEF FactOf
    <2>. HIDE DEF F
    <2>. QED  BY <2>1, <2>2
  <1>. HIDE DEF F
  <1>5. ASSUME NEW n PROVE n \in ListEntities(d, now) <=> n \in Shown
    <2>1. ASSUME n \in ListEntities(d, now) PROVE n \in Shown
      <3>1. \/ \E o \in DOMAIN d.obs : d.obs[o].ent = n /\ Visible(d, o, now)
            \/ \E r \in d.rel : n \in {r.from, r.to}
        BY <2>1 DEF ListEntities, Visible
      <3>. QED  BY <1>4, <3>1
    <2>2. ASSUME n \in {f[1] : f \in F} PROVE n \in ListEntities(d, now)
      BY <1>3, <1>4, <2>2 DEF ListEntities, Visible
    <2>3. ASSUME NEW r \in d.rel, n \in {r.from, r.to} PROVE n \in ListEntities(d, now)
      BY <1>1, <1>2, <2>3 DEF ListEntities
    <2>. QED  BY <2>1, <2>2, <2>3
  <1>. QED  BY <1>5, EdgesAreShown DEF F

\* A write happens in the second it was judged at, or no reconcile run is made:
\* apply and rollback alone act on rows they judged in an earlier second.
Prompt == NoLag \/ MaxRuns = 0

\* What a step is, seen from the tables alone.
LEMMA Moves ==
    ASSUME Prompt, WInv, [Next]_vars
    PROVE  \/ UNCHANGED <<db, clock>>
           \/ Tick
           \/ /\ clock' = clock
              /\ \/ Continues(db, db')
                 \/ \E n, m \in Names, k \in Kinds : n # m /\ Related(db, db', n, m, k)
                 \/ \E o : Erased(db, db', {o}) /\ db'.ent = db.ent /\ db'.rel = db.rel
                 \/ \E n \in Names : Forgotten(db, db', n)
                 \/ \E S \in SUBSET Names, scope \in Scopes :
                       db' = ApplyExactDuplicates(db, S, clock, scope)
                 \/ \E r \in Runs, scope \in Scopes, aliases \in SUBSET Scopes :
                       /\ CanRollback(db, r, clock, scope, aliases)
                       /\ db' = RollbackRun(db, r, scope)
  <1>1. IInv /\ clock \in Nat /\ db \in Database /\ Continues(db, db)
    BY DEF WInv, IInv, Good, Continues, Database
  <1>2. NoLag => \A lag \in 0 .. MaxLag : clock - lag = clock
    BY <1>1 DEF NoLag
  <1>3. CASE CommitFacts
    BY <1>3 DEF WInv, CommitFacts, Idle
  <1>4. CASE UNCHANGED <<clock, tx>> /\ Written(db, db')
    <2>1. ASSUME NEW n \in Names, NEW c, NEW e, NEW looked,
                 Stored(db, db', n, c, e, looked, clock)
          PROVE  Continues(db, db')
      BY <1>1, <2>1, StoredContinues
    <2>2. ASSUME NEW scope \in Scopes, NEW asOf, NEW S \in SUBSET Names,
                 Len(db'.runs) <= MaxRuns, db' = ApplyExactDuplicates(db, S, asOf, scope)
          PROVE  NoLag
      <3>1. Good(db, clock)
        BY <1>1 DEF IInv
      <3>2. Len(db'.runs) = Len(db.runs) + 1
        BY <1>1, <2>2, <3>1, ApplyRemarks
      <3>3. Len(db.runs) \in Nat
        BY <1>1 DEF Database
      <3>. QED  BY <2>2, <3>2, <3>3 DEF Prompt
    <2>3. ASSUME NEW scope \in Scopes, NEW r,
                 Len(db'.runs) <= MaxRuns, db' = RollbackRun(db, r, scope)
          PROVE  NoLag
      <3>1. Len(db'.runs) = Len(db.runs) + 1
        BY <1>1, <2>3, RollbackRemarks
      <3>2. Len(db.runs) \in Nat
        BY <1>1 DEF Database
      <3>. QED  BY <2>3, <3>1, <3>2 DEF Prompt
    <2>. QED  BY <1>2, <1>4, <2>1, <2>2, <2>3 DEF Written
  <1>. QED  BY <1>1, <1>3, <1>4, Steps DEF vars, AbortFacts

\* A row stays visible while its row, its event and its entity do.
LEMMA StaysVisible ==
    ASSUME NEW d, NEW w, NEW o \in DOMAIN d.obs, NEW now, Visible(d, o, now),
           \A e \in DOMAIN d.events : e \in DOMAIN w.events /\ w.events[e] = d.events[e],
           w.obs[o].ent = d.obs[o].ent, w.obs[o].event = d.obs[o].event,
           ~w.obs[o].deleted, w.obs[o].by = NoObs, Live(w, w.obs[o].ent)
    PROVE  Visible(w, o, now)
  BY DEF Visible, ActiveObservation, EventAllows, ActiveEvent

\* Remembering only adds.
LEMMA ContinuesShows ==
    ASSUME NEW d \in Database, NEW w \in Database, Continues(d, w), NEW now
    PROVE  /\ VisibleFacts(d, now) \subseteq VisibleFacts(w, now)
           /\ SearchEvents(d, now) \subseteq SearchEvents(w, now)
           /\ \A e, f \in SearchEvents(w, now) \ SearchEvents(d, now) : e = f
  <1>1. ASSUME NEW o \in DOMAIN d.obs, Visible(d, o, now)
        PROVE  o \in DOMAIN w.obs /\ Visible(w, o, now) /\ FactOf(w, o) = FactOf(d, o)
    <2>1. d.obs[o] \in ObsRow
      BY RowOfTable DEF Database
    <2>2. o \in DOMAIN w.obs /\ w.obs[o] = d.obs[o] /\ Live(w, w.obs[o].ent)
      BY <1>1, <2>1 DEF Continues, Visible, ObsRow
    <2>3. ~w.obs[o].deleted /\ w.obs[o].by = NoObs
      BY <1>1, <2>2 DEF Visible, ActiveObservation
    <2>4. Visible(w, o, now)
      BY <1>1, <2>2, <2>3, StaysVisible DEF Continues
    <2>. QED  BY <2>2, <2>4 DEF FactOf
  <1>2. SearchEvents(d, now) \subseteq SearchEvents(w, now)
    BY DEF SearchEvents, ActiveEvent, Continues
  <1>3. SearchEvents(w, now) \ SearchEvents(d, now) \subseteq {Len(d.events) + 1}
    <2>1. /\ DOMAIN d.events = 1 .. Len(d.events) /\ Len(d.events) \in Nat
          /\ DOMAIN w.events = 1 .. Len(w.events) /\ Len(w.events) \in Nat
      BY DEF Database
    <2>. QED  BY <2>1 DEF SearchEvents, ActiveEvent, Continues
  <1>4. VisibleFacts(d, now) \subseteq VisibleFacts(w, now)
    BY <1>1, FactsAreRows
  <1>. QED  BY <1>2, <1>3, <1>4

\* Relating revives its endpoints and brings nothing back.
LEMMA RelatedShows ==
    ASSUME NEW d \in Database, Tidy(d), Attached(d), NEW w \in Database,
           NEW n \in Names, NEW m \in Names, NEW k, Related(d, w, n, m, k), NEW now \in Nat
    PROVE  VisibleFacts(w, now) = VisibleFacts(d, now)
  <1>1. \A o \in DOMAIN d.obs : d.obs[o].ent \in Names
    BY RowsAreFacts
  <1>2. \A i \in Names : Live(d, i) => Live(w, i)
    BY DEF Related, Live
  <1>3. ASSUME NEW o \in DOMAIN d.obs
        PROVE  Visible(w, o, now) <=> Visible(d, o, now)
    <2>1. ASSUME Visible(w, o, now) PROVE Visible(d, o, now)
      BY <2>1, StaysHidden DEF Related
    <2>2. ASSUME Visible(d, o, now) PROVE Visible(w, o, now)
      BY <1>1, <1>2, <2>2
         DEF Related, Visible, ActiveObservation, EventAllows, ActiveEvent
    <2>. QED  BY <2>1, <2>2
  <1>4. DOMAIN w.obs = DOMAIN d.obs /\ \A o \in DOMAIN d.obs : FactOf(w, o) = FactOf(d, o)
    BY DEF Related, FactOf
  <1>. QED  BY <1>3, <1>4, FactsAreRows

\* Forgetting rows takes the facts only they showed.
LEMMA ErasedShows ==
    ASSUME NEW d \in Database, NEW w \in Database, NEW S, Erased(d, w, S), NEW now,
           \A o \in DOMAIN d.obs : Live(d, d.obs[o].ent) /\ o \notin S => Live(w, d.obs[o].ent),
           \A o \in DOMAIN d.obs : Live(w, d.obs[o].ent) => Live(d, d.obs[o].ent)
    PROVE  /\ DOMAIN w.obs = DOMAIN d.obs
           /\ \A o \in DOMAIN d.obs :
                 /\ FactOf(w, o) = FactOf(d, o)
                 /\ Visible(w, o, now) <=> Visible(d, o, now) /\ o \notin S
  BY DEF Erased, Visible, ActiveObservation, EventAllows, ActiveEvent, FactOf

\* G is F but for one fact at most.
LosesAFact(F, G) == G = F \/ \E f \in Names \X Contents : G = F \ {f}

LEMMA ForgottenFactShows ==
    ASSUME NEW d \in Database, NEW w \in Database, NEW o, Erased(d, w, {o}),
           w.ent = d.ent, NEW now
    PROVE  LosesAFact(VisibleFacts(d, now), VisibleFacts(w, now))
  <1>1. /\ DOMAIN w.obs = DOMAIN d.obs
        /\ \A p \in DOMAIN d.obs :
              /\ FactOf(w, p) = FactOf(d, p)
              /\ Visible(w, p, now) <=> Visible(d, p, now) /\ p \notin {o}
    BY ErasedShows DEF Live
  <1>. DEFINE F == VisibleFacts(d, now)
              G == VisibleFacts(w, now)
  <1>2. /\ \A f : f \in F <=> \E p \in DOMAIN d.obs : Visible(d, p, now) /\ f = FactOf(d, p)
        /\ \A f : f \in G <=> \E p \in DOMAIN w.obs : Visible(w, p, now) /\ f = FactOf(w, p)
        /\ \A p \in DOMAIN d.obs : FactOf(d, p) \in Names \X Contents
    BY FactsAreRows
  <1>. HIDE DEF F, G
  <1>3. G \subseteq F
    BY <1>1, <1>2
  <1>4. CASE o \notin DOMAIN d.obs
    <2>1. F \subseteq G
      BY <1>1, <1>2, <1>4
    <2>. QED  BY <1>3, <2>1 DEF F, G, LosesAFact
  <1>5. CASE o \in DOMAIN d.obs
    <2>1. F \subseteq G \cup {FactOf(d, o)}
      BY <1>1, <1>2
    <2>2. G = F \/ G = F \ {FactOf(d, o)}
      BY <1>3, <2>1
    <2>. QED  BY <1>2, <1>5, <2>2 DEF F, G, LosesAFact
  <1>. QED  BY <1>4, <1>5

LEMMA ForgottenEntityShows ==
    ASSUME NEW d \in Database, NEW w \in Database, NEW n \in Names, Forgotten(d, w, n),
           NEW now
    PROVE  VisibleFacts(w, now) = {f \in VisibleFacts(d, now) : f[1] # n}
  <1>1. \A o \in DOMAIN d.obs : d.obs[o].ent \in Names
    BY RowsAreFacts
  <1>2. /\ DOMAIN w.obs = DOMAIN d.obs
        /\ \A o \in DOMAIN d.obs :
              /\ FactOf(w, o) = FactOf(d, o)
              /\ Visible(w, o, now) <=> Visible(d, o, now) /\ o \notin ObsOf(d, n)
    <2>1. /\ Erased(d, w, ObsOf(d, n)) /\ w.ent[n].state = "tombstone"
          /\ \A m \in Names \ {n} : w.ent[m] = d.ent[m]
      BY DEF Forgotten
    <2>2. /\ \A o \in DOMAIN d.obs :
                Live(d, d.obs[o].ent) /\ o \notin ObsOf(d, n) => Live(w, d.obs[o].ent)
          /\ \A o \in DOMAIN d.obs : Live(w, d.obs[o].ent) => Live(d, d.obs[o].ent)
      BY <1>1, <2>1 DEF ObsOf, Live
    <2>. QED  BY <2>1, <2>2, ErasedShows
  <1>3. \A o \in DOMAIN d.obs : o \in ObsOf(d, n) <=> FactOf(d, o)[1] = n
    BY DEF ObsOf, FactOf
  <1>. QED  BY <1>2, <1>3, FactsAreRows

\* Neither apply nor rollback changes what a client can recall.
LEMMA ApplyShowsTheSame ==
    ASSUME NEW d, NEW now \in Nat, Good(d, now), Tidy(d), Attached(d),
           NEW S \in SUBSET Names, NEW scope \in Scopes,
           NEW w \in Database, w = ApplyExactDuplicates(d, S, now, scope)
    PROVE  VisibleFacts(w, now) = VisibleFacts(d, now)
  <1>1. d \in Database /\ NoObs \notin DOMAIN d.obs
    BY DEF Good, Database, NoObs
  <1>2. Remarked(d, w) /\ Hides(d, w, now)
    BY ApplyRemarks
  <1>3. ASSUME NEW o \in DOMAIN d.obs, Visible(w, o, now) PROVE Visible(d, o, now)
    <2>1. w.obs[o].by = NoObs => d.obs[o].by = NoObs
      BY <1>1, <1>2 DEF Hides, NoObs
    <2>. QED  BY <1>1, <1>2, <1>3, <2>1, StaysHidden DEF Remarked
  <1>4. ASSUME NEW o \in DOMAIN d.obs, Visible(d, o, now), w.obs[o] = d.obs[o]
        PROVE  Visible(w, o, now)
    BY <1>2, <1>4
       DEF Remarked, Visible, ActiveObservation, EventAllows, ActiveEvent, Live
  <1>5. ASSUME NEW o \in DOMAIN d.obs, Visible(d, o, now)
        PROVE  \E p \in DOMAIN d.obs : Visible(w, p, now) /\ FactOf(d, p) = FactOf(d, o)
    BY <1>2, <1>4, <1>5 DEF Hides
  <1>6. DOMAIN w.obs = DOMAIN d.obs /\ \A o \in DOMAIN d.obs : FactOf(w, o) = FactOf(d, o)
    BY <1>2 DEF Remarked, FactOf
  <1>. QED  BY <1>1, <1>3, <1>5, <1>6, FactsAreRows

LEMMA RollbackShowsTheSame ==
    ASSUME NEW d \in Database, Tidy(d), Attached(d), NEW now \in Nat, NEW r,
           NEW scope \in Scopes, NEW aliases, CanRollback(d, r, now, scope, aliases),
           NEW w \in Database, w = RollbackRun(d, r, scope)
    PROVE  VisibleFacts(w, now) = VisibleFacts(d, now)
  <1>. DEFINE hidden == UNION {x.sources : x \in DecisionsOf(d, r)}
  <1>1. /\ Remarked(d, w)
        /\ \A o \in DOMAIN d.obs :
              IF o \in hidden THEN w.obs[o].by = NoObs ELSE w.obs[o] = d.obs[o]
    BY RollbackRemarks
  <1>2. ASSUME NEW o \in DOMAIN d.obs, Visible(d, o, now) PROVE Visible(w, o, now)
    BY <1>1, <1>2
       DEF Remarked, Visible, ActiveObservation, EventAllows, ActiveEvent, Live
  <1>3. ASSUME NEW o \in DOMAIN d.obs, Visible(w, o, now)
        PROVE  \E p \in DOMAIN d.obs : Visible(d, p, now) /\ FactOf(d, p) = FactOf(d, o)
    <2>1. CASE o \notin hidden
      <3>1. Visible(d, o, now)
        BY <1>1, <1>3, <2>1, StaysHidden DEF Remarked
      <3>. QED  BY <3>1
    <2>2. CASE o \in hidden
      <3>1. PICK x \in DecisionsOf(d, r) : o \in x.sources
        BY <2>2
      <3>2. CanRevert(d, x, now)
        BY <3>1 DEF CanRollback
      <3>3. o \in CurrentSources(d, x) /\ x.target \in Carriers(d, x.ent, x.content, now)
        BY <3>1, <3>2 DEF CanRevert
      <3>. QED  BY <3>3 DEF CurrentSources, Carriers, FactOf
    <2>. QED  BY <2>1, <2>2
  <1>4. DOMAIN w.obs = DOMAIN d.obs /\ \A o \in DOMAIN d.obs : FactOf(w, o) = FactOf(d, o)
    BY <1>1 DEF Remarked, FactOf
  <1>. DEFINE F == VisibleFacts(d, now)
              G == VisibleFacts(w, now)
  <1>5. /\ \A f : f \in F <=> \E p \in DOMAIN d.obs : Visible(d, p, now) /\ f = FactOf(d, p)
        /\ \A f : f \in G <=> \E p \in DOMAIN w.obs : Visible(w, p, now) /\ f = FactOf(w, p)
    BY FactsAreRows
  <1>. HIDE DEF F, G
  <1>6. F \subseteq G
    BY <1>2, <1>4, <1>5
  <1>7. G \subseteq F
    BY <1>3, <1>4, <1>5
  <1>. QED  BY <1>6, <1>7 DEF F, G

\* The abstract state is read off the tables.
LEMMA ListedIsShown ==
    ASSUME TInv
    PROVE  RecalledEdges(db) = db.rel /\ ListEntities(db, clock) = Graph!Shown
  BY EdgesAreShown, ListingAgrees DEF TInv, IInv, Good, Graph!Shown

LEMMA GraphInit ==
    ASSUME TInv, Init
    PROVE  Graph!Init
  <1>1. db \in Database /\ clock = 0 /\ Tidy(db)
    BY DEF TInv, IInv, Good, Init
  <1>2. VisibleFacts(db, clock) \subseteq Names \X Contents
    BY <1>1, FactsAreRows
  <1>3. RecalledEdges(db) \subseteq Graph!Edge
    BY <1>1, ListedIsShown DEF Database, Relation, Graph!Edge
  <1>4. SearchEvents(db, clock) \subseteq Nat /\ Len(db.runs) \in Nat
    BY <1>1 DEF Database, SearchEvents
  <1>. QED  BY <1>1, <1>2, <1>3, <1>4, ListedIsShown DEF Graph!Init

LEMMA GraphStep ==
    ASSUME Prompt, TInv, TInv', AInv, WInv, [Next]_vars
    PROVE  [Graph!Next]_(Graph!vars)
  <1>1. /\ clock \in Nat /\ db \in Database /\ db' \in Database /\ Good(db, clock)
        /\ Tidy(db) /\ Attached(db) /\ Len(db.runs) \in Nat
    <2>1. /\ clock \in Nat /\ Good(db, clock) /\ Good(db', clock')
          /\ Tidy(db) /\ Attached(db)
      BY DEF TInv, AInv, IInv
    <2>2. db \in Database /\ db' \in Database
      BY <2>1 DEF Good
    <2>3. Len(db.runs) \in Nat
      BY <2>2 DEF Database
    <2>. QED  BY <2>1, <2>2, <2>3
  <1>2. /\ RecalledEdges(db) = db.rel /\ ListEntities(db, clock) = Graph!Shown
        /\ RecalledEdges(db') = db'.rel /\ ListEntities(db', clock') = Graph!Shown'
    <2>1. TInv => RecalledEdges(db) = db.rel /\ ListEntities(db, clock) = Graph!Shown
      BY ListedIsShown
    <2>2. TInv' => /\ RecalledEdges(db') = db'.rel
                   /\ ListEntities(db', clock') = Graph!Shown'
      BY EdgesAreShown, ListingAgrees DEF TInv, IInv, Good, Graph!Shown
    <2>. QED  BY <2>1, <2>2
  <1>. DEFINE F == VisibleFacts(db, clock)
              F1 == VisibleFacts(db', clock')
              Ev == SearchEvents(db, clock)
              Ev1 == SearchEvents(db', clock')
  <1>3. F1 \in SUBSET (Names \X Contents)
    BY <1>1, FactsAreRows
  <1>4. CASE UNCHANGED <<db, clock>>
    BY <1>4 DEF Graph!vars
  <1>5. CASE Tick
    <2>1. clock' = clock + 1 /\ db' = db
      BY <1>5 DEF Tick
    <2>2. \A o \in DOMAIN db.obs : Visible(db, o, clock') => Visible(db, o, clock)
      BY <1>1, <2>1, ActiveBefore DEF Visible
    <2>3. F1 \subseteq F
      BY <1>1, <2>1, <2>2, FactsAreRows
    <2>4. Ev1 \subseteq Ev
      <3>1. \A e \in DOMAIN db.events : db.events[e] \in Nat
        BY <1>1 DEF Database
      <3>. QED  BY <1>1, <2>1, <3>1 DEF SearchEvents, ActiveEvent
    <2>. QED  BY <1>2, <2>1, <2>3, <2>4 DEF Graph!Next, Graph!Expire
  <1>6. CASE clock' = clock /\ Continues(db, db')
    <2>1. F \subseteq F1 /\ Ev \subseteq Ev1 /\ \A e, f \in Ev1 \ Ev : e = f
      BY <1>1, <1>6, ContinuesShows
    <2>2. db'.rel = db.rel /\ db'.runs = db.runs
      BY <1>6 DEF Continues
    <2>3. F1 = F \cup F1
      BY <2>1
    <2>4. Graph!Learn(F1)
      BY <1>2, <1>6, <2>1, <2>2, <2>3 DEF Graph!Learn
    <2>. QED  BY <1>2, <1>3, <2>4 DEF Graph!Next
  <1>7. ASSUME NEW n \in Names, NEW m \in Names, NEW k \in Kinds, n # m,
               Related(db, db', n, m, k), clock' = clock
        PROVE  Graph!Next
    <2>. DEFINE e == [from |-> n, to |-> m, kind |-> k]
    <2>1. F1 = F
      BY <1>1, <1>7, RelatedShows
    <2>2. /\ db'.rel = db.rel \cup {e} /\ db'.runs = db.runs
          /\ db'.events = db.events
      BY <1>7 DEF Related
    <2>3. Ev1 = Ev
      BY <1>7, <2>2 DEF SearchEvents, ActiveEvent
    <2>4. e \in Graph!Edge /\ e.from # e.to
      BY <1>7 DEF Graph!Edge
    <2>. HIDE DEF e
    <2>5. Graph!Link(e)
      BY <1>2, <1>7, <2>1, <2>2, <2>3, <2>4 DEF Graph!Link
    <2>. QED  BY <1>2, <2>4, <2>5 DEF Graph!Next
  <1>8. ASSUME NEW o, Erased(db, db', {o}), db'.ent = db.ent, db'.rel = db.rel,
               clock' = clock
        PROVE  [Graph!Next]_(Graph!vars)
    <2>1. db'.runs = db.runs /\ Ev1 = Ev
      BY <1>8 DEF Erased, SearchEvents, ActiveEvent
    <2>2. CASE F1 = F
      <3>1. Graph!Shown' = Graph!Shown
        BY <1>2, <1>8, <2>2 DEF Graph!Shown
      <3>. QED  BY <1>2, <1>8, <2>1, <2>2, <3>1 DEF Graph!vars
    <2>3. ASSUME NEW f \in Names \X Contents, F1 = F \ {f} PROVE Graph!Next
      <3>1. Graph!ForgetFact(f)
        BY <1>2, <1>8, <2>1, <2>3 DEF Graph!ForgetFact
      <3>. QED  BY <1>2, <3>1 DEF Graph!Next
    <2>4. F1 = F \/ \E f \in Names \X Contents : F1 = F \ {f}
      <3>1. db \in Database /\ db' \in Database
        BY <1>1
      <3>2. LosesAFact(VisibleFacts(db, clock), VisibleFacts(db', clock))
        BY <1>8, <3>1, ForgottenFactShows
      <3>. QED  BY <1>8, <3>2 DEF LosesAFact
    <2>. QED  BY <2>2, <2>3, <2>4
  <1>9. ASSUME NEW n \in Names, Forgotten(db, db', n), clock' = clock
        PROVE  Graph!Next
    <2>1. F1 = {f \in F : f[1] # n}
      BY <1>1, <1>9, ForgottenEntityShows
    <2>2. /\ db'.rel = {r \in db.rel : r.from # n /\ r.to # n}
          /\ db'.runs = db.runs /\ Ev1 = Ev
      BY <1>9 DEF Forgotten, Erased, SearchEvents, ActiveEvent
    <2>3. Graph!ForgetEntity(n)
      BY <1>2, <1>9, <2>1, <2>2 DEF Graph!ForgetEntity
    <2>. QED  BY <1>2, <2>3 DEF Graph!Next
  <1>10. ASSUME Remarked(db, db'), Len(db'.runs) = Len(db.runs) + 1, F1 = F,
                clock' = clock
         PROVE  Graph!Next
    <2>1. db'.rel = db.rel /\ Ev1 = Ev
      BY <1>10 DEF Remarked, SearchEvents, ActiveEvent
    <2>2. Graph!Reconcile
      BY <1>2, <1>10, <2>1 DEF Graph!Reconcile
    <2>. QED  BY <1>2, <2>2 DEF Graph!Next
  <1>11. ASSUME NEW S \in SUBSET Names, NEW scope \in Scopes, clock' = clock,
                db' = ApplyExactDuplicates(db, S, clock, scope)
         PROVE  Graph!Next
    <2>1. Remarked(db, db') /\ Len(db'.runs) = Len(db.runs) + 1
      BY <1>1, <1>11, ApplyRemarks
    <2>2. F1 = F
      BY <1>1, <1>11, ApplyShowsTheSame
    <2>. QED  BY <1>10, <1>11, <2>1, <2>2
  <1>12. ASSUME NEW r \in Runs, NEW scope \in Scopes, NEW aliases \in SUBSET Scopes,
                clock' = clock, CanRollback(db, r, clock, scope, aliases),
                db' = RollbackRun(db, r, scope)
         PROVE  Graph!Next
    <2>1. Remarked(db, db') /\ Len(db'.runs) = Len(db.runs) + 1
      BY <1>1, <1>12, RollbackRemarks
    <2>2. F1 = F
      BY <1>1, <1>12, RollbackShowsTheSame
    <2>. QED  BY <1>10, <1>12, <2>1, <2>2
  <1>. HIDE DEF F, F1, Ev, Ev1
  <1>. QED
    BY <1>4, <1>5, <1>6, <1>7, <1>8, <1>9, <1>11, <1>12, Moves

\* The tables implement the client's view of them: forgetting takes what was
\* named, nothing forgotten comes back by reviving its name, and reconcile is
\* invisible, whatever the interleaving of the processes.
THEOREM GraphRefinement == NoDrift /\ Prompt /\ Spec => ImplementsGraph
  <1>1. Prompt => Prompt'
    BY DEF Prompt, NoLag
  <1>2. TInv /\ Init => Graph!Init
    BY GraphInit
  <1>3. Prompt /\ TInv /\ TInv' /\ AInv /\ WInv /\ [Next]_vars => [Graph!Next]_(Graph!vars)
    BY GraphStep
  <1>. QED
    BY <1>1, <1>2, <1>3, TidyInit, TidyStep, AttachedInit, AttachedStep, WorkInit,
       WorkStep, PTL
       DEF Spec, ImplementsGraph, Graph!Spec

===========================================================================
