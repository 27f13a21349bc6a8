------------------------- MODULE ProjectCacheProofs -------------------------
(***************************************************************************)
(* Theorems about ProjectCache for any number of project keys, tool calls   *)
(* and handles, and any size of the cache.  Whichever idle entries an       *)
(* eviction takes, no lease loses its handle and no handle is lost: that is *)
(* CacheInv, without a word on the recency list.  That it takes enough of   *)
(* them is LimitInv, for which the list is an order of the keys of the map. *)
(***************************************************************************)
EXTENDS ProjectCache, FiniteSetTheorems, WellFoundedInduction, TLAPS

Entry == [handle : Handles \cup {NoHandle}, refs : Nat]
LeaseRow == [key : Keys \cup {NoKey}, handle : Handles \cup {NoHandle}]

\* The shapes of the variables but the recency list's and the mode's.
Shape ==
    /\ entry \in [Keys -> Entry]
    /\ registry \in Handles \cup {NoHandle}
    /\ lease \in [Calls -> LeaseRow]
    /\ closing \in [Calls -> SUBSET Handles]
    /\ open \subseteq Handles
    /\ reset \in BOOLEAN

HandlesIn(ent) == {ent[k].handle : k \in KeysIn(ent)}
Distinct(ent) ==
    \A k, l \in KeysIn(ent) : ent[k].handle = ent[l].handle => k = l

\* A call that leases a key has, until shutdown, the handle cached under it.
Leases ==
    \A c \in Calls :
        lease[c] # NoLease =>
            /\ lease[c].key \in Keys
            /\ ~reset => /\ lease[c].handle # NoHandle
                         /\ lease[c].handle = entry[lease[c].key].handle

Counts ==
    \A k \in Keys :
        /\ entry[k].refs <= Cardinality(Holders(k))
        /\ ~reset => entry[k].refs = Cardinality(Holders(k))
        /\ entry[k].handle = NoHandle => entry[k].refs = 0

\* The inductive invariant.
CacheInv == Shape /\ Distinct(entry) /\ HandlesAccountedFor /\ Leases /\ Counts

---------------------------------------------------------------------------
(* Facts about the parts of an action.                                     *)

LEMMA NewHandleIsFresh == Fresh # {} => NewHandle \in Fresh
  BY DEF NewHandle

LEMMA FreshHandle ==
  ASSUME Shape, NEW h \in Fresh
  PROVE  /\ h \in Handles /\ h # NoHandle
         /\ h \notin open /\ h \notin CachedHandles /\ h # registry
         /\ \A c \in Calls : h \notin closing[c]
  BY NoValuesAssumption DEF Fresh, Shape

LEMMA CachedIsIn ==
  Cached = KeysIn(entry) /\ CachedHandles = HandlesIn(entry)
  BY DEF Cached, KeysIn, CachedHandles, HandlesIn

LEMMA CachedIsInNext ==
  Cached' = KeysIn(entry') /\ CachedHandles' = HandlesIn(entry')
  BY DEF Cached, KeysIn, CachedHandles, HandlesIn

\* The reference count of an entry without references is that of an absent one.
LEMMA VictimsAreIdle ==
  ASSUME NEW q, NEW ent, NEW k \in Victims(q, ent)
  PROVE  k \in Keys /\ ent[k].handle # NoHandle /\ ent[k].refs = 0
  BY DEF Victims, LastIdle, KeysIn

LEMMA EmptyEntry == NoEntry \in Entry /\ NoEntry.handle = NoHandle /\ NoEntry.refs = 0
  BY DEF NoEntry, Entry

LEMMA EmptyLease == NoLease \in LeaseRow /\ NoLease.key = NoKey
  BY DEF NoLease, LeaseRow

\* An eviction leaves every entry as it is or removes it while nobody counts
\* on it, and every handle it takes out of the map is left to be closed.
LEMMA EvictionLosesNothing ==
  ASSUME NEW c \in Calls, NEW q, NEW ent \in [Keys -> Entry],
         closing \in [Calls -> SUBSET Handles],
         Distinct(ent), Evict(c, q, ent)
  PROVE  /\ entry' \in [Keys -> Entry] /\ Distinct(entry')
         /\ closing' \in [Calls -> SUBSET Handles]
         /\ \A b \in Calls : b # c => closing'[b] = closing[b]
         /\ HandlesIn(ent) = HandlesIn(entry') \cup closing'[c]
         /\ HandlesIn(entry') \cap closing'[c] = {}
         /\ \A k \in Keys : \/ entry'[k] = ent[k]
                            \/ entry'[k] = NoEntry /\ ent[k].refs = 0
  <1>. DEFINE gone == Victims(q, ent)
              G == {ent[k].handle : k \in gone}
  <1>1. \A k \in gone : k \in KeysIn(ent) /\ ent[k].refs = 0
    BY VictimsAreIdle DEF KeysIn
  <1>2. /\ entry' = [k \in Keys |-> IF k \in gone THEN NoEntry ELSE ent[k]]
        /\ closing' = [closing EXCEPT ![c] = G]
    BY DEF Evict
  <1>. HIDE DEF gone
  <1>3. entry' \in [Keys -> Entry]
    BY <1>2, EmptyEntry
  <1>4. \A k \in Keys : k \notin gone => entry'[k] = ent[k]
    BY <1>2
  <1>5. \A k \in gone : entry'[k] = NoEntry
    BY <1>1, <1>2 DEF KeysIn
  <1>6. KeysIn(entry') = KeysIn(ent) \ gone
    BY <1>4, <1>5, EmptyEntry DEF KeysIn
  <1>7. Distinct(entry')
    BY <1>4, <1>6 DEF Distinct, KeysIn
  <1>8. \A k \in KeysIn(ent) : ent[k].handle \in Handles
    BY DEF KeysIn, Entry
  <1>9. closing' \in [Calls -> SUBSET Handles] /\ closing'[c] = G
    BY <1>1, <1>2, <1>8
  <1>10. HandlesIn(entry') = {ent[k].handle : k \in KeysIn(ent) \ gone}
    BY <1>4, <1>6 DEF HandlesIn, KeysIn
  <1>11. HandlesIn(ent) = HandlesIn(entry') \cup G
    BY <1>1, <1>10 DEF HandlesIn
  <1>12. HandlesIn(entry') \cap G = {}
    BY <1>1, <1>10 DEF Distinct
  <1>13. \A b \in Calls : b # c => closing'[b] = closing[b]
    BY <1>2
  <1>. QED
    BY <1>1, <1>3, <1>4, <1>5, <1>7, <1>9, <1>11, <1>12, <1>13

LEMMA HoldersAreFew ==
  ASSUME Shape, NEW k \in Keys
  PROVE  IsFiniteSet(Holders(k)) /\ Cardinality(Holders(k)) \in Nat
  BY CallsAssumption, FS_Subset, FS_CardinalityType DEF Holders

\* Who takes a lease joins the holders of its key.
LEMMA TakingALease ==
  ASSUME Shape, NEW c \in Calls, NEW k \in Keys, NEW h,
         lease[c] = NoLease,
         lease' = [lease EXCEPT ![c] = [key |-> k, handle |-> h]]
  PROVE  /\ Cardinality(Holders(k)') = Cardinality(Holders(k)) + 1
         /\ \A l \in Keys : l # k => Holders(l)' = Holders(l)
  <1>1. c \notin Holders(k) /\ \A l \in Keys : c \notin Holders(l)
    BY EmptyLease, NoValuesAssumption DEF Holders
  <1>2. Holders(k)' = Holders(k) \cup {c}
    BY DEF Holders, Shape
  <1>3. \A l \in Keys : l # k => Holders(l)' = Holders(l)
    BY <1>1 DEF Holders, Shape
  <1>. QED  BY <1>1, <1>2, <1>3, HoldersAreFew, FS_AddElement

\* Who gives it back leaves them.
LEMMA GivingALeaseBack ==
  ASSUME Shape, NEW c \in Calls, NEW k \in Keys, lease[c].key = k,
         lease' = [lease EXCEPT ![c] = NoLease]
  PROVE  /\ Cardinality(Holders(k)') = Cardinality(Holders(k)) - 1
         /\ \A l \in Keys : l # k => Holders(l)' = Holders(l)
  <1>0. \A l \in Keys : NoLease.key # l
    BY EmptyLease, NoValuesAssumption
  <1>1. c \in Holders(k)
    BY DEF Holders
  <1>2. Holders(k)' = Holders(k) \ {c}
    BY <1>0 DEF Holders, Shape
  <1>3. \A l \in Keys : l # k => Holders(l)' = Holders(l)
    BY <1>0 DEF Holders, Shape
  <1>4. IsFiniteSet(Holders(k)) /\ Cardinality(Holders(k)) \in Nat
    BY HoldersAreFew
  <1>5. Cardinality(Holders(k) \ {c}) = Cardinality(Holders(k)) - 1
    BY <1>1, <1>4, FS_RemoveElement
  <1>. QED  BY <1>2, <1>3, <1>5

---------------------------------------------------------------------------
(* Every step keeps the invariant.                                         *)

LEMMA CacheInvInit == CacheInit => CacheInv
  <1>. SUFFICES ASSUME CacheInit PROVE CacheInv
    OBVIOUS
  <1>1. Shape
    BY EmptyEntry, EmptyLease DEF CacheInit, Shape
  <1>2. Cached = {} /\ CachedHandles = {}
    BY EmptyEntry DEF CacheInit, Cached, KeysIn, CachedHandles
  <1>3. Distinct(entry) /\ HandlesAccountedFor
    BY <1>2, CachedIsIn DEF CacheInit, Distinct, HandlesAccountedFor
  <1>4. Leases
    BY DEF CacheInit, Leases
  <1>5. Counts
    <2>. SUFFICES ASSUME NEW k \in Keys
                  PROVE  /\ entry[k].refs = 0 /\ Holders(k) = {}
      BY FS_EmptySet DEF Counts
    <2>. QED  BY EmptyEntry, EmptyLease, NoValuesAssumption DEF CacheInit, Holders
  <1>. QED  BY <1>1, <1>3, <1>4, <1>5 DEF CacheInv

LEMMA OpenRegistryKeeps ==
  ASSUME CacheInv, NEW c \in Calls, OpenRegistry(c)
  PROVE  CacheInv'
  <1>. DEFINE h == NewHandle
  <1>0. Shape
    BY DEF CacheInv
  <1>1. h \in Fresh
    BY NewHandleIsFresh DEF OpenRegistry
  <1>2. /\ h \in Handles /\ h # NoHandle
        /\ h \notin CachedHandles
        /\ \A b \in Calls : h \notin closing[b]
    BY <1>0, <1>1, FreshHandle
  <1>3. /\ registry = NoHandle /\ registry' = h /\ open' = open \cup {h}
        /\ UNCHANGED <<entry, lease, closing, reset>>
    BY DEF OpenRegistry
  <1>. HIDE DEF h
  <1>4. Shape' /\ Distinct(entry') /\ Leases' /\ Counts'
    BY <1>2, <1>3 DEF CacheInv, Shape, Leases, Counts, Holders
  <1>5. CachedHandles' = CachedHandles
    BY <1>3 DEF CachedHandles, Cached, KeysIn
  <1>6. HandlesAccountedFor'
    BY <1>0, <1>2, <1>3, <1>5 DEF CacheInv, HandlesAccountedFor, Shape
  <1>. QED  BY <1>4, <1>6 DEF CacheInv

LEMMA AcquireHitKeeps ==
  ASSUME CacheInv, NEW c \in Calls, NEW k \in Keys, AcquireHit(c, k)
  PROVE  CacheInv'
  <1>0. Shape /\ lease[c] = NoLease
    BY DEF CacheInv, AcquireHit, Ready
  <1>1. PICK h \in Handles : entry[k].handle = h /\ h # NoHandle
    BY <1>0 DEF AcquireHit, Cached, KeysIn, Shape, Entry
  <1>2. PICK n \in Nat : entry[k].refs = n
    BY <1>0 DEF Shape, Entry
  <1>3. /\ entry' = [entry EXCEPT ![k].refs = n + 1]
        /\ lease' = [lease EXCEPT ![c] = [key |-> k, handle |-> h]]
        /\ UNCHANGED <<registry, closing, open, reset>>
    BY <1>1, <1>2 DEF AcquireHit
  <1>4. entry' \in [Keys -> Entry]
    BY <1>0, <1>3 DEF Shape, Entry
  <1>5. /\ entry'[k].refs = n + 1
        /\ \A l \in Keys : entry'[l].handle = entry[l].handle
        /\ \A l \in Keys : l # k => entry'[l] = entry[l]
    BY <1>0, <1>3 DEF Shape, Entry
  <1>6. lease' \in [Calls -> LeaseRow] /\ lease'[c] = [key |-> k, handle |-> h]
    BY <1>0, <1>1, <1>3 DEF Shape, LeaseRow
  <1>7. Shape'
    BY <1>0, <1>3, <1>4, <1>6 DEF Shape
  <1>8. CachedHandles' = CachedHandles /\ KeysIn(entry') = KeysIn(entry)
    BY <1>5 DEF CachedHandles, Cached, KeysIn
  <1>9. Distinct(entry') /\ HandlesAccountedFor'
    BY <1>3, <1>5, <1>8 DEF CacheInv, Distinct, KeysIn, HandlesAccountedFor
  <1>10. Leases'
    <2>. SUFFICES ASSUME NEW b \in Calls, lease'[b] # NoLease
                  PROVE  /\ lease'[b].key \in Keys
                         /\ ~reset' => /\ lease'[b].handle # NoHandle
                                       /\ lease'[b].handle = entry'[lease'[b].key].handle
      BY DEF Leases
    <2>1. CASE b = c
      BY <2>1, <1>1, <1>5, <1>6
    <2>2. CASE b # c
      BY <2>2, <1>0, <1>3, <1>5 DEF CacheInv, Leases, Shape
    <2>. QED  BY <2>1, <2>2
  <1>11. Counts'
    <2>1. /\ Cardinality(Holders(k)') = Cardinality(Holders(k)) + 1
          /\ \A l \in Keys : l # k => Holders(l)' = Holders(l)
      BY <1>0, <1>3, TakingALease
    <2>2. reset' = reset
      BY <1>3
    <2>3. Cardinality(Holders(k)) \in Nat
      BY <1>0, HoldersAreFew
    <2>4. n <= Cardinality(Holders(k)) /\ (~reset => n = Cardinality(Holders(k)))
      BY <1>2 DEF CacheInv, Counts
    <2>. SUFFICES ASSUME NEW l \in Keys
                  PROVE  /\ entry'[l].refs <= Cardinality(Holders(l)')
                         /\ ~reset' => entry'[l].refs = Cardinality(Holders(l)')
                         /\ entry'[l].handle = NoHandle => entry'[l].refs = 0
      BY DEF Counts
    <2>5. CASE l = k
      BY <2>1, <2>2, <2>3, <2>4, <2>5, <1>1, <1>5
    <2>6. CASE l # k
      BY <2>1, <2>2, <2>6, <1>5 DEF CacheInv, Counts
    <2>. QED  BY <2>5, <2>6
  <1>. QED  BY <1>7, <1>9, <1>10, <1>11 DEF CacheInv

LEMMA SomeoneCounts ==
  ASSUME NEW S, IsFiniteSet(S), NEW x \in S
  PROVE  Cardinality(S) \in Nat /\ Cardinality(S) >= 1
  BY FS_EmptySet, FS_CardinalityType

LEMMA AcquireOpenKeeps ==
  ASSUME CacheInv, NEW c \in Calls, NEW k \in Keys, AcquireOpen(c, k)
  PROVE  CacheInv'
  <1>. DEFINE h == NewHandle
              q == MoveToFront(k)
              ent == [entry EXCEPT ![k] = [handle |-> h, refs |-> 1]]
  <1>0. Shape /\ lease[c] = NoLease /\ closing[c] = {} /\ entry[k].handle = NoHandle
    BY DEF CacheInv, AcquireOpen, Ready, Cached, KeysIn
  <1>1. h \in Fresh
    BY NewHandleIsFresh DEF AcquireOpen
  <1>2. /\ h \in Handles /\ h # NoHandle
        /\ h \notin CachedHandles /\ h # registry
        /\ \A b \in Calls : h \notin closing[b]
    BY <1>0, <1>1, FreshHandle
  <1>3. /\ Evict(c, q, ent)
        /\ open' = open \cup {h}
        /\ lease' = [lease EXCEPT ![c] = [key |-> k, handle |-> h]]
        /\ UNCHANGED <<registry, reset>>
    BY DEF AcquireOpen
  <1>. HIDE DEF h, q
  <1>4. ent \in [Keys -> Entry]
    BY <1>0, <1>2 DEF Shape, Entry
  <1>5. /\ ent[k].handle = h /\ ent[k].refs = 1
        /\ \A l \in Keys : l # k => ent[l] = entry[l]
    BY <1>0 DEF Shape
  <1>. HIDE DEF ent
  <1>6. KeysIn(ent) = KeysIn(entry) \cup {k} /\ k \notin KeysIn(entry)
    BY <1>0, <1>2, <1>5 DEF KeysIn
  <1>61. \A l \in KeysIn(entry) : ent[l].handle = entry[l].handle
    BY <1>5, <1>6 DEF KeysIn
  <1>62. CachedHandles = {ent[l].handle : l \in KeysIn(entry)}
    BY <1>61, CachedIsIn DEF HandlesIn
  <1>7. HandlesIn(ent) = CachedHandles \cup {h}
    BY <1>5, <1>6, <1>62 DEF HandlesIn
  <1>8. \A l, m \in KeysIn(entry) : ent[l].handle = ent[m].handle => l = m
    BY <1>61 DEF CacheInv, Distinct
  <1>81. \A l \in KeysIn(entry) : ent[l].handle # h
    BY <1>2, <1>62
  <1>9. Distinct(ent)
    BY <1>5, <1>6, <1>8, <1>81 DEF Distinct
  <1>10. /\ entry' \in [Keys -> Entry] /\ Distinct(entry')
         /\ closing' \in [Calls -> SUBSET Handles]
         /\ \A b \in Calls : b # c => closing'[b] = closing[b]
         /\ HandlesIn(ent) = HandlesIn(entry') \cup closing'[c]
         /\ HandlesIn(entry') \cap closing'[c] = {}
         /\ \A l \in Keys : \/ entry'[l] = ent[l]
                            \/ entry'[l] = NoEntry /\ ent[l].refs = 0
    BY <1>0, <1>3, <1>4, <1>9, EvictionLosesNothing DEF Shape
  <1>11. lease' \in [Calls -> LeaseRow] /\ lease'[c] = [key |-> k, handle |-> h]
    BY <1>0, <1>2, <1>3 DEF Shape, LeaseRow
  <1>12. Shape'
    BY <1>0, <1>2, <1>3, <1>10, <1>11 DEF Shape
  <1>13. HandlesAccountedFor'
    BY <1>0, <1>2, <1>3, <1>7, <1>10, CachedIsInNext
       DEF CacheInv, HandlesAccountedFor, Shape
  <1>14. \A l \in Keys : /\ entry'[l].refs = ent[l].refs
                         /\ entry'[l] = ent[l] \/ entry'[l].refs = 0
    BY <1>10, EmptyEntry
  <1>15. /\ Cardinality(Holders(k)') = Cardinality(Holders(k)) + 1
         /\ \A l \in Keys : l # k => Holders(l)' = Holders(l)
    BY <1>0, <1>3, TakingALease
  <1>16. entry[k].refs <= Cardinality(Holders(k)) /\ Cardinality(Holders(k)) \in Nat
    BY <1>0, HoldersAreFew DEF CacheInv, Counts
  <1>17. ~reset => Holders(k) = {}
    <2>. SUFFICES ASSUME ~reset, NEW b \in Calls, lease[b].key = k PROVE FALSE
      BY DEF Holders
    <2>1. lease[b] # NoLease
      BY EmptyLease, NoValuesAssumption
    <2>. QED  BY <2>1, <1>0 DEF CacheInv, Leases
  <1>18. Counts'
    <2>. SUFFICES ASSUME NEW l \in Keys
                  PROVE  /\ entry'[l].refs <= Cardinality(Holders(l)')
                         /\ ~reset' => entry'[l].refs = Cardinality(Holders(l)')
                         /\ entry'[l].handle = NoHandle => entry'[l].refs = 0
      BY DEF Counts
    <2>1. CASE l = k
      <3>1. entry'[k].refs = 1 /\ reset' = reset
        BY <1>3, <1>5, <1>14
      <3>2. ~reset => Cardinality(Holders(k)) = 0
        BY <1>17, FS_EmptySet
      <3>3. entry'[k].handle = NoHandle => entry'[k].refs = 0
        BY <1>2, <1>5, <1>14
      <3>. QED  BY <2>1, <3>1, <3>2, <3>3, <1>15, <1>16
    <2>2. CASE l # k
      BY <2>2, <1>3, <1>5, <1>14, <1>15 DEF CacheInv, Counts
    <2>. QED  BY <2>1, <2>2
  <1>19. Leases'
    <2>. SUFFICES ASSUME NEW b \in Calls, lease'[b] # NoLease
                  PROVE  /\ lease'[b].key \in Keys
                         /\ ~reset' => /\ lease'[b].handle # NoHandle
                                       /\ lease'[b].handle = entry'[lease'[b].key].handle
      BY DEF Leases
    <2>1. CASE b = c
      BY <2>1, <1>2, <1>5, <1>10, <1>11
    <2>2. CASE b # c
      <3>1. lease'[b] = lease[b] /\ reset' = reset
        BY <2>2, <1>0, <1>3 DEF Shape
      <3>2. lease[b].key \in Keys
        BY <3>1 DEF CacheInv, Leases
      <3>3. CASE reset
        BY <3>1, <3>2, <3>3
      <3>4. CASE ~reset
        <4>. DEFINE l == lease[b].key
        <4>1. l # k
          BY <3>2, <3>4, <1>17 DEF Holders
        <4>2. b \in Holders(l)
          BY DEF Holders
        <4>3. ent[l] = entry[l] /\ entry[l].refs = Cardinality(Holders(l))
          BY <3>2, <3>4, <4>1, <1>5 DEF CacheInv, Counts
        <4>4. Cardinality(Holders(l)) \in Nat /\ Cardinality(Holders(l)) >= 1
          BY <3>2, <4>2, <1>0, HoldersAreFew, SomeoneCounts
        <4>5. entry'[l] = entry[l]
          BY <3>2, <4>3, <4>4, <1>10
        <4>. QED  BY <3>1, <3>2, <3>4, <4>5 DEF CacheInv, Leases
      <3>. QED  BY <3>3, <3>4
    <2>. QED  BY <2>1, <2>2
  <1>. QED  BY <1>10, <1>12, <1>13, <1>18, <1>19 DEF CacheInv

LEMMA ReleaseKeeps ==
  ASSUME CacheInv, NEW c \in Calls, Release(c)
  PROVE  CacheInv'
  <1>. DEFINE k == lease[c].key
              ent == IF k \in Cached /\ entry[k].refs > 0
                     THEN [entry EXCEPT ![k].refs = @ - 1] ELSE entry
  <1>0. Shape /\ closing[c] = {} /\ k \in Keys
    BY DEF CacheInv, Release, Leases
  <1>1. /\ Evict(c, lru, ent)
        /\ lease' = [lease EXCEPT ![c] = NoLease]
        /\ UNCHANGED <<registry, open, reset>>
    BY DEF Release
  <1>2. PICK n \in Nat : entry[k].refs = n
    BY <1>0 DEF Shape, Entry
  <1>3. ent \in [Keys -> Entry]
    BY <1>0, <1>2 DEF Shape, Entry
  <1>4. /\ \A l \in Keys : ent[l].handle = entry[l].handle
        /\ \A l \in Keys : l # k => ent[l] = entry[l]
    BY <1>0 DEF Shape, Entry
  <1>5. ent[k].refs = IF k \in Cached /\ n > 0 THEN n - 1 ELSE n
    BY <1>0, <1>2 DEF Shape, Entry
  <1>6. PICK key \in Keys : key = k
    BY <1>0
  <1>. HIDE DEF ent, k
  <1>7. KeysIn(ent) = KeysIn(entry) /\ HandlesIn(ent) = CachedHandles
    BY <1>4, CachedIsIn DEF KeysIn, HandlesIn
  <1>8. Distinct(ent)
    BY <1>4, <1>7 DEF CacheInv, Distinct, KeysIn
  <1>9. /\ entry' \in [Keys -> Entry] /\ Distinct(entry')
        /\ closing' \in [Calls -> SUBSET Handles]
        /\ \A b \in Calls : b # c => closing'[b] = closing[b]
        /\ HandlesIn(ent) = HandlesIn(entry') \cup closing'[c]
        /\ HandlesIn(entry') \cap closing'[c] = {}
        /\ \A l \in Keys : \/ entry'[l] = ent[l]
                           \/ entry'[l] = NoEntry /\ ent[l].refs = 0
    BY <1>0, <1>1, <1>3, <1>8, EvictionLosesNothing DEF Shape
  <1>10. lease' \in [Calls -> LeaseRow] /\ lease'[c] = NoLease
    BY <1>0, <1>1, EmptyLease DEF Shape
  <1>11. Shape'
    BY <1>0, <1>1, <1>9, <1>10 DEF Shape
  <1>12. HandlesAccountedFor'
    BY <1>0, <1>1, <1>7, <1>9, CachedIsInNext
       DEF CacheInv, HandlesAccountedFor, Shape
  <1>13. \A l \in Keys : /\ entry'[l].refs = ent[l].refs
                         /\ entry'[l] = ent[l] \/ entry'[l].refs = 0
    BY <1>9, EmptyEntry
  <1>14. /\ Cardinality(Holders(key)') = Cardinality(Holders(key)) - 1
         /\ \A l \in Keys : l # key => Holders(l)' = Holders(l)
    BY <1>0, <1>1, <1>6, GivingALeaseBack DEF k
  <1>15. c \in Holders(key) /\ Cardinality(Holders(key)) \in Nat
         /\ Cardinality(Holders(key)) >= 1
    BY <1>0, <1>6, HoldersAreFew, SomeoneCounts DEF k, Holders
  <1>16. ~reset => entry[key].refs = Cardinality(Holders(key)) /\ key \in Cached
    BY <1>0, <1>6 DEF CacheInv, Counts, Leases, Cached, KeysIn, Release, k
  <1>17. Counts'
    <2>. SUFFICES ASSUME NEW l \in Keys
                  PROVE  /\ entry'[l].refs <= Cardinality(Holders(l)')
                         /\ ~reset' => entry'[l].refs = Cardinality(Holders(l)')
                         /\ entry'[l].handle = NoHandle => entry'[l].refs = 0
      BY DEF Counts
    <2>1. CASE l = key
      <3>1. /\ entry'[key].refs = (IF key \in Cached /\ n > 0 THEN n - 1 ELSE n)
            /\ reset' = reset
        BY <1>1, <1>5, <1>6, <1>13
      <3>2. n <= Cardinality(Holders(key))
        BY <1>2, <1>6 DEF CacheInv, Counts
      <3>3. key \notin Cached => n = 0 /\ entry[key].handle = NoHandle
        BY <1>2, <1>6 DEF CacheInv, Counts, Cached, KeysIn
      <3>4. entry'[key].handle = NoHandle => entry'[key].refs = 0
        BY <1>4, <1>13, <3>1, <3>3 DEF Cached, KeysIn
      <3>. QED  BY <2>1, <3>1, <3>2, <3>3, <3>4, <1>2, <1>6, <1>14, <1>15, <1>16
    <2>2. CASE l # key
      BY <2>2, <1>1, <1>4, <1>6, <1>13, <1>14 DEF CacheInv, Counts
    <2>. QED  BY <2>1, <2>2
  <1>18. Leases'
    <2>. SUFFICES ASSUME NEW b \in Calls, lease'[b] # NoLease
                  PROVE  /\ lease'[b].key \in Keys
                         /\ ~reset' => /\ lease'[b].handle # NoHandle
                                       /\ lease'[b].handle = entry'[lease'[b].key].handle
      BY DEF Leases
    <2>1. b # c /\ lease'[b] = lease[b] /\ reset' = reset
      BY <1>0, <1>1, <1>10 DEF Shape
    <2>2. PICK l \in Keys : lease[b].key = l
      BY <2>1 DEF CacheInv, Leases
    <2>3. CASE reset
      BY <2>1, <2>2, <2>3
    <2>4. CASE ~reset
      <3>1. b \in Holders(l)' /\ b \in Holders(l)
        BY <2>1, <2>2 DEF Holders
      <3>2. IsFiniteSet(Holders(l)') /\ Holders(l)' \subseteq Calls
        BY CallsAssumption, FS_Subset DEF Holders
      <3>3. Cardinality(Holders(l)') >= 1
        BY <3>1, <3>2, SomeoneCounts
      <3>4. entry'[l].refs = Cardinality(Holders(l)')
        BY <1>17, <2>1, <2>4 DEF Counts
      <3>5. entry'[l].refs # 0
        BY <3>1, <3>2, <3>3, <3>4, SomeoneCounts
      <3>6. entry'[l].handle = entry[l].handle
        BY <3>5, <1>4, <1>13
      <3>. QED  BY <2>1, <2>2, <2>4, <3>6 DEF CacheInv, Leases
    <2>. QED  BY <2>3, <2>4
  <1>. QED  BY <1>9, <1>11, <1>12, <1>17, <1>18 DEF CacheInv

LEMMA CloseHandleKeeps ==
  ASSUME CacheInv, NEW c \in Calls, NEW h \in Handles, CloseHandle(c, h)
  PROVE  CacheInv'
  <1>0. Shape /\ h \in closing[c]
    BY DEF CacheInv, CloseHandle
  <1>1. /\ closing' = [closing EXCEPT ![c] = closing[c] \ {h}]
        /\ open' = open \ {h}
        /\ UNCHANGED <<entry, registry, lease, reset>>
    BY DEF CloseHandle
  <1>2. /\ closing' \in [Calls -> SUBSET Handles]
        /\ closing'[c] = closing[c] \ {h}
        /\ \A b \in Calls : b # c => closing'[b] = closing[b]
    BY <1>0, <1>1 DEF Shape
  <1>3. Shape' /\ Distinct(entry') /\ Leases' /\ Counts'
    BY <1>0, <1>1, <1>2 DEF CacheInv, Shape, Leases, Counts, Holders
  <1>4. CachedHandles' = CachedHandles
    BY <1>1 DEF CachedHandles, Cached, KeysIn
  <1>5. /\ h \notin CachedHandles \cup {registry} \cup {NoHandle}
        /\ \A b \in Calls : b # c => h \notin closing[b]
    BY <1>0, NoValuesAssumption DEF CacheInv, HandlesAccountedFor
  <1>6. UNION {closing'[b] : b \in Calls} = (UNION {closing[b] : b \in Calls}) \ {h}
    BY <1>2, <1>5
  <1>7. HandlesAccountedFor'
    BY <1>0, <1>1, <1>2, <1>4, <1>5, <1>6 DEF CacheInv, HandlesAccountedFor
  <1>. QED  BY <1>3, <1>7 DEF CacheInv

LEMMA CloseIdleKeeps ==
  ASSUME CacheInv, NEW c \in Calls, NEW k \in Keys, CloseIdle(c, k)
  PROVE  CacheInv'
  <1>0. Shape /\ closing[c] = {} /\ entry[k].refs = 0 /\ k \in Cached
    BY DEF CacheInv, CloseIdle, Ready
  <1>1. PICK h \in Handles : entry[k].handle = h /\ h # NoHandle
    BY <1>0 DEF Shape, Cached, KeysIn, Entry
  <1>2. /\ entry' = [entry EXCEPT ![k] = NoEntry]
        /\ closing' = [closing EXCEPT ![c] = {h}]
        /\ UNCHANGED <<registry, lease, open, reset>>
    BY <1>1 DEF CloseIdle
  <1>3. /\ closing' \in [Calls -> SUBSET Handles]
        /\ closing'[c] = {h}
        /\ \A b \in Calls : b # c => closing'[b] = closing[b]
    BY <1>0, <1>2 DEF Shape
  <1>4. /\ entry' \in [Keys -> Entry]
        /\ entry'[k] = NoEntry
        /\ \A l \in Keys : l # k => entry'[l] = entry[l]
    BY <1>0, <1>2, EmptyEntry DEF Shape
  <1>5. Shape'
    BY <1>0, <1>2, <1>3, <1>4 DEF Shape
  <1>6. KeysIn(entry') = KeysIn(entry) \ {k}
    BY <1>4, EmptyEntry DEF KeysIn
  <1>7. Distinct(entry')
    BY <1>4, <1>6 DEF CacheInv, Distinct, KeysIn
  <1>8. CachedHandles' = CachedHandles \ {h} /\ h \in CachedHandles
    <2>1. \A l \in KeysIn(entry) : entry[l].handle = h => l = k
      BY <1>0, <1>1 DEF CacheInv, Distinct, KeysIn
    <2>2. HandlesIn(entry') = HandlesIn(entry) \ {h}
      BY <2>1, <1>1, <1>4, <1>6 DEF HandlesIn, KeysIn
    <2>. QED  BY <2>2, <1>0, <1>1, CachedIsIn, CachedIsInNext DEF CachedHandles
  <1>9. HandlesAccountedFor'
    BY <1>0, <1>2, <1>3, <1>8, NoValuesAssumption DEF CacheInv, HandlesAccountedFor
  <1>10. Counts'
    BY <1>0, <1>2, <1>4, EmptyEntry DEF CacheInv, Counts, Holders
  <1>11. Leases'
    <2>. SUFFICES ASSUME NEW b \in Calls, lease[b] # NoLease, ~reset, lease[b].key = k
                  PROVE  FALSE
      BY <1>2, <1>4 DEF CacheInv, Leases
    <2>1. b \in Holders(k) /\ entry[k].refs = Cardinality(Holders(k))
      BY DEF CacheInv, Counts, Holders
    <2>2. Cardinality(Holders(k)) >= 1
      BY <2>1, <1>0, HoldersAreFew, SomeoneCounts
    <2>. QED  BY <2>1, <2>2, <1>0
  <1>. QED  BY <1>5, <1>7, <1>9, <1>10, <1>11 DEF CacheInv

LEMMA ResetKeeps ==
  ASSUME CacheInv, NEW c \in Calls, Reset(c)
  PROVE  CacheInv'
  <1>. DEFINE taken == (CachedHandles \cup {registry}) \ {NoHandle}
  <1>0. Shape /\ closing[c] = {}
    BY DEF CacheInv, Reset, Ready
  <1>1. /\ entry' = [k \in Keys |-> NoEntry] /\ registry' = NoHandle
        /\ closing' = [closing EXCEPT ![c] = taken]
        /\ reset' = TRUE
        /\ UNCHANGED <<lease, open>>
    BY DEF Reset
  <1>2. taken \subseteq Handles
    BY <1>0 DEF Shape, CachedHandles, Cached, KeysIn, Entry
  <1>. HIDE DEF taken
  <1>3. /\ closing' \in [Calls -> SUBSET Handles]
        /\ closing'[c] = taken
        /\ \A b \in Calls : b # c => closing'[b] = closing[b]
    BY <1>0, <1>1, <1>2 DEF Shape
  <1>4. Shape'
    BY <1>0, <1>1, <1>3, EmptyEntry DEF Shape
  <1>5. KeysIn(entry') = {} /\ CachedHandles' = {}
    BY <1>1, EmptyEntry, CachedIsInNext DEF KeysIn, HandlesIn
  <1>51. UNION {closing'[b] : b \in Calls} = taken \cup UNION {closing[b] : b \in Calls}
    BY <1>0, <1>3
  <1>52. \A b \in Calls : closing[b] \cap taken = {}
    BY DEF CacheInv, HandlesAccountedFor, taken
  <1>53. open = (taken \cup UNION {closing[b] : b \in Calls}) \ {NoHandle}
    BY DEF CacheInv, HandlesAccountedFor, taken
  <1>54. \A a, b \in Calls : a # b => closing'[a] \cap closing'[b] = {}
    BY <1>3, <1>52 DEF CacheInv, HandlesAccountedFor
  <1>55. \A b \in Calls : NoHandle \notin closing'[b]
    BY <1>3, NoValuesAssumption
  <1>6. HandlesAccountedFor'
    BY <1>1, <1>5, <1>51, <1>53, <1>54, <1>55 DEF HandlesAccountedFor
  <1>7. Distinct(entry') /\ Leases'
    BY <1>1, <1>5 DEF CacheInv, Distinct, Leases
  <1>8. \A k \in Keys : /\ entry'[k].refs = 0 /\ Holders(k)' = Holders(k)
                        /\ Cardinality(Holders(k)) \in Nat
    BY <1>0, <1>1, EmptyEntry, HoldersAreFew DEF Holders
  <1>9. Counts'
    BY <1>1, <1>8 DEF Counts
  <1>. QED  BY <1>4, <1>6, <1>7, <1>9 DEF CacheInv

LEMMA ConfigureKeeps ==
  ASSUME CacheInv, NEW c \in Calls, NEW m \in Modes, Configure(c, m)
  PROVE  CacheInv'
  <1>. DEFINE taken == {registry} \ {NoHandle}
  <1>0. Shape /\ closing[c] = {}
    BY DEF CacheInv, Configure, Ready
  <1>1. /\ registry' = NoHandle
        /\ closing' = [closing EXCEPT ![c] = taken]
        /\ UNCHANGED <<entry, lease, open, reset>>
    BY DEF Configure
  <1>2. /\ closing' \in [Calls -> SUBSET Handles]
        /\ closing'[c] = taken
        /\ \A b \in Calls : b # c => closing'[b] = closing[b]
    BY <1>0, <1>1 DEF Shape
  <1>3. Shape' /\ Distinct(entry') /\ Leases' /\ Counts'
    BY <1>0, <1>1, <1>2 DEF CacheInv, Shape, Leases, Counts, Holders
  <1>4. CachedHandles' = CachedHandles
    BY <1>1 DEF CachedHandles, Cached, KeysIn
  <1>5. NoHandle \notin CachedHandles
    BY DEF CachedHandles, Cached, KeysIn
  <1>51. UNION {closing'[b] : b \in Calls} = taken \cup UNION {closing[b] : b \in Calls}
    BY <1>0, <1>2
  <1>52. \A b \in Calls : closing[b] \cap taken = {} /\ closing[b] \cap CachedHandles = {}
    BY DEF CacheInv, HandlesAccountedFor
  <1>53. /\ open = (CachedHandles \cup taken \cup UNION {closing[b] : b \in Calls})
                  \ {NoHandle}
         /\ taken \cap CachedHandles = {}
    BY DEF CacheInv, HandlesAccountedFor
  <1>54. \A a, b \in Calls : a # b => closing'[a] \cap closing'[b] = {}
    BY <1>2, <1>52 DEF CacheInv, HandlesAccountedFor
  <1>55. \A b \in Calls : closing'[b] \cap CachedHandles = {} /\ NoHandle \notin closing'[b]
    BY <1>2, <1>52, <1>53, NoValuesAssumption
  <1>6. HandlesAccountedFor'
    BY <1>1, <1>4, <1>5, <1>51, <1>53, <1>54, <1>55 DEF HandlesAccountedFor
  <1>. QED  BY <1>3, <1>6 DEF CacheInv

\* Every step of the cache, and a step of nobody, keeps the invariant.
LEMMA CacheInvStep == CacheInv /\ [CacheNext]_cacheVars => CacheInv'
  <1>. SUFFICES ASSUME CacheInv, [CacheNext]_cacheVars PROVE CacheInv'
    OBVIOUS
  <1>1. CASE \E c \in Calls : OpenRegistry(c) \/ Release(c) \/ Reset(c)
    BY <1>1, OpenRegistryKeeps, ReleaseKeeps, ResetKeeps
  <1>2. CASE \E c \in Calls, h \in Handles : CloseHandle(c, h)
    BY <1>2, CloseHandleKeeps
  <1>3. CASE \E c \in Calls, k \in Keys :
                AcquireHit(c, k) \/ AcquireOpen(c, k) \/ CloseIdle(c, k)
    BY <1>3, AcquireHitKeeps, AcquireOpenKeeps, CloseIdleKeeps
  <1>4. CASE \E c \in Calls, m \in Modes : Configure(c, m)
    BY <1>4, ConfigureKeeps
  <1>5. CASE UNCHANGED cacheVars
    BY <1>5 DEF cacheVars, CacheInv, Shape, Distinct, KeysIn, HandlesAccountedFor,
                CachedHandles, Cached, Leases, Counts, Holders
  <1>. QED  BY <1>1, <1>2, <1>3, <1>4, <1>5 DEF CacheNext

LEMMA CacheInvImplies ==
  CacheInv => LeasedHandleStaysOpen /\ RefsCountLeases /\ HandlesAccountedFor
  <1>. SUFFICES ASSUME CacheInv
                PROVE  LeasedHandleStaysOpen /\ RefsCountLeases /\ HandlesAccountedFor
    OBVIOUS
  <1>1. RefsCountLeases
    BY DEF CacheInv, Counts, RefsCountLeases, Cached, KeysIn
  <1>2. LeasedHandleStaysOpen
    <2>. SUFFICES ASSUME ~reset, NEW c \in Calls, lease[c] # NoLease
                  PROVE  /\ lease[c].handle \in open
                         /\ lease[c].handle = entry[lease[c].key].handle
                         /\ \A b \in Calls : lease[c].handle \notin closing[b]
      BY DEF LeasedHandleStaysOpen
    <2>1. /\ lease[c].handle # NoHandle /\ lease[c].key \in Keys
          /\ lease[c].handle = entry[lease[c].key].handle
      BY DEF CacheInv, Leases
    <2>2. lease[c].handle \in CachedHandles
      BY <2>1 DEF CachedHandles, Cached, KeysIn
    <2>. QED  BY <2>1, <2>2 DEF CacheInv, HandlesAccountedFor
  <1>. QED  BY <1>1, <1>2 DEF CacheInv

---------------------------------------------------------------------------

\* Until shutdown, no call finds the handle it leased closed or about to be
\* closed, however calls, evictions and `project move' interleave.
THEOREM LeasesCorrect == CacheSpec => []LeasedHandleStaysOpen
  BY CacheInvInit, CacheInvStep, CacheInvImplies, PTL DEF CacheSpec

\* The reference counts are the leases until shutdown and at most that after
\* it, although a release finds its entry by key.
THEOREM CountsCorrect == CacheSpec => []RefsCountLeases
  BY CacheInvInit, CacheInvStep, CacheInvImplies, PTL DEF CacheSpec

\* No handle leaks and none is closed twice, shutdown included.
THEOREM HandlesCorrect == CacheSpec => []HandlesAccountedFor
  BY CacheInvInit, CacheInvStep, CacheInvImplies, PTL DEF CacheSpec

---------------------------------------------------------------------------
(* The limit.  The recency list is a total order of the keys of the map;    *)
(* an eviction from its end stops at the limit or when nothing idle is left.*)

Orders(order, S) ==
    /\ order \subseteq S \X S
    /\ \A k, l \in S : <<k, l>> \in order <=> k # l /\ <<l, k>> \notin order
    /\ \A k, l, m \in S : <<k, l>> \in order /\ <<l, m>> \in order => <<k, m>> \in order

\* The inductive invariant of the limit, beside CacheInv.
LimitInv ==
    /\ IsFiniteSet(Cached)
    /\ Orders(lru, Cached)
    /\ OverLimitOnlyInUse
    /\ mode \in Modes

LEMMA WithoutOrders ==
  ASSUME NEW order, NEW S, NEW gone, Orders(order, S)
  PROVE  Orders(Without(order, gone), S \ gone)
  <1>1. \A k, l \in S \ gone : <<k, l>> \in Without(order, gone) <=> <<k, l>> \in order
    BY DEF Without
  <1>2. Without(order, gone) \subseteq (S \ gone) \X (S \ gone)
    <2>. SUFFICES ASSUME NEW p \in Without(order, gone)
                  PROVE  p \in (S \ gone) \X (S \ gone)
      OBVIOUS
    <2>1. p \in S \X S /\ p[1] \notin gone /\ p[2] \notin gone
      BY DEF Without, Orders
    <2>2. p = <<p[1], p[2]>> /\ p[1] \in S \ gone /\ p[2] \in S \ gone
      BY <2>1
    <2>. QED  BY <2>2
  <1>. QED  BY <1>1, <1>2 DEF Orders

LEMMA FrontOrders ==
  ASSUME NEW k \in Keys, Orders(lru, Cached)
  PROVE  Orders(MoveToFront(k), Cached \cup {k})
  <1>. DEFINE R == Without(lru, {k})
              S == Cached \ {k}
  <1>1. Orders(R, S)
    BY WithoutOrders
  <1>2. MoveToFront(k) = R \cup ({k} \X S) /\ Cached \cup {k} = S \cup {k} /\ k \notin S
    BY DEF MoveToFront
  <1>. HIDE DEF R, S
  <1>3. \A l, m \in S : <<l, m>> \in R \cup ({k} \X S) <=> <<l, m>> \in R
    BY <1>2
  <1>4. \A l \in S : /\ <<k, l>> \in R \cup ({k} \X S)
                     /\ <<l, k>> \notin R \cup ({k} \X S)
    BY <1>1, <1>2 DEF Orders
  <1>5. <<k, k>> \notin R \cup ({k} \X S)
    BY <1>1, <1>2 DEF Orders
  <1>6. R \cup ({k} \X S) \subseteq (S \cup {k}) \X (S \cup {k})
    BY <1>1 DEF Orders
  <1>. DEFINE N == R \cup ({k} \X S)
  <1>7. N \subseteq (S \cup {k}) \X (S \cup {k})
    BY <1>6
  <1>. HIDE DEF N
  <1>8. /\ \A l, m \in S : <<l, m>> \in N <=> <<l, m>> \in R
        /\ \A l \in S : <<k, l>> \in N /\ <<l, k>> \notin N
        /\ <<k, k>> \notin N
    BY <1>3, <1>4, <1>5 DEF N
  <1>9. \A l, m \in S \cup {k} : <<l, m>> \in N <=> l # m /\ <<m, l>> \notin N
    BY <1>1, <1>2, <1>8 DEF Orders
  <1>10. \A l, m, n \in S \cup {k} :
            <<l, m>> \in N /\ <<m, n>> \in N => <<l, n>> \in N
    BY <1>1, <1>2, <1>8 DEF Orders
  <1>11. Orders(N, S \cup {k})
    BY <1>7, <1>9, <1>10 DEF Orders
  <1>. QED  BY <1>2, <1>11 DEF N

\* Of a nonempty set of ranks, one is the least.
LEMMA LeastRank ==
  ASSUME NEW T, NEW rank \in [T -> Nat], T # {}
  PROVE  \E k \in T : \A l \in T : ~(rank[l] < rank[k])
  <1>. DEFINE N == {rank[k] : k \in T}
  <1>1. N \subseteq Nat /\ N # {}
    OBVIOUS
  <1>2. PICK t \in N : \A u \in N : <<u, t>> \notin OpToRel(<, Nat)
    <2>. HIDE DEF N
    <2>. QED  BY <1>1, WFMin, NatLessThanWellFounded, Zenon
  <1>3. \A u \in N : ~(u < t)
    <2>. HIDE DEF N
    <2>. QED  BY <1>1, <1>2 DEF OpToRel
  <1>4. PICK k \in T : t = rank[k]
    OBVIOUS
  <1>. QED  BY <1>3, <1>4

\* An eviction ends within the limit unless all that is left is in use: the last
\* idle key that is kept has as many idle keys behind it as are too many.
LEMMA EvictionSuffices ==
  ASSUME NEW ent \in [Keys -> Entry], NEW order,
         IsFiniteSet(KeysIn(ent)), Orders(order, KeysIn(ent)),
         NEW k \in KeysIn(ent) \ Victims(order, ent), ent[k].refs = 0
  PROVE  Cardinality(KeysIn(ent) \ Victims(order, ent)) <= CacheMax
  <1>. DEFINE S == KeysIn(ent)
              gone == Victims(order, ent)
              idle == {l \in S : ent[l].refs = 0}
              T == idle \ gone
              rank == [l \in T |-> Cardinality(Behind(order, l) \cap idle)]
  <1>1. gone = {l \in idle : Cardinality(Behind(order, l) \cap idle) < Excess(ent)}
    BY DEF Victims, LastIdle
  <1>2. IsFiniteSet(idle) /\ IsFiniteSet(gone) /\ Cardinality(S) \in Nat
    <2>1. idle \in SUBSET S /\ gone \in SUBSET S
      BY <1>1
    <2>. QED  BY <2>1, FS_Subset, FS_CardinalityType
  <1>3. \A l : /\ IsFiniteSet(Behind(order, l) \cap idle)
               /\ Cardinality(Behind(order, l) \cap idle) \in Nat
    BY <1>2, FS_Intersection, FS_CardinalityType
  <1>4. rank \in [T -> Nat] /\ k \in T
    BY <1>3
  <1>5. PICK l \in T : \A m \in T : ~(rank[m] < rank[l])
    <2>. HIDE DEF rank, T
    <2>. QED  BY <1>4, LeastRank
  <1>6. Behind(order, l) \cap idle \subseteq gone
    <2>. SUFFICES ASSUME NEW m \in Behind(order, l) \cap idle PROVE m \in gone
      OBVIOUS
    <2>1. /\ l \in S /\ m \in S /\ <<l, m>> \in order /\ m # l
      BY DEF Behind, Orders
    <2>2. \A n \in Behind(order, m) : n \in S /\ n \in Behind(order, l)
      BY <2>1 DEF Behind, Orders
    <2>3. m \notin Behind(order, m)
      BY <2>1 DEF Behind, Orders
    <2>4. Behind(order, m) \cap idle \in SUBSET (Behind(order, l) \cap idle)
      BY <2>2
    <2>5. Behind(order, m) \cap idle # Behind(order, l) \cap idle
      BY <2>3
    <2>. HIDE DEF idle
    <2>6. Cardinality(Behind(order, m) \cap idle) < Cardinality(Behind(order, l) \cap idle)
      BY <1>3, <2>4, <2>5, FS_Subset
    <2>. QED  BY <1>5, <2>6
  <1>7. Cardinality(Behind(order, l) \cap idle) <= Cardinality(gone)
        /\ Cardinality(gone) \in Nat
    <2>. HIDE DEF gone, idle
    <2>. QED  BY <1>2, <1>6, FS_Subset, FS_CardinalityType
  <1>8. ~(Cardinality(Behind(order, l) \cap idle) < Cardinality(S) - CacheMax)
    BY <1>1 DEF Excess
  <1>9. Cardinality(S \ gone) = Cardinality(S) - Cardinality(gone)
    <2>1. S \cap gone = gone /\ IsFiniteSet(S)
      BY <1>1
    <2>. HIDE DEF S, gone
    <2>. QED  BY <2>1, FS_Difference
  <1>10. Cardinality(Behind(order, l) \cap idle) \in Nat
    BY <1>3
  <1>. HIDE DEF S, gone, idle
  <1>11. Cardinality(S \ gone) <= CacheMax
    BY <1>2, <1>7, <1>8, <1>9, <1>10, CacheMaxAssumption
  <1>. QED  BY <1>11 DEF S, gone

\* An eviction of a map whose recency list is its own establishes the invariant.
LEMMA EvictEstablishesLimit ==
  ASSUME NEW c \in Calls, NEW order, NEW ent \in [Keys -> Entry],
         Evict(c, order, ent),
         IsFiniteSet(KeysIn(ent)), Orders(order, KeysIn(ent))
  PROVE  IsFiniteSet(Cached') /\ Orders(lru', Cached') /\ OverLimitOnlyInUse'
  <1>. DEFINE gone == Victims(order, ent)
  <1>1. /\ lru' = Without(order, gone)
        /\ entry' = [k \in Keys |-> IF k \in gone THEN NoEntry ELSE ent[k]]
    BY DEF Evict
  <1>2. gone \subseteq Keys
    BY VictimsAreIdle
  <1>. HIDE DEF gone
  <1>3. Cached' = KeysIn(ent) \ gone
    BY <1>1, <1>2, EmptyEntry DEF Cached, KeysIn
  <1>4. \A k \in Cached' : entry'[k] = ent[k]
    BY <1>1, <1>3 DEF KeysIn
  <1>5. IsFiniteSet(Cached') /\ Orders(lru', Cached')
    BY <1>1, <1>3, FS_Difference, WithoutOrders
  <1>6. ASSUME Cardinality(Cached') > CacheMax, NEW k \in Cached'
        PROVE  entry'[k].refs > 0
    <2>1. Cardinality(Cached') \in Nat
      BY <1>5, FS_CardinalityType
    <2>2. ent[k].refs # 0
      BY <1>3, <1>6, <2>1, CacheMaxAssumption, EvictionSuffices DEF gone
    <2>3. ent[k].refs \in Nat /\ entry'[k] = ent[k]
      BY <1>3, <1>4 DEF Entry, KeysIn
    <2>. QED  BY <2>2, <2>3
  <1>. QED  BY <1>5, <1>6 DEF OverLimitOnlyInUse

LEMMA OpenKeepsLimit ==
  ASSUME CacheInv, LimitInv, NEW c \in Calls, NEW k \in Keys, AcquireOpen(c, k)
  PROVE  LimitInv'
  <1>. DEFINE ent == [entry EXCEPT ![k] = [handle |-> NewHandle, refs |-> 1]]
  <1>1. Shape /\ Evict(c, MoveToFront(k), ent) /\ UNCHANGED mode
    BY DEF CacheInv, AcquireOpen
  <1>2. NewHandle \in Handles /\ NewHandle # NoHandle
    BY <1>1, NewHandleIsFresh, FreshHandle DEF AcquireOpen
  <1>3. ent \in [Keys -> Entry]
    BY <1>1, <1>2 DEF Shape, Entry
  <1>4. KeysIn(ent) = Cached \cup {k}
    BY <1>1, <1>2 DEF Shape, KeysIn, Cached
  <1>. HIDE DEF ent
  <1>5. IsFiniteSet(KeysIn(ent)) /\ Orders(MoveToFront(k), KeysIn(ent))
    BY <1>4, FS_AddElement, FrontOrders DEF LimitInv
  <1>. QED  BY <1>1, <1>3, <1>5, EvictEstablishesLimit DEF LimitInv

LEMMA ReleaseKeepsLimit ==
  ASSUME CacheInv, LimitInv, NEW c \in Calls, Release(c)
  PROVE  LimitInv'
  <1>. DEFINE k == lease[c].key
              ent == IF k \in Cached /\ entry[k].refs > 0
                     THEN [entry EXCEPT ![k].refs = @ - 1] ELSE entry
  <1>1. Shape /\ Evict(c, lru, ent) /\ UNCHANGED mode /\ k \in Keys
    BY DEF CacheInv, Release, Leases
  <1>2. PICK n \in Nat : entry[k].refs = n
    BY <1>1 DEF Shape, Entry
  <1>3. ent \in [Keys -> Entry]
    BY <1>1, <1>2 DEF Shape, Entry
  <1>4. KeysIn(ent) = Cached
    BY <1>1 DEF Shape, Entry, KeysIn, Cached
  <1>. HIDE DEF ent
  <1>. QED  BY <1>1, <1>3, <1>4, EvictEstablishesLimit DEF LimitInv

LEMMA HitKeepsLimit ==
  ASSUME CacheInv, LimitInv, NEW c \in Calls, NEW k \in Keys, AcquireHit(c, k)
  PROVE  LimitInv'
  <1>1. Shape /\ k \in Cached /\ lru' = MoveToFront(k) /\ UNCHANGED mode
    BY DEF CacheInv, AcquireHit
  <1>2. PICK n \in Nat : entry[k].refs = n
    BY <1>1 DEF Shape, Entry
  <1>3. entry' = [entry EXCEPT ![k].refs = n + 1]
    BY <1>2 DEF AcquireHit
  <1>4. /\ entry'[k].refs = n + 1
        /\ \A l \in Keys : entry'[l].handle = entry[l].handle
        /\ \A l \in Keys : l # k => entry'[l] = entry[l]
    BY <1>1, <1>3 DEF Shape, Entry
  <1>5. Cached' = Cached /\ Cached \cup {k} = Cached
    BY <1>1, <1>4 DEF Cached, KeysIn
  <1>6. Orders(lru', Cached')
    BY <1>1, <1>5, FrontOrders DEF LimitInv
  <1>7. OverLimitOnlyInUse'
    <2>. SUFFICES ASSUME Cardinality(Cached) > CacheMax, NEW l \in Cached
                  PROVE  entry'[l].refs > 0
      BY <1>5 DEF OverLimitOnlyInUse
    <2>1. l \in Keys /\ entry[l].refs > 0
      BY DEF LimitInv, OverLimitOnlyInUse, Cached, KeysIn
    <2>. QED  BY <1>2, <1>4, <2>1
  <1>. QED  BY <1>1, <1>5, <1>6, <1>7 DEF LimitInv

LEMMA CloseIdleKeepsLimit ==
  ASSUME CacheInv, LimitInv, NEW c \in Calls, NEW k \in Keys, CloseIdle(c, k)
  PROVE  LimitInv'
  <1>1. /\ Shape /\ k \in Cached /\ entry[k].refs = 0 /\ UNCHANGED mode
        /\ lru' = Without(lru, {k})
        /\ entry' = [entry EXCEPT ![k] = NoEntry]
    BY DEF CacheInv, CloseIdle
  <1>2. Cached' = Cached \ {k}
    BY <1>1, EmptyEntry DEF Shape, Cached, KeysIn
  <1>3. IsFiniteSet(Cached') /\ Orders(lru', Cached')
    BY <1>1, <1>2, FS_RemoveElement, WithoutOrders DEF LimitInv
  <1>4. Cardinality(Cached') <= CacheMax
    <2>1. ~(Cardinality(Cached) > CacheMax)
      BY <1>1 DEF LimitInv, OverLimitOnlyInUse
    <2>2. Cardinality(Cached') = Cardinality(Cached) - 1 /\ Cardinality(Cached) \in Nat
      BY <1>1, <1>2, FS_RemoveElement, FS_CardinalityType DEF LimitInv
    <2>. QED  BY <2>1, <2>2, CacheMaxAssumption
  <1>5. Cardinality(Cached') \in Nat
    BY <1>3, FS_CardinalityType
  <1>6. OverLimitOnlyInUse'
    BY <1>4, <1>5, CacheMaxAssumption DEF OverLimitOnlyInUse
  <1>. QED  BY <1>1, <1>3, <1>6 DEF LimitInv

LEMMA EmptyKeepsLimit ==
  ASSUME entry' = [k \in Keys |-> NoEntry], lru' = {}, mode' \in Modes
  PROVE  LimitInv'
  <1>1. Cached' = {}
    BY EmptyEntry DEF Cached, KeysIn
  <1>2. IsFiniteSet(Cached') /\ OverLimitOnlyInUse'
    BY <1>1, FS_EmptySet DEF OverLimitOnlyInUse
  <1>3. Orders(lru', Cached')
    BY <1>1 DEF Orders
  <1>. QED  BY <1>2, <1>3 DEF LimitInv

LEMMA LimitInvStep == CacheInv /\ LimitInv /\ [CacheNext]_cacheVars => LimitInv'
  <1>. SUFFICES ASSUME CacheInv, LimitInv, [CacheNext]_cacheVars PROVE LimitInv'
    OBVIOUS
  <1>1. ASSUME UNCHANGED <<lru, entry>>, mode' \in Modes PROVE LimitInv'
    BY <1>1 DEF LimitInv, OverLimitOnlyInUse, Cached, KeysIn, Orders
  <1>2. ASSUME NEW c \in Calls, OpenRegistry(c) \/ Release(c) \/ Reset(c) PROVE LimitInv'
    <2>1. CASE OpenRegistry(c)
      BY <1>1, <2>1 DEF OpenRegistry, LimitInv
    <2>2. CASE Release(c)
      BY <2>2, ReleaseKeepsLimit
    <2>3. CASE Reset(c)
      BY <2>3, EmptyKeepsLimit DEF Reset, LimitInv
    <2>. QED  BY <1>2, <2>1, <2>2, <2>3
  <1>3. ASSUME NEW c \in Calls, NEW h \in Handles, CloseHandle(c, h) PROVE LimitInv'
    BY <1>1, <1>3 DEF CloseHandle, LimitInv
  <1>4. ASSUME NEW c \in Calls, NEW k \in Keys,
               AcquireHit(c, k) \/ AcquireOpen(c, k) \/ CloseIdle(c, k)
        PROVE  LimitInv'
    BY <1>4, HitKeepsLimit, OpenKeepsLimit, CloseIdleKeepsLimit
  <1>5. ASSUME NEW c \in Calls, NEW m \in Modes, Configure(c, m) PROVE LimitInv'
    BY <1>1, <1>5 DEF Configure
  <1>6. CASE UNCHANGED cacheVars
    BY <1>1, <1>6 DEF cacheVars, LimitInv
  <1>. QED  BY <1>2, <1>3, <1>4, <1>5, <1>6 DEF CacheNext

LEMMA LimitInvInit == CacheInit => LimitInv
  <1>. SUFFICES ASSUME CacheInit PROVE LimitInv
    OBVIOUS
  <1>1. Cached = {}
    BY EmptyEntry DEF CacheInit, Cached, KeysIn
  <1>2. IsFiniteSet(Cached) /\ OverLimitOnlyInUse
    BY <1>1, FS_EmptySet DEF OverLimitOnlyInUse
  <1>3. Orders(lru, Cached)
    BY <1>1 DEF CacheInit, Orders
  <1>. QED  BY <1>2, <1>3 DEF CacheInit, LimitInv, Modes

\* However many leases kept the cache over its limit, and in whatever order they
\* come back, it is over its limit only by entries in use.
THEOREM LimitCorrect == CacheSpec => []OverLimitOnlyInUse
  <1>1. LimitInv => OverLimitOnlyInUse
    BY DEF LimitInv
  <1>. QED
    BY <1>1, CacheInvInit, CacheInvStep, LimitInvInit, LimitInvStep, PTL DEF CacheSpec

\* The recency list is a total order of the keys of the map, each with a handle
\* of its own, and every variable has its shape.
THEOREM CacheTypesCorrect == CacheSpec => []CacheTypeOK
  <1>1. CacheInv /\ LimitInv => CacheTypeOK
    BY DEF CacheInv, LimitInv, Shape, Distinct, Orders, CacheTypeOK, Entry, LeaseRow, Cached
  <1>. QED
    BY <1>1, CacheInvInit, CacheInvStep, LimitInvInit, LimitInvStep, PTL DEF CacheSpec

===========================================================================
