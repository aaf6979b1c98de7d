--------------------- MODULE PersistentDiffPTDataProofs ---------------------
(***************************************************************************)
(* The persistent structure and the cache below it, for every set of keys  *)
(* and objects and every id space.                                         *)
(*                                                                         *)
(* First the cache alone (Spec): types, hash-consing, the memo tables and  *)
(* the answers.  Its invariant is inductive once the ids in use are known  *)
(* to be exactly the ids the counter has passed (Prefix): interning then   *)
(* never overwrites an id.  Everything else follows set algebra on         *)
(* idToPts, because a step leaves the set of every old id alone            *)
(* (InternFacts).                                                          *)
(*                                                                         *)
(* Then the structure over the cache (PersSpec): its reverse map is the    *)
(* inverse of its points-to map, and it implements the mutable structure.  *)
(***************************************************************************)
EXTENDS PersistentDiffPTData, TLAPS

-----------------------------------------------------------------------------
(* The cache.                                                              *)

\* The counter has passed exactly the ids in use; 0 after a wrap.
Prefix ==
    Ids = IF idCounter = emptyPointsToId THEN 0..(IdSpace - 1) ELSE 0..(idCounter - 1)

StoreInv ==
    /\ emptyPointsToId \in Ids
    /\ idToPts \in [Ids -> PTS]
    /\ DOMAIN ptsToId \subseteq PTS
    /\ \A p \in DOMAIN ptsToId : ptsToId[p] \in Ids
    /\ idCounter \in 0..(IdSpace - 1)
    /\ Prefix
    /\ HashConsing

CacheInv ==
    /\ MemoTable(unionCache) /\ MemoTable(complementCache) /\ MemoTable(intersectionCache)
    /\ UnionCacheSound
    /\ ComplementCacheSound
    /\ IntersectionCacheBounds

AnswerInv ==
    /\ answer.op \in {"none", "emplace", "union", "complement", "intersection"}
    /\ answer.lhs \in Ids /\ answer.rhs \in Ids /\ answer.id \in Ids
    /\ AnswerExact

\* The invariant of the cache.
CacheIInv == StoreInv /\ CacheInv /\ AnswerInv /\ exhausted \in BOOLEAN

-----------------------------------------------------------------------------

(***************************************************************************)
(* A sorted key has the two ids it was made of.                            *)
(***************************************************************************)
LEMMA MinMaxIsPair ==
    ASSUME NEW x, NEW y
    PROVE  minmax(x, y) \in {<<x, y>>, <<y, x>>}
BY DEF minmax

(***************************************************************************)
(* Sorting a sorted key changes nothing.                                   *)
(***************************************************************************)
LEMMA MinMaxSorted ==
    ASSUME NEW x \in Nat, NEW y \in Nat
    PROVE  LET k == minmax(x, y)
           IN  /\ k = minmax(k[1], k[2])
               /\ \/ k[1] = x /\ k[2] = y
                  \/ k[1] = y /\ k[2] = x
BY DEF minmax

\* The ids in use are natural numbers below the id space.

(***************************************************************************)
(* The ids in use are below the counter's range.                           *)
(***************************************************************************)
LEMMA IdsBounded ==
    ASSUME StoreInv PROVE Ids \subseteq 0..(IdSpace - 1)
BY IdSpaceAssumption DEF StoreInv, Prefix

\* The same after a step, for the lemmas about an arbitrary store.

(***************************************************************************)
(* After a step too, ids are natural numbers.                              *)
(***************************************************************************)
LEMMA StoreIsIndexed ==
    ASSUME StoreInv' PROVE DOMAIN idToPts' \subseteq Nat
BY IdSpaceAssumption DEF StoreInv, Prefix, Ids

(***************************************************************************)
(* A new cache satisfies the invariant.                                    *)
(***************************************************************************)
LEMMA CacheInitEstablishes == Init => CacheIInv
<1> SUFFICES ASSUME Init PROVE CacheIInv
    OBVIOUS
<1> USE DEF emptyPointsToId, Ids
<1>1. DOMAIN idToPts = {0} /\ idToPts[0] = {} /\ DOMAIN ptsToId = {{}} /\ ptsToId[{}] = 0
      BY DEF Init
<1>2. idToPts \in [{0} -> PTS]
      BY <1>1 DEF Init, PTS
<1>3. idCounter = IF IdSpace = 1 THEN 0 ELSE 1
      BY IdSpaceAssumption DEF Init
<1>4. StoreInv
  <2>1. Prefix /\ idCounter \in 0..(IdSpace - 1)
        BY <1>1, <1>3, IdSpaceAssumption DEF Prefix
  <2>2. HashConsing
        BY <1>1 DEF HashConsing, Stored
  <2> QED BY <1>1, <1>2, <2>1, <2>2 DEF StoreInv, PTS
<1>5. CacheInv
      BY DEF Init, None, CacheInv, MemoTable, UnionCacheSound, ComplementCacheSound, IntersectionCacheBounds
<1>6. AnswerInv /\ exhausted \in BOOLEAN
      BY <1>1 DEF Init, AnswerInv, AnswerExact, Answer
<1> QED BY <1>4, <1>5, <1>6 DEF CacheIInv

(***************************************************************************)
(* Interning keeps the store invariant, keeps every old id, and gives the  *)
(* set the id that IdOf announced.                                         *)
(***************************************************************************)
LEMMA InternFacts ==
    ASSUME StoreInv, NEW pts \in PTS, CanIntern(pts), Intern(pts)
    PROVE  /\ StoreInv'
           /\ Ids \subseteq Ids'
           /\ \A i \in Ids : idToPts'[i] = idToPts[i]
           /\ IdOf(pts) \in Ids'
           /\ idToPts'[IdOf(pts)] = pts
<1> USE DEF emptyPointsToId
<1>1. CASE Stored(pts)
  <2>1. UNCHANGED store /\ IdOf(pts) = ptsToId[pts]
        BY <1>1 DEF Intern, IdOf
  <2>2. StoreInv' /\ Ids' = Ids
        BY <2>1 DEF store, StoreInv, Prefix, HashConsing, Stored, Ids
  <2> QED BY <1>1, <2>1, <2>2 DEF store, StoreInv, HashConsing, Stored
<1>2. CASE ~Stored(pts)
  <2>1. /\ idCounter # 0
        /\ idCounter \notin Ids
        /\ Ids = 0..(idCounter - 1)
        /\ IdOf(pts) = idCounter
        BY <1>2, IdSpaceAssumption DEF CanIntern, StoreInv, Prefix, IdOf
  <2>2. /\ Ids' = Ids \cup {idCounter}
        /\ idToPts' \in [Ids' -> PTS]
        /\ idToPts'[idCounter] = pts
        /\ \A i \in Ids : idToPts'[i] = idToPts[i]
        BY <1>2, <2>1 DEF Intern, Ids, StoreInv
  <2>3. /\ DOMAIN ptsToId' = DOMAIN ptsToId \cup {pts}
        /\ ptsToId'[pts] = idCounter
        /\ \A p \in DOMAIN ptsToId : ptsToId'[p] = ptsToId[p]
        BY <1>2 DEF Intern, Stored
  <2>4. idCounter' \in 0..(IdSpace - 1) /\ Prefix'
    <3>1. idCounter' = (idCounter + 1) % IdSpace
          BY <1>2 DEF Intern
    <3>2. idCounter \in 1..(IdSpace - 1)
          BY <2>1, IdSpaceAssumption DEF StoreInv
    <3>3. idCounter' = IF idCounter = IdSpace - 1 THEN 0 ELSE idCounter + 1
          BY <3>1, <3>2, IdSpaceAssumption
    <3> QED BY <2>1, <2>2, <3>2, <3>3, IdSpaceAssumption DEF Prefix
  <2>5. HashConsing'
    <3>1. idToPts'[0] = {}
          BY <2>1, <2>2 DEF StoreInv, HashConsing
    <3>2. \A i \in Ids' : idToPts'[i] \in DOMAIN ptsToId' /\ ptsToId'[idToPts'[i]] = i
          BY <1>2, <2>1, <2>2, <2>3 DEF StoreInv, HashConsing, Stored
    <3>3. \A p \in DOMAIN ptsToId' : idToPts'[ptsToId'[p]] = p
          BY <1>2, <2>1, <2>2, <2>3 DEF StoreInv, HashConsing, Stored
    <3> QED BY <3>1, <3>2, <3>3 DEF HashConsing, Stored
  <2> QED BY <2>1, <2>2, <2>3, <2>4, <2>5 DEF StoreInv
<1> QED BY <1>1, <1>2

-----------------------------------------------------------------------------
(***************************************************************************)
(* What it means for a memo table entry <<k, z>> to be right, for a store  *)
(* S from ids to sets (idToPts before or after a step).                    *)
(***************************************************************************)
IsKey(S, k) == k \in (DOMAIN S) \X (DOMAIN S)
IsSortedKey(S, k) == IsKey(S, k) /\ k = minmax(k[1], k[2])

UnionFactSound(S, k, z) ==
    IsSortedKey(S, k) /\ z \in DOMAIN S /\ S[z] = S[k[1]] \cup S[k[2]]

ComplementFactSound(S, k, z) ==
    IsKey(S, k) /\ z \in DOMAIN S /\ S[z] = S[k[1]] \ S[k[2]]

MeetFactSound(S, k, z) ==
    /\ IsSortedKey(S, k)
    /\ z \in DOMAIN S
    /\ MeetOrLarger(S[z], S[k[1]], S[k[2]])

\* A sound table, entry by entry.

(***************************************************************************)
(* The invariants of the memo tables, entry by entry.                      *)
(***************************************************************************)
LEMMA TablesEntrywise ==
    /\ MemoTable(unionCache) /\ UnionCacheSound
           <=> \A k \in DOMAIN unionCache : UnionFactSound(idToPts, k, unionCache[k])
    /\ MemoTable(complementCache) /\ ComplementCacheSound
           <=> \A k \in DOMAIN complementCache : ComplementFactSound(idToPts, k, complementCache[k])
    /\ MemoTable(intersectionCache) /\ IntersectionCacheBounds
           <=> \A k \in DOMAIN intersectionCache : MeetFactSound(idToPts, k, intersectionCache[k])
<1> USE DEF MemoTable, Key, Ids, IsKey, IsSortedKey
<1>1. MemoTable(unionCache) /\ UnionCacheSound
           <=> \A k \in DOMAIN unionCache : UnionFactSound(idToPts, k, unionCache[k])
      BY DEF UnionCacheSound, UnionFactSound, UnionOp
<1>2. MemoTable(complementCache) /\ ComplementCacheSound
           <=> \A k \in DOMAIN complementCache : ComplementFactSound(idToPts, k, complementCache[k])
      BY DEF ComplementCacheSound, ComplementFactSound, ComplementOp
<1>3. MemoTable(intersectionCache) /\ IntersectionCacheBounds
           <=> \A k \in DOMAIN intersectionCache : MeetFactSound(idToPts, k, intersectionCache[k])
      BY DEF IntersectionCacheBounds, MeetFactSound
<1> QED BY <1>1, <1>2, <1>3

(***************************************************************************)
(* A step that keeps old ids keeps old facts; a table stays sound when the *)
(* facts it learns are sound in the new store.                             *)
(***************************************************************************)
OldIdsKept == Ids \subseteq Ids' /\ \A i \in Ids : idToPts'[i] = idToPts[i]

(***************************************************************************)
(* Recording sound facts keeps the tables sound while the store only gains *)
(* ids.                                                                    *)
(***************************************************************************)
LEMMA TablesKept ==
    ASSUME CacheInv, OldIdsKept, NEW uf, NEW cf, NEW mf,
           \A k \in DOMAIN uf : UnionFactSound(idToPts', k, uf[k]),
           \A k \in DOMAIN cf : ComplementFactSound(idToPts', k, cf[k]),
           \A k \in DOMAIN mf : MeetFactSound(idToPts', k, mf[k]),
           unionCache' = unionCache \/ unionCache' = Learn(unionCache, uf),
           complementCache' = complementCache \/ complementCache' = Learn(complementCache, cf),
           intersectionCache' = intersectionCache \/ intersectionCache' = Learn(intersectionCache, mf)
    PROVE  CacheInv'
<1> USE DEF OldIdsKept, IsKey, IsSortedKey, Ids
<1>1. \A k \in DOMAIN unionCache : UnionFactSound(idToPts', k, unionCache[k])
      BY TablesEntrywise DEF CacheInv, UnionFactSound
<1>2. \A k \in DOMAIN complementCache : ComplementFactSound(idToPts', k, complementCache[k])
      BY TablesEntrywise DEF CacheInv, ComplementFactSound
<1>3. \A k \in DOMAIN intersectionCache : MeetFactSound(idToPts', k, intersectionCache[k])
      BY TablesEntrywise DEF CacheInv, MeetFactSound
<1>4. /\ \A k \in DOMAIN unionCache' : UnionFactSound(idToPts', k, unionCache'[k])
      /\ \A k \in DOMAIN complementCache' : ComplementFactSound(idToPts', k, complementCache'[k])
      /\ \A k \in DOMAIN intersectionCache' : MeetFactSound(idToPts', k, intersectionCache'[k])
      BY <1>1, <1>2, <1>3 DEF Learn
<1>5. MemoTable(unionCache)' /\ UnionCacheSound'
      BY <1>4 DEF MemoTable, UnionCacheSound, UnionOp, UnionFactSound, Key
<1>6. MemoTable(complementCache)' /\ ComplementCacheSound'
      BY <1>4 DEF MemoTable, ComplementCacheSound, ComplementOp, ComplementFactSound, Key
<1>7. MemoTable(intersectionCache)' /\ IntersectionCacheBounds'
      BY <1>4 DEF MemoTable, IntersectionCacheBounds, MeetFactSound, Key
<1> QED BY <1>5, <1>6, <1>7 DEF CacheInv

(***************************************************************************)
(* The memo key of two stored ids, and the facts each operation records:   *)
(* sound in any store in which z holds the result of the operation.        *)
(***************************************************************************)
LEMMA KeyOf ==
    ASSUME NEW S, DOMAIN S \subseteq Nat, NEW x \in DOMAIN S, NEW y \in DOMAIN S
    PROVE  /\ IsSortedKey(S, minmax(x, y))
           /\ LET k == minmax(x, y)
              IN  \/ k[1] = x /\ k[2] = y
                  \/ k[1] = y /\ k[2] = x
<1>1. minmax(x, y) \in (DOMAIN S) \X (DOMAIN S)
      BY MinMaxIsPair
<1> QED BY <1>1, MinMaxSorted DEF IsSortedKey, IsKey

(***************************************************************************)
(* What unionPts records is true of the union it computed.                 *)
(***************************************************************************)
LEMMA UnionFactsSound ==
    ASSUME NEW S, DOMAIN S \subseteq Nat, NEW l \in DOMAIN S, NEW r \in DOMAIN S, NEW z \in DOMAIN S,
           S[z] = S[l] \cup S[r]
    PROVE  \A k \in DOMAIN UnionFacts(l, r, z) : UnionFactSound(S, k, UnionFacts(l, r, z)[k])
<1> SUFFICES ASSUME NEW k \in {minmax(l, r), minmax(l, z), minmax(r, z)}
             PROVE  UnionFactSound(S, k, z)
    BY DEF UnionFacts
<1> QED BY KeyOf DEF UnionFactSound

(***************************************************************************)
(* What complementPts records in its own table is true.                    *)
(***************************************************************************)
LEMMA ComplementFactsSound ==
    ASSUME NEW S, NEW l \in DOMAIN S, NEW r \in DOMAIN S, NEW z \in DOMAIN S,
           S[z] = S[l] \ S[r]
    PROVE  \A k \in DOMAIN ComplementFacts(l, r, z) :
               ComplementFactSound(S, k, ComplementFacts(l, r, z)[k])
<1> SUFFICES ASSUME NEW k \in {<<l, r>>, <<z, r>>}
             PROVE  ComplementFactSound(S, k, z)
    BY DEF ComplementFacts
<1> QED BY DEF ComplementFactSound, IsKey

(***************************************************************************)
(* What complementPts records in the intersection table stays within the   *)
(* bounds claimed for that table.                                          *)
(***************************************************************************)
LEMMA ComplementMeetFactsSound ==
    ASSUME NEW S, DOMAIN S \subseteq Nat, NEW l \in DOMAIN S, NEW r \in DOMAIN S, NEW z \in DOMAIN S,
           S[z] = S[l] \ S[r],
           emptyPointsToId \in DOMAIN S, S[emptyPointsToId] = {}
    PROVE  \A k \in DOMAIN ComplementMeetFacts(l, r, z) :
               MeetFactSound(S, k, ComplementMeetFacts(l, r, z)[k])
<1>1. MeetFactSound(S, minmax(z, l), l)
      BY KeyOf DEF MeetFactSound, MeetOrLarger
<1>2. MeetFactSound(S, minmax(z, r), emptyPointsToId)
      BY KeyOf DEF MeetFactSound, MeetOrLarger
<1> QED BY <1>1, <1>2 DEF ComplementMeetFacts, None

(***************************************************************************)
(* What intersectPts records in its own table is true.                     *)
(***************************************************************************)
LEMMA IntersectionFactsSound ==
    ASSUME NEW S, DOMAIN S \subseteq Nat, NEW l \in DOMAIN S, NEW r \in DOMAIN S, NEW z \in DOMAIN S,
           S[z] = S[l] \cap S[r]
    PROVE  \A k \in DOMAIN IntersectionFacts(l, r, z) :
               MeetFactSound(S, k, IntersectionFacts(l, r, z)[k])
<1> SUFFICES ASSUME NEW k \in {minmax(l, r), minmax(z, r), minmax(z, l)}
             PROVE  MeetFactSound(S, k, z)
    BY DEF IntersectionFacts
<1> QED BY KeyOf DEF MeetFactSound, MeetOrLarger

(***************************************************************************)
(* What intersectPts records in the union table is true.                   *)
(***************************************************************************)
LEMMA IntersectionJoinFactsSound ==
    ASSUME NEW S, DOMAIN S \subseteq Nat, NEW l \in DOMAIN S, NEW r \in DOMAIN S, NEW z \in DOMAIN S,
           S[z] = S[l] \cap S[r]
    PROVE  \A k \in DOMAIN IntersectionJoinFacts(l, r, z) :
               UnionFactSound(S, k, IntersectionJoinFacts(l, r, z)[k])
<1>1. UnionFactSound(S, minmax(l, z), l) /\ UnionFactSound(S, minmax(r, z), r)
      BY KeyOf DEF UnionFactSound
<1> QED BY <1>1 DEF IntersectionJoinFacts, None

-----------------------------------------------------------------------------
(***************************************************************************)
(* Steps that leave the store and the tables alone: emplacePts aside, the  *)
(* property cases and the table lookups.                                   *)
(***************************************************************************)
LEMMA AnswerOnly ==
    ASSUME CacheIInv, UNCHANGED <<store, caches>>, exhausted' \in BOOLEAN, AnswerInv'
    PROVE  CacheIInv'
BY DEF CacheIInv, store, caches, StoreInv, CacheInv, Ids, Prefix, HashConsing, Stored, MemoTable, Key,
       UnionCacheSound, ComplementCacheSound, IntersectionCacheBounds,
       UnionOp, ComplementOp, IntersectionOp

(***************************************************************************)
(* The answers found from properties of the operands keep the invariant.   *)
(***************************************************************************)
LEMMA PropertyStep ==
    ASSUME CacheIInv, NEW l \in Ids, NEW r \in Ids,
           unionByProperty(l, r) \/ complementByProperty(l, r) \/ intersectByProperty(l, r)
    PROVE  CacheIInv'
<1> USE DEF emptyPointsToId
<1>1. UNCHANGED <<store, caches, exhausted>> /\ Ids' = Ids
      BY DEF unionByProperty, complementByProperty, intersectByProperty, store, Ids
<1>2. l \in Nat /\ r \in Nat /\ 0 \in Ids /\ idToPts[0] = {}
      BY IdsBounded, IdSpaceAssumption DEF CacheIInv, StoreInv, HashConsing
<1>3. CASE unionByProperty(l, r)
      BY <1>1, <1>2, <1>3, AnswerOnly
      DEF unionByProperty, UnionProperty, Answer, AnswerInv, AnswerExact, minmax, UnionOp, store, CacheIInv
<1>4. CASE complementByProperty(l, r)
      BY <1>1, <1>2, <1>4, AnswerOnly
      DEF complementByProperty, ComplementProperty, Answer, AnswerInv, AnswerExact, ComplementOp, store, CacheIInv
<1>5. CASE intersectByProperty(l, r)
  <2>1. PICK m \in {l, r} : answer' = Answer("intersection", l, r, m) /\ (l = r \/ m = 0)
        BY <1>2, <1>5 DEF intersectByProperty, IntersectionProperty, minmax
  <2>2. MeetOrLarger(idToPts[m], idToPts[l], idToPts[r])
        BY <1>2, <1>5, <2>1 DEF MeetOrLarger, intersectByProperty, IntersectionProperty
  <2> QED BY <1>1, <2>1, <2>2, AnswerOnly DEF Answer, AnswerInv, AnswerExact, store, CacheIInv
<1> QED BY <1>3, <1>4, <1>5

(***************************************************************************)
(* The answers found in a table keep the invariant.                        *)
(***************************************************************************)
LEMMA LookupStep ==
    ASSUME CacheIInv, NEW l \in Ids, NEW r \in Ids,
           unionByLookup(l, r) \/ complementByLookup(l, r) \/ intersectByLookup(l, r)
    PROVE  CacheIInv'
<1>1. UNCHANGED <<store, caches, exhausted>> /\ Ids' = Ids /\ idToPts' = idToPts
      BY DEF unionByLookup, complementByLookup, intersectByLookup, store, Ids
<1>2. CASE unionByLookup(l, r)
  <2> DEFINE k == minmax(l, r)
  <2>1. k \in DOMAIN unionCache /\ answer' = Answer("union", l, r, unionCache[k])
        BY <1>2 DEF unionByLookup
  <2>2. unionCache[k] \in Ids /\ idToPts[unionCache[k]] = UnionOp(k[1], k[2])
        BY <2>1 DEF CacheIInv, CacheInv, MemoTable, UnionCacheSound
  <2>3. UnionOp(k[1], k[2]) = UnionOp(l, r)
        BY KeyOf, IdsBounded, IdSpaceAssumption DEF CacheIInv, UnionOp, Ids
  <2>4. AnswerInv'
        BY <1>1, <2>1, <2>2, <2>3 DEF AnswerInv, AnswerExact, Answer, UnionOp
  <2> QED BY <1>1, <2>4, AnswerOnly DEF CacheIInv
<1>3. CASE complementByLookup(l, r)
  <2>1. /\ <<l, r>> \in DOMAIN complementCache
        /\ answer' = Answer("complement", l, r, complementCache[<<l, r>>])
        BY <1>3 DEF complementByLookup
  <2>2. /\ complementCache[<<l, r>>] \in Ids
        /\ idToPts[complementCache[<<l, r>>]] = ComplementOp(l, r)
        BY <2>1 DEF CacheIInv, CacheInv, MemoTable, ComplementCacheSound
  <2>3. AnswerInv'
        BY <1>1, <2>1, <2>2 DEF AnswerInv, AnswerExact, Answer, ComplementOp
  <2> QED BY <1>1, <2>3, AnswerOnly DEF CacheIInv
<1>4. CASE intersectByLookup(l, r)
  <2> DEFINE k == minmax(l, r)
  <2>1. k \in DOMAIN intersectionCache /\ answer' = Answer("intersection", l, r, intersectionCache[k])
        BY <1>4 DEF intersectByLookup
  <2>2. /\ intersectionCache[k] \in Ids
        /\ MeetOrLarger(idToPts[intersectionCache[k]], idToPts[k[1]], idToPts[k[2]])
        BY <2>1 DEF CacheIInv, CacheInv, MemoTable, IntersectionCacheBounds
  <2>3. MeetOrLarger(idToPts[intersectionCache[k]], idToPts[l], idToPts[r])
        BY <2>2, KeyOf, IdsBounded, IdSpaceAssumption DEF CacheIInv, MeetOrLarger, Ids
  <2>4. AnswerInv'
        BY <1>1, <2>1, <2>2, <2>3 DEF AnswerInv, AnswerExact, Answer
  <2> QED BY <1>1, <2>4, AnswerOnly DEF CacheIInv
<1> QED BY <1>2, <1>3, <1>4

(***************************************************************************)
(* emplacePts and the computed operations intern one set, learn sound      *)
(* facts about it and answer with its id.                                  *)
(***************************************************************************)
LEMMA EmplaceStep ==
    ASSUME CacheIInv, NEW pts \in PTS, emplacePts(pts)
    PROVE  CacheIInv'
<1>1. StoreInv /\ CacheInv /\ CanIntern(pts) /\ Intern(pts) /\ UNCHANGED <<caches, exhausted>>
      BY DEF emplacePts, CacheIInv
<1>2. StoreInv' /\ OldIdsKept /\ IdOf(pts) \in Ids'
      BY <1>1, InternFacts DEF OldIdsKept
<1>3. CacheInv'
      BY <1>1, <1>2, TablesKept, DOMAIN None = {} DEF caches, None
<1>4. AnswerInv'
  <2>1. answer' = [op |-> "emplace", lhs |-> 0, rhs |-> 0, id |-> IdOf(pts)] /\ 0 \in Ids'
        BY <1>2 DEF emplacePts, Answer, StoreInv, emptyPointsToId
  <2> QED BY <1>2, <2>1 DEF AnswerInv, AnswerExact
<1> QED BY <1>1, <1>2, <1>3, <1>4 DEF CacheIInv

(***************************************************************************)
(* Computing a union keeps the invariant.                                  *)
(***************************************************************************)
LEMMA UnionOpStep ==
    ASSUME CacheIInv, NEW l \in Ids, NEW r \in Ids, unionByOperation(l, r)
    PROVE  CacheIInv'
<1> DEFINE pts == UnionOp(l, r)
           z == IdOf(pts)
<1>1. /\ StoreInv /\ CacheInv /\ exhausted' = exhausted
      /\ CanIntern(pts) /\ Intern(pts)
      /\ unionCache' = Learn(unionCache, UnionFacts(l, r, z))
      /\ complementCache' = complementCache /\ intersectionCache' = intersectionCache
      /\ answer' = Answer("union", l, r, z)
      BY DEF unionByOperation, CacheIInv
<1>2. pts \in PTS
      BY <1>1 DEF StoreInv, UnionOp, PTS
<1>3. StoreInv' /\ OldIdsKept /\ z \in Ids' /\ idToPts'[z] = pts
      BY <1>1, <1>2, InternFacts DEF OldIdsKept
<1>4. l \in Ids' /\ r \in Ids' /\ idToPts'[z] = idToPts'[l] \cup idToPts'[r]
      BY <1>3 DEF OldIdsKept, UnionOp
<1> HIDE DEF z
<1>5. \A k \in DOMAIN UnionFacts(l, r, z) : UnionFactSound(idToPts', k, UnionFacts(l, r, z)[k])
      BY <1>3, <1>4, StoreIsIndexed, UnionFactsSound DEF Ids
<1>6. CacheInv'
      BY <1>1, <1>3, <1>5, TablesKept, DOMAIN None = {} DEF None
<1>7. AnswerInv'
      BY <1>1, <1>3, <1>4 DEF Answer, AnswerInv, AnswerExact, UnionOp
<1> QED BY <1>1, <1>3, <1>6, <1>7 DEF CacheIInv

(***************************************************************************)
(* Computing a complement keeps the invariant.                             *)
(***************************************************************************)
LEMMA ComplementStep ==
    ASSUME CacheIInv, NEW l \in Ids, NEW r \in Ids, complementByOperation(l, r)
    PROVE  CacheIInv'
<1> DEFINE pts == ComplementOp(l, r)
           z == IdOf(pts)
<1>1. /\ StoreInv /\ CacheInv /\ exhausted' = exhausted
      /\ CanIntern(pts) /\ Intern(pts)
      /\ complementCache' = Learn(complementCache, ComplementFacts(l, r, z))
      /\ intersectionCache' = Learn(intersectionCache, ComplementMeetFacts(l, r, z))
      /\ unionCache' = unionCache
      /\ answer' = Answer("complement", l, r, z)
      BY DEF complementByOperation, CacheIInv
<1>2. pts \in PTS
      BY <1>1 DEF StoreInv, ComplementOp, PTS
<1>3. StoreInv' /\ OldIdsKept /\ z \in Ids' /\ idToPts'[z] = pts
      BY <1>1, <1>2, InternFacts DEF OldIdsKept
<1>4. l \in Ids' /\ r \in Ids' /\ idToPts'[z] = idToPts'[l] \ idToPts'[r]
      BY <1>3 DEF OldIdsKept, ComplementOp
<1> HIDE DEF z
<1>5. \A k \in DOMAIN ComplementFacts(l, r, z) :
          ComplementFactSound(idToPts', k, ComplementFacts(l, r, z)[k])
      BY <1>3, <1>4, ComplementFactsSound DEF Ids
<1>6. \A k \in DOMAIN ComplementMeetFacts(l, r, z) :
          MeetFactSound(idToPts', k, ComplementMeetFacts(l, r, z)[k])
  <2>1. emptyPointsToId \in DOMAIN idToPts' /\ idToPts'[emptyPointsToId] = {}
        BY <1>3 DEF StoreInv, HashConsing, Ids
  <2> QED BY <1>3, <1>4, <2>1, StoreIsIndexed, ComplementMeetFactsSound DEF Ids
<1>7. CacheInv'
      BY <1>1, <1>3, <1>5, <1>6, TablesKept, DOMAIN None = {} DEF None
<1>8. AnswerInv'
      BY <1>1, <1>3, <1>4 DEF Answer, AnswerInv, AnswerExact, ComplementOp
<1> QED BY <1>1, <1>3, <1>7, <1>8 DEF CacheIInv

(***************************************************************************)
(* Computing an intersection keeps the invariant.                          *)
(***************************************************************************)
LEMMA IntersectionStep ==
    ASSUME CacheIInv, NEW l \in Ids, NEW r \in Ids, intersectByOperation(l, r)
    PROVE  CacheIInv'
<1> DEFINE pts == IntersectionOp(l, r)
           z == IdOf(pts)
<1>1. /\ StoreInv /\ CacheInv /\ exhausted' = exhausted
      /\ CanIntern(pts) /\ Intern(pts)
      /\ intersectionCache' = Learn(intersectionCache, IntersectionFacts(l, r, z))
      /\ unionCache' = Learn(unionCache, IntersectionJoinFacts(l, r, z))
      /\ complementCache' = complementCache
      /\ answer' = Answer("intersection", l, r, z)
      BY DEF intersectByOperation, CacheIInv
<1>2. pts \in PTS
      BY <1>1 DEF StoreInv, IntersectionOp, PTS
<1>3. StoreInv' /\ OldIdsKept /\ z \in Ids' /\ idToPts'[z] = pts
      BY <1>1, <1>2, InternFacts DEF OldIdsKept
<1>4. l \in Ids' /\ r \in Ids' /\ idToPts'[z] = idToPts'[l] \cap idToPts'[r]
      BY <1>3 DEF OldIdsKept, IntersectionOp
<1> HIDE DEF z
<1>5. \A k \in DOMAIN IntersectionFacts(l, r, z) :
          MeetFactSound(idToPts', k, IntersectionFacts(l, r, z)[k])
      BY <1>3, <1>4, StoreIsIndexed, IntersectionFactsSound DEF Ids
<1>6. \A k \in DOMAIN IntersectionJoinFacts(l, r, z) :
          UnionFactSound(idToPts', k, IntersectionJoinFacts(l, r, z)[k])
      BY <1>3, <1>4, StoreIsIndexed, IntersectionJoinFactsSound DEF Ids
<1>7. CacheInv'
      BY <1>1, <1>3, <1>5, <1>6, TablesKept, DOMAIN None = {} DEF None
<1>8. AnswerInv'
      BY <1>1, <1>3, <1>4 DEF Answer, AnswerInv, AnswerExact, MeetOrLarger
<1> QED BY <1>1, <1>3, <1>7, <1>8 DEF CacheIInv

-----------------------------------------------------------------------------

(***************************************************************************)
(* Interning keeps the set of every id.                                    *)
(***************************************************************************)
LEMMA InternKeeps ==
    ASSUME CacheIInv, NEW pts \in PTS, (CanIntern(pts) /\ Intern(pts)) \/ UNCHANGED store
    PROVE  OldIdsKept
<1>1. CASE CanIntern(pts) /\ Intern(pts)
      BY <1>1, InternFacts DEF CacheIInv, OldIdsKept
<1>2. CASE UNCHANGED store
      BY <1>2 DEF store, OldIdsKept, Ids
<1> QED BY <1>1, <1>2

(***************************************************************************)
(* So does every set operation.                                            *)
(***************************************************************************)
LEMMA CallKeeps ==
    ASSUME CacheIInv, NEW l \in Ids, NEW r \in Ids, Calls(l, r)
    PROVE  OldIdsKept
<1>1. UnionOp(l, r) \in PTS /\ ComplementOp(l, r) \in PTS /\ IntersectionOp(l, r) \in PTS
      BY DEF CacheIInv, StoreInv, UnionOp, ComplementOp, IntersectionOp, PTS
<1> QED BY <1>1, InternKeeps
        DEF Calls, unionByProperty, unionByLookup, unionByOperation,
            complementByProperty, complementByLookup, complementByOperation,
            intersectByProperty, intersectByLookup, intersectByOperation

(***************************************************************************)
(* What a client may rely on: a call keeps the invariant and every set,    *)
(* and its answer is as AnswerExact says for the operation and operands    *)
(* that were asked for.                                                    *)
(***************************************************************************)
LEMMA CallStep ==
    ASSUME CacheIInv, NEW l \in Ids, NEW r \in Ids, Calls(l, r)
    PROVE  /\ CacheIInv' /\ OldIdsKept /\ answer'.id \in Ids'
           /\ (unionByProperty(l, r) \/ unionByLookup(l, r) \/ unionByOperation(l, r)) =>
                  idToPts'[answer'.id] = UnionOp(l, r)
           /\ (\/ complementByProperty(l, r) \/ complementByLookup(l, r)
               \/ complementByOperation(l, r)) =>
                  idToPts'[answer'.id] = ComplementOp(l, r)
           /\ (\/ intersectByProperty(l, r) \/ intersectByLookup(l, r)
               \/ intersectByOperation(l, r)) =>
                  MeetOrLarger(idToPts'[answer'.id], idToPts[l], idToPts[r])
<1>1. CacheIInv' /\ OldIdsKept
      BY PropertyStep, LookupStep, UnionOpStep, ComplementStep, IntersectionStep, CallKeeps DEF Calls
<1>2. answer'.id \in Ids' /\ AnswerExact'
      BY <1>1 DEF CacheIInv, AnswerInv
<1>3. idToPts'[l] = idToPts[l] /\ idToPts'[r] = idToPts[r]
      BY <1>1 DEF OldIdsKept
<1>4. ASSUME unionByProperty(l, r) \/ unionByLookup(l, r) \/ unionByOperation(l, r)
      PROVE  idToPts'[answer'.id] = UnionOp(l, r)
  <2>1. answer'.op = "union" /\ answer'.lhs = l /\ answer'.rhs = r
        BY <1>4 DEF unionByProperty, unionByLookup, unionByOperation, Answer
  <2> QED BY <1>2, <1>3, <2>1 DEF AnswerExact, UnionOp
<1>5. ASSUME \/ complementByProperty(l, r) \/ complementByLookup(l, r)
             \/ complementByOperation(l, r)
      PROVE  idToPts'[answer'.id] = ComplementOp(l, r)
  <2>1. answer'.op = "complement" /\ answer'.lhs = l /\ answer'.rhs = r
        BY <1>5 DEF complementByProperty, complementByLookup, complementByOperation, Answer
  <2> QED BY <1>2, <1>3, <2>1 DEF AnswerExact, ComplementOp
<1>6. ASSUME \/ intersectByProperty(l, r) \/ intersectByLookup(l, r)
             \/ intersectByOperation(l, r)
      PROVE  MeetOrLarger(idToPts'[answer'.id], idToPts[l], idToPts[r])
  <2>1. answer'.op = "intersection" /\ answer'.lhs = l /\ answer'.rhs = r
        BY <1>6 DEF intersectByProperty, intersectByLookup, intersectByOperation, Answer
  <2> QED BY <1>2, <1>3, <2>1 DEF AnswerExact
<1> QED BY <1>1, <1>2, <1>4, <1>5, <1>6

(***************************************************************************)
(* emplacePts keeps the invariant and every set, and answers with the id   *)
(* of its argument.                                                        *)
(***************************************************************************)
LEMMA EmplaceAnswer ==
    ASSUME CacheIInv, NEW pts \in PTS, emplacePts(pts)
    PROVE  CacheIInv' /\ OldIdsKept /\ answer'.id \in Ids' /\ idToPts'[answer'.id] = pts
<1>1. CacheIInv' /\ CanIntern(pts) /\ Intern(pts) /\ answer'.id = IdOf(pts)
      BY EmplaceStep DEF emplacePts, Answer
<1> QED BY <1>1, InternFacts, InternKeeps DEF CacheIInv

(***************************************************************************)
(* Every step keeps the invariant.                                         *)
(***************************************************************************)
LEMMA CacheStepPreserves == CacheIInv /\ [Next]_vars => CacheIInv'
<1> SUFFICES ASSUME CacheIInv, [Next]_vars PROVE CacheIInv'
    OBVIOUS
<1>1. CASE UNCHANGED vars
  <2>1. UNCHANGED <<store, caches>> /\ exhausted' \in BOOLEAN /\ AnswerInv'
        BY <1>1 DEF vars, store, CacheIInv, AnswerInv, AnswerExact, Ids, UnionOp, ComplementOp, MeetOrLarger
  <2> QED BY <2>1, AnswerOnly
<1>2. ASSUME NEW pts \in PTS, emplacePts(pts) PROVE CacheIInv'
      BY <1>2, EmplaceStep
<1>3. ASSUME NEW pts \in PTS, abortOnExhaustion(pts) PROVE CacheIInv'
  <2>1. UNCHANGED <<store, caches>> /\ exhausted' \in BOOLEAN /\ AnswerInv'
        BY <1>3 DEF abortOnExhaustion, store, CacheIInv, AnswerInv, AnswerExact, Ids, UnionOp, ComplementOp, MeetOrLarger
  <2> QED BY <2>1, AnswerOnly
<1>4. ASSUME NEW l \in Ids, NEW r \in Ids, Calls(l, r) PROVE CacheIInv'
      BY <1>4, PropertyStep, LookupStep, UnionOpStep, ComplementStep, IntersectionStep DEF Calls
<1> QED BY <1>1, <1>2, <1>3, <1>4 DEF Next

(***************************************************************************)
(* The inductive invariant holds in every reachable state.                 *)
(***************************************************************************)
THEOREM CacheInvariance == Spec => []CacheIInv
BY CacheInitEstablishes, CacheStepPreserves, PTL DEF Spec

(***************************************************************************)
(* Type correctness, for every set of objects and every id space.          *)
(***************************************************************************)
THEOREM TypeCorrect == Spec => []TypeOK
<1>1. CacheIInv => TypeOK
      BY IdsBounded DEF CacheIInv, StoreInv, CacheInv, AnswerInv, TypeOK
<1> QED BY <1>1, CacheInvariance, PTL

(***************************************************************************)
(* Ids and sets correspond one to one: comparing ids compares sets.        *)
(***************************************************************************)
THEOREM HashConsingHolds == Spec => []HashConsing
<1>1. CacheIInv => HashConsing
      BY DEF CacheIInv, StoreInv
<1> QED BY <1>1, CacheInvariance, PTL

(***************************************************************************)
(* Every memoised union is exact, whatever call memoised it.               *)
(***************************************************************************)
THEOREM MemoisedUnions == Spec => []UnionCacheSound
<1>1. CacheIInv => UnionCacheSound
      BY DEF CacheIInv, CacheInv
<1> QED BY <1>1, CacheInvariance, PTL

(***************************************************************************)
(* Every memoised complement is exact, those that union and intersection   *)
(* leave behind included.                                                  *)
(***************************************************************************)
THEOREM MemoisedComplements == Spec => []ComplementCacheSound
<1>1. CacheIInv => ComplementCacheSound
      BY DEF CacheIInv, CacheInv
<1> QED BY <1>1, CacheInvariance, PTL

(***************************************************************************)
(* Every memoised intersection is exact or the larger of two operands one  *)
(* of which contains the other.                                            *)
(***************************************************************************)
THEOREM MemoisedIntersections == Spec => []IntersectionCacheBounds
<1>1. CacheIInv => IntersectionCacheBounds
      BY DEF CacheIInv, CacheInv
<1> QED BY <1>1, CacheInvariance, PTL

(***************************************************************************)
(* unionPts and complementPts answer with the id of exactly the set asked  *)
(* for, and intersectPts with it or the larger operand, whichever path     *)
(* answers and whatever call filled the tables.                            *)
(***************************************************************************)
THEOREM AnswersExact == Spec => []AnswerExact
<1>1. CacheIInv => AnswerExact
      BY DEF CacheIInv, AnswerInv
<1> QED BY <1>1, CacheInvariance, PTL

(***************************************************************************)
(* No step rebinds an id.                                                  *)
(***************************************************************************)
THEOREM IdsStayBound == Spec => IdsAreStable
<1>1. CacheIInv /\ [Next]_vars => [\A i \in Ids : i \in Ids' /\ idToPts'[i] = idToPts[i]]_vars
  <2> SUFFICES ASSUME CacheIInv, Next PROVE \A i \in Ids : i \in Ids' /\ idToPts'[i] = idToPts[i]
      OBVIOUS
  <2>1. ASSUME NEW pts \in PTS, emplacePts(pts) \/ abortOnExhaustion(pts) PROVE OldIdsKept
        BY <2>1, InternKeeps DEF emplacePts, abortOnExhaustion
  <2> QED BY <2>1, CallKeeps DEF Next, OldIdsKept
<1> QED BY <1>1, CacheInvariance, PTL DEF Spec, IdsAreStable

-----------------------------------------------------------------------------
(* The structure over the cache.                                           *)

-----------------------------------------------------------------------------
(* The calls of the cache.                                                 *)

(***************************************************************************)
(* A union, by whichever path, answers with the union of the two sets.     *)
(***************************************************************************)
LEMMA UnionCall ==
    ASSUME CacheIInv, NEW l \in Ids, NEW r \in Ids, CacheUnion(l, r)
    PROVE  /\ CacheIInv' /\ OldIdsKept /\ answer'.id \in Ids'
           /\ idToPts'[answer'.id] = idToPts[l] \cup idToPts[r]
<1>1. l \in Ids /\ r \in Ids /\ Calls(l, r)
    BY DEF CacheUnion, Ids, Calls
<1> QED
    BY <1>1, CallStep DEF CacheUnion, OldIdsKept, Ids, UnionOp

(***************************************************************************)
(* A complement answers with the difference.                               *)
(***************************************************************************)
LEMMA ComplementCall ==
    ASSUME CacheIInv, NEW l \in Ids, NEW r \in Ids, CacheComplement(l, r)
    PROVE  /\ CacheIInv' /\ OldIdsKept /\ answer'.id \in Ids'
           /\ idToPts'[answer'.id] = idToPts[l] \ idToPts[r]
<1>1. l \in Ids /\ r \in Ids /\ Calls(l, r)
    BY DEF CacheComplement, Ids, Calls
<1> QED
    BY <1>1, CallStep DEF CacheComplement, OldIdsKept, Ids, ComplementOp

(***************************************************************************)
(* An intersection may answer with the larger of two nested sets.          *)
(***************************************************************************)
LEMMA IntersectCall ==
    ASSUME CacheIInv, NEW l \in Ids, NEW r \in Ids, CacheIntersect(l, r)
    PROVE  /\ CacheIInv' /\ OldIdsKept /\ answer'.id \in Ids'
           /\ MeetOrLarger(idToPts'[answer'.id], idToPts[l], idToPts[r])
<1>1. l \in Ids /\ r \in Ids /\ Calls(l, r)
    BY DEF CacheIntersect, Ids, Calls
<1> QED
    BY <1>1, CallStep DEF CacheIntersect, OldIdsKept, Ids

(***************************************************************************)
(* Interning a set answers with its id.                                    *)
(***************************************************************************)
LEMMA EmplaceCall ==
    ASSUME CacheIInv, NEW pts \in SUBSET Objs, emplacePts(pts)
    PROVE  /\ CacheIInv' /\ OldIdsKept
           /\ answer'.id \in Ids' /\ idToPts'[answer'.id] = pts
BY EmplaceAnswer DEF PTS, OldIdsKept, Ids

(***************************************************************************)
(* Ids are equal exactly if their sets are, and 0 is the empty set.        *)
(***************************************************************************)
LEMMA SameIdSameSet ==
    ASSUME CacheIInv
    PROVE  /\ \A i, j \in Ids : idToPts[i] = idToPts[j] => i = j
           /\ \A i \in Ids : IdOf(idToPts[i]) = i
           /\ \A i \in Ids : idToPts[i] \in SUBSET Objs
           /\ 0 \in Ids /\ idToPts[0] = {} /\ answer.id \in Ids
BY DEF CacheIInv, StoreInv, HashConsing, Stored, Ids, PTS, AnswerInv, emptyPointsToId, IdOf

(***************************************************************************)
(* The same of the ids after a step.                                       *)
(***************************************************************************)
LEMMA SameIdSameSetAfter ==
    ASSUME CacheIInv'
    PROVE  /\ \A i, j \in Ids' : idToPts'[i] = idToPts'[j] => i = j
           /\ 0 \in Ids' /\ idToPts'[0] = {}
BY DEF CacheIInv, StoreInv, HashConsing, Stored, Ids, emptyPointsToId

-----------------------------------------------------------------------------
(* The invariant.                                                          *)

\* Every id a key has is an id of the cache.
MapsInv ==
    /\ ptsMap \in [Keys -> Ids]
    /\ diffPtsMap \in [Keys -> Ids]
    /\ propaPtsMap \in [Keys -> Ids]
    /\ revPtsMap \in [Objs -> SUBSET Keys]

\* Between its two steps a clear finds the set of its element in `answer`.
CallInv ==
    \/ call = NoCall
    \/ \E k \in Keys : call = [op |-> "union", key |-> k]
    \/ \E k \in Keys, o \in Objs :
           /\ call = [op |-> "clear", key |-> k, element |-> o]
           /\ idToPts[answer.id] = {o}

IInv == CacheIInv /\ MapsInv /\ CallInv /\ RevPtsInverse

\* What a client may see of a step.
ClientStep ==
    \/ Mutable!Next
    \/ \E s, d \in Keys : LargerPropa(s, d)
    \/ UNCHANGED clientView

(***************************************************************************)
(* Keys that keep their ids keep their sets.                               *)
(***************************************************************************)
LEMMA KeptMap ==
    ASSUME OldIdsKept, NEW map \in [Keys -> Ids]
    PROVE  /\ map \in [Keys -> Ids']
           /\ [k \in Keys |-> idToPts'[map[k]]] = [k \in Keys |-> idToPts[map[k]]]
BY DEF OldIdsKept

(***************************************************************************)
(* A step that leaves the cache alone keeps its invariant and its sets.    *)
(***************************************************************************)
LEMMA CacheAlone ==
    ASSUME CacheIInv, UNCHANGED vars
    PROVE  CacheIInv' /\ OldIdsKept
BY CacheStepPreserves
   DEF vars, caches, store, OldIdsKept, Ids

-----------------------------------------------------------------------------
(* The operations.                                                         *)

(***************************************************************************)
(* A union: the client sees unionPts with the set of the source id.        *)
(***************************************************************************)
LEMMA UnionStep ==
    ASSUME IInv, NEW dst \in Keys, NEW src \in Ids, unionPtsFromId(dst, src)
    PROVE  IInv' /\ Mutable!unionPts(dst, idToPts[src])
<1> DEFINE newDstId == answer'.id
           view == Sets(ptsMap)
<1>1. ptsMap[dst] \in Ids
    BY DEF IInv, MapsInv
<1>2. /\ CacheIInv' /\ OldIdsKept /\ newDstId \in Ids'
      /\ idToPts'[newDstId] = idToPts[ptsMap[dst]] \cup idToPts[src]
    BY <1>1, UnionCall DEF IInv, unionPtsFromId
<1>3. ptsMap' = [ptsMap EXCEPT ![dst] = newDstId]
    BY DEF unionPtsFromId
<1>4. /\ ptsMap' \in [Keys -> Ids']
      /\ Sets(ptsMap)' = [view EXCEPT ![dst] = idToPts'[newDstId]]
    <2>1. ptsMap \in [Keys -> Ids]
        BY DEF IInv, MapsInv
    <2> QED
        BY <1>2, <1>3, <2>1 DEF Sets, OldIdsKept
<1>5. Sets(ptsMap)' = [view EXCEPT ![dst] = @ \cup idToPts[src]]
    BY <1>2, <1>4 DEF Sets
<1>6. idToPts'[ptsMap[dst]] = idToPts[ptsMap[dst]] /\ ptsMap[dst] \in Ids'
    BY <1>1, <1>2 DEF OldIdsKept
<1>7. newDstId = ptsMap[dst] <=> idToPts[src] \subseteq idToPts[ptsMap[dst]]
    <2>1. newDstId = ptsMap[dst] <=> idToPts'[newDstId] = idToPts'[ptsMap[dst]]
        BY <1>2, <1>6, SameIdSameSetAfter
    <2> QED
        BY <2>1, <1>2, <1>6
<1>8. revPtsMap' = addRevPts(idToPts[src], dst)
    <2>1. CASE newDstId = ptsMap[dst]
        <3>1. \A o \in idToPts[src] \cap Objs : dst \in revPtsMap[o]
            BY <1>7, <2>1 DEF IInv, RevPtsInverse
        <3>2. revPtsMap' = revPtsMap
            BY <2>1 DEF unionPtsFromId
        <3> QED
            BY <3>1, <3>2 DEF addRevPts, IInv, MapsInv
    <2>2. CASE newDstId # ptsMap[dst]
        BY <2>2 DEF unionPtsFromId
    <2> QED
        BY <2>1, <2>2
<1>9. MapsInv'
    BY <1>2, <1>4, <1>8, KeptMap DEF MapsInv, IInv, unionPtsFromId, addRevPts
<1>10. RevPtsInverse'
    <2> SUFFICES ASSUME NEW o \in Objs, NEW k \in Keys
                 PROVE  k \in revPtsMap'[o] <=> o \in Sets(ptsMap)'[k]
        BY DEF RevPtsInverse, Sets
    <2>1. k \in revPtsMap[o] <=> o \in view[k]
        BY DEF IInv, RevPtsInverse, Sets
    <2>2. revPtsMap'[o] = IF o \in idToPts[src] THEN revPtsMap[o] \cup {dst} ELSE revPtsMap[o]
        BY <1>8 DEF addRevPts
    <2>3. Sets(ptsMap)'[k] = IF k = dst THEN view[dst] \cup idToPts[src] ELSE view[k]
        BY <1>5 DEF Sets
    <2> QED
        BY <2>1, <2>2, <2>3
<1>11. result' = ~(idToPts[src] \subseteq view[dst])
    <2>1. result' = (newDstId # ptsMap[dst])
        BY DEF unionPtsFromId
    <2>2. view[dst] = idToPts[ptsMap[dst]]
        BY DEF Sets
    <2> QED
        BY <2>1, <2>2, <1>7
<1>12. Sets(diffPtsMap)' = Sets(diffPtsMap) /\ Sets(propaPtsMap)' = Sets(propaPtsMap)
    BY <1>2, KeptMap DEF IInv, MapsInv, unionPtsFromId, Sets
<1>13. CallInv'
    BY DEF CallInv, unionPtsFromId
<1>14. Mutable!unionPts(dst, idToPts[src])
    BY <1>5, <1>8, <1>11, <1>12 DEF Mutable!unionPts, Mutable!addRevPts, addRevPts
<1> QED
    BY <1>2, <1>9, <1>10, <1>13, <1>14 DEF IInv

(***************************************************************************)
(* The first step of an operation interns a set: the client sees nothing.  *)
(***************************************************************************)
LEMMA InterningStep ==
    ASSUME IInv, NEW pts \in SUBSET Objs, emplacePts(pts), UNCHANGED mapVars
    PROVE  /\ CacheIInv' /\ MapsInv' /\ RevPtsInverse' /\ UNCHANGED clientView
           /\ idToPts'[answer'.id] = pts
<1>1. CacheIInv' /\ OldIdsKept /\ idToPts'[answer'.id] = pts
    BY EmplaceCall DEF IInv
<1>2. /\ MapsInv'
      /\ Sets(ptsMap)' = Sets(ptsMap)
      /\ Sets(diffPtsMap)' = Sets(diffPtsMap)
      /\ Sets(propaPtsMap)' = Sets(propaPtsMap)
    BY <1>1, KeptMap DEF IInv, MapsInv, mapVars, Sets
<1>3. RevPtsInverse'
    BY <1>1 DEF IInv, MapsInv, RevPtsInverse, mapVars, OldIdsKept
<1> QED
    BY <1>1, <1>2, <1>3 DEF clientView, mapVars

(***************************************************************************)
(* The second step of a removal: the client sees clearPts.                 *)
(***************************************************************************)
LEMMA ClearStep ==
    ASSUME IInv, finishClear
    PROVE  IInv' /\ \E k \in Keys, o \in Objs : Mutable!clearPts(k, o)
<1> DEFINE view == Sets(ptsMap)
<1>1. PICK k \in Keys, o \in Objs : /\ call = [op |-> "clear", key |-> k, element |-> o]
                                    /\ idToPts[answer.id] = {o}
    BY DEF IInv, CallInv, finishClear, NoCall
<1> DEFINE newId == answer'.id
<1>2. /\ CacheComplement(ptsMap[k], answer.id)
      /\ ptsMap' = [ptsMap EXCEPT ![k] = newId]
      /\ revPtsMap' = IF newId = ptsMap[k] THEN revPtsMap ELSE clearRevPts({o}, k)
      /\ call' = NoCall
      /\ UNCHANGED <<diffPtsMap, propaPtsMap, result>>
    BY <1>1 DEF finishClear
<1>3. ptsMap[k] \in Ids /\ answer.id \in Ids
    BY SameIdSameSet DEF IInv, MapsInv
<1>4. /\ CacheIInv' /\ OldIdsKept /\ newId \in Ids'
      /\ idToPts'[newId] = idToPts[ptsMap[k]] \ {o}
    BY <1>1, <1>2, <1>3, ComplementCall DEF IInv
<1>5. /\ ptsMap' \in [Keys -> Ids']
      /\ Sets(ptsMap)' = [view EXCEPT ![k] = idToPts'[newId]]
    <2>1. ptsMap \in [Keys -> Ids]
        BY DEF IInv, MapsInv
    <2> QED
        BY <1>2, <1>4, <2>1 DEF Sets, OldIdsKept
<1>6. Sets(ptsMap)' = [view EXCEPT ![k] = @ \ {o}]
    BY <1>4, <1>5 DEF Sets
<1>7. revPtsMap' = clearRevPts({o}, k)
    <2>1. CASE newId = ptsMap[k]
        <3>1. o \notin idToPts[ptsMap[k]]
            BY <1>3, <1>4, <2>1 DEF OldIdsKept
        <3>2. k \notin revPtsMap[o]
            BY <3>1 DEF IInv, RevPtsInverse
        <3> QED
            BY <3>2, <1>2, <2>1 DEF clearRevPts, IInv, MapsInv
    <2> QED
        BY <2>1, <1>2
<1>8. MapsInv'
    BY <1>2, <1>4, <1>5, <1>7, KeptMap DEF MapsInv, IInv, clearRevPts
<1>9. RevPtsInverse'
    <2> SUFFICES ASSUME NEW p \in Objs, NEW n \in Keys
                 PROVE  n \in revPtsMap'[p] <=> p \in Sets(ptsMap)'[n]
        BY DEF RevPtsInverse, Sets
    <2>1. n \in revPtsMap[p] <=> p \in view[n]
        BY DEF IInv, RevPtsInverse, Sets
    <2>2. revPtsMap'[p] = IF p = o THEN revPtsMap[p] \ {k} ELSE revPtsMap[p]
        BY <1>7 DEF clearRevPts
    <2>3. Sets(ptsMap)'[n] = IF n = k THEN view[k] \ {o} ELSE view[n]
        BY <1>6 DEF Sets
    <2> QED
        BY <2>1, <2>2, <2>3
<1>10. Sets(diffPtsMap)' = Sets(diffPtsMap) /\ Sets(propaPtsMap)' = Sets(propaPtsMap)
    BY <1>2, <1>4, KeptMap DEF IInv, MapsInv, Sets
<1>11. Mutable!clearPts(k, o)
    BY <1>2, <1>6, <1>7, <1>10 DEF Mutable!clearPts, Mutable!clearRevPts, clearRevPts
<1> QED
    BY <1>2, <1>4, <1>8, <1>9, <1>11 DEF IInv, CallInv

(***************************************************************************)
(* Operations on what is propagated leave points-to sets and their inverse.*)
(***************************************************************************)
LEMMA PointsToKept ==
    ASSUME IInv, OldIdsKept, UNCHANGED <<ptsMap, revPtsMap>>
    PROVE  /\ ptsMap' \in [Keys -> Ids']
           /\ revPtsMap' \in [Objs -> SUBSET Keys]
           /\ RevPtsInverse'
           /\ Sets(ptsMap)' = Sets(ptsMap)
<1>1. ptsMap' \in [Keys -> Ids'] /\ Sets(ptsMap)' = Sets(ptsMap)
    BY KeptMap DEF IInv, MapsInv, Sets
<1> QED
    BY <1>1 DEF IInv, MapsInv, RevPtsInverse, OldIdsKept

(***************************************************************************)
(* computeDiffPts interns a stored set and gets the id it already has.     *)
(***************************************************************************)
LEMMA DiffStep ==
    ASSUME IInv, NEW var \in Keys, computeDiffPts(var)
    PROVE  IInv' /\ Mutable!computeDiffPts(var)
<1> DEFINE allId == ptsMap[var]
           diffId == answer'.id
           all == Sets(ptsMap)[var]
<1>1. /\ ptsMap \in [Keys -> Ids] /\ allId \in Ids
      /\ diffPtsMap \in [Keys -> Ids]
      /\ propaPtsMap \in [Keys -> Ids] /\ propaPtsMap[var] \in Ids
    BY DEF IInv, MapsInv
<1>2. IdOf(idToPts[allId]) = allId
    BY <1>1, SameIdSameSet DEF IInv
<1>3. /\ CacheComplement(allId, propaPtsMap[var])
      /\ diffPtsMap' = [diffPtsMap EXCEPT ![var] = diffId]
      /\ propaPtsMap' = [propaPtsMap EXCEPT ![var] = allId]
      /\ result' = (diffId # emptyPointsToId)
      /\ call = NoCall
      /\ UNCHANGED <<ptsMap, revPtsMap, call>>
    BY <1>2 DEF computeDiffPts
<1>4. /\ CacheIInv' /\ OldIdsKept /\ diffId \in Ids'
      /\ idToPts'[diffId] = idToPts[allId] \ idToPts[propaPtsMap[var]]
    BY <1>1, <1>3, ComplementCall DEF IInv
<1>5. /\ all = idToPts[allId]
      /\ Sets(propaPtsMap)[var] = idToPts[propaPtsMap[var]]
    BY DEF Sets
<1>6. /\ diffPtsMap' \in [Keys -> Ids']
      /\ Sets(diffPtsMap)' = [Sets(diffPtsMap) EXCEPT ![var] = all \ Sets(propaPtsMap)[var]]
    BY <1>1, <1>3, <1>4 DEF Sets, OldIdsKept
<1>7. /\ propaPtsMap' \in [Keys -> Ids']
      /\ Sets(propaPtsMap)' = [Sets(propaPtsMap) EXCEPT ![var] = all]
    BY <1>1, <1>3, <1>4 DEF Sets, OldIdsKept
<1>8. result' = (all \ Sets(propaPtsMap)[var] # {})
    <2>1. diffId = 0 <=> idToPts'[diffId] = {}
        BY <1>4, SameIdSameSetAfter
    <2>2. emptyPointsToId = 0
        BY DEF emptyPointsToId
    <2> QED
        BY <2>1, <2>2, <1>3, <1>4, <1>5
<1>9. IInv'
    BY <1>3, <1>4, <1>6, <1>7, PointsToKept DEF IInv, MapsInv, CallInv
<1>10. Mutable!computeDiffPts(var)
    BY <1>3, <1>4, <1>6, <1>7, <1>8, PointsToKept DEF Mutable!computeDiffPts
<1> QED
    BY <1>9, <1>10

(***************************************************************************)
(* The propagated set of a merged node: the intersection, or the larger of *)
(* two nested sets.                                                        *)
(***************************************************************************)
LEMMA PropaStep ==
    ASSUME IInv, NEW src \in Keys, NEW dst \in Keys, updatePropaPtsMap(src, dst)
    PROVE  IInv' /\ (Mutable!updatePropaPtsMap(src, dst) \/ LargerPropa(src, dst))
<1> DEFINE meetId == answer'.id
           propa == Sets(propaPtsMap)
<1>1. /\ diffPtsMap \in [Keys -> Ids]
      /\ propaPtsMap \in [Keys -> Ids]
      /\ propaPtsMap[src] \in Ids /\ propaPtsMap[dst] \in Ids
    BY DEF IInv, MapsInv
<1>2. /\ CacheIntersect(propaPtsMap[dst], propaPtsMap[src])
      /\ propaPtsMap' = [propaPtsMap EXCEPT ![dst] = meetId]
      /\ call = NoCall
      /\ UNCHANGED <<ptsMap, revPtsMap, diffPtsMap, result, call>>
    BY DEF updatePropaPtsMap
<1>3. /\ CacheIInv' /\ OldIdsKept /\ meetId \in Ids'
      /\ MeetOrLarger(idToPts'[meetId], idToPts[propaPtsMap[dst]], idToPts[propaPtsMap[src]])
    BY <1>1, <1>2, IntersectCall DEF IInv
<1>4. /\ propa[dst] = idToPts[propaPtsMap[dst]]
      /\ propa[src] = idToPts[propaPtsMap[src]]
    BY DEF Sets
<1>5. /\ propaPtsMap' \in [Keys -> Ids']
      /\ Sets(propaPtsMap)' = [propa EXCEPT ![dst] = idToPts'[meetId]]
    BY <1>1, <1>2, <1>3 DEF Sets, OldIdsKept
<1>6. diffPtsMap' \in [Keys -> Ids'] /\ Sets(diffPtsMap)' = Sets(diffPtsMap)
    BY <1>1, <1>2, <1>3, KeptMap DEF Sets
<1>7. IInv'
    BY <1>2, <1>3, <1>5, <1>6, PointsToKept DEF IInv, MapsInv, CallInv
<1>8. CASE idToPts'[meetId] = propa[dst] \cap propa[src]
    <2>1. Sets(propaPtsMap)' = [propa EXCEPT ![dst] = @ \cap propa[src]]
        BY <1>5, <1>8 DEF Sets
    <2> QED
        BY <2>1, <1>2, <1>3, <1>6, <1>7, PointsToKept DEF Mutable!updatePropaPtsMap
<1>9. CASE /\ idToPts'[meetId] = propa[dst] \cup propa[src]
           /\ propa[dst] \subseteq propa[src] \/ propa[src] \subseteq propa[dst]
    <2>1. Sets(propaPtsMap)' = [propa EXCEPT ![dst] = @ \cup propa[src]]
        BY <1>5, <1>9 DEF Sets
    <2> QED
        BY <2>1, <1>2, <1>3, <1>6, <1>7, <1>9, PointsToKept DEF LargerPropa
<1> QED
    BY <1>3, <1>4, <1>8, <1>9 DEF MeetOrLarger

(***************************************************************************)
(* Clearing all of a key's set, without a call of the cache.               *)
(***************************************************************************)
LEMMA ClearFullStep ==
    ASSUME IInv, NEW var \in Keys, clearFullPts(var)
    PROVE  IInv' /\ Mutable!clearFullPts(var)
<1> DEFINE view == Sets(ptsMap)
<1>1. CacheIInv' /\ OldIdsKept /\ 0 \in Ids' /\ idToPts'[0] = {}
    BY CacheAlone, SameIdSameSetAfter DEF IInv, clearFullPts
<1>2. /\ ptsMap' = [ptsMap EXCEPT ![var] = 0]
      /\ revPtsMap' = clearRevPts(view[var], var)
      /\ UNCHANGED <<diffPtsMap, propaPtsMap, result, call, answer>>
      /\ call = NoCall
    BY DEF clearFullPts, emptyPointsToId, Sets, vars
<1>3. /\ ptsMap' \in [Keys -> Ids']
      /\ Sets(ptsMap)' = [view EXCEPT ![var] = {}]
    <2>1. ptsMap \in [Keys -> Ids]
        BY DEF IInv, MapsInv
    <2> QED
        BY <1>1, <1>2, <2>1 DEF Sets, OldIdsKept
<1>4. /\ diffPtsMap' \in [Keys -> Ids'] /\ Sets(diffPtsMap)' = Sets(diffPtsMap)
      /\ propaPtsMap' \in [Keys -> Ids'] /\ Sets(propaPtsMap)' = Sets(propaPtsMap)
    BY <1>1, <1>2, KeptMap DEF IInv, MapsInv, Sets
<1>5. revPtsMap' \in [Objs -> SUBSET Keys]
    BY <1>2 DEF IInv, MapsInv, clearRevPts
<1>6. RevPtsInverse'
    <2> SUFFICES ASSUME NEW o \in Objs, NEW n \in Keys
                 PROVE  n \in revPtsMap'[o] <=> o \in Sets(ptsMap)'[n]
        BY DEF RevPtsInverse, Sets
    <2>1. n \in revPtsMap[o] <=> o \in view[n]
        BY DEF IInv, RevPtsInverse, Sets
    <2>2. revPtsMap'[o] = IF o \in view[var] THEN revPtsMap[o] \ {var} ELSE revPtsMap[o]
        BY <1>2 DEF clearRevPts
    <2>3. Sets(ptsMap)'[n] = IF n = var THEN {} ELSE view[n]
        BY <1>3 DEF Sets
    <2> QED
        BY <2>1, <2>2, <2>3
<1>7. Mutable!clearFullPts(var)
    BY <1>2, <1>3, <1>4 DEF Mutable!clearFullPts, Mutable!clearRevPts, clearRevPts
<1> QED
    BY <1>1, <1>2, <1>3, <1>4, <1>5, <1>6, <1>7 DEF IInv, MapsInv, CallInv

(***************************************************************************)
(* Forgetting what a key has propagated.                                   *)
(***************************************************************************)
LEMMA ClearPropaStep ==
    ASSUME IInv, NEW var \in Keys, clearPropaPts(var)
    PROVE  IInv' /\ Mutable!clearPropaPts(var)
<1>1. CacheIInv' /\ OldIdsKept /\ 0 \in Ids' /\ idToPts'[0] = {}
    BY CacheAlone, SameIdSameSetAfter DEF IInv, clearPropaPts
<1>2. /\ propaPtsMap' = [propaPtsMap EXCEPT ![var] = 0]
      /\ UNCHANGED <<ptsMap, revPtsMap, diffPtsMap, result, call>>
      /\ call = NoCall
    BY DEF clearPropaPts, emptyPointsToId
<1>3. /\ propaPtsMap' \in [Keys -> Ids']
      /\ Sets(propaPtsMap)' = [Sets(propaPtsMap) EXCEPT ![var] = {}]
    <2>1. propaPtsMap \in [Keys -> Ids]
        BY DEF IInv, MapsInv
    <2> QED
        BY <1>1, <1>2, <2>1 DEF Sets, OldIdsKept
<1>4. diffPtsMap' \in [Keys -> Ids'] /\ Sets(diffPtsMap)' = Sets(diffPtsMap)
    BY <1>1, <1>2, KeptMap DEF IInv, MapsInv, Sets
<1>5. IInv'
    BY <1>1, <1>2, <1>3, <1>4, PointsToKept DEF IInv, MapsInv, CallInv
<1> QED
    BY <1>1, <1>2, <1>3, <1>4, <1>5, PointsToKept DEF Mutable!clearPropaPts

(***************************************************************************)
(* New maps, at the start or for the next analysis, are empty whatever the *)
(* cache holds.                                                            *)
(***************************************************************************)
LEMMA EmptyMaps ==
    ASSUME 0 \in Ids, idToPts[0] = {},
           ptsMap = NoIds, diffPtsMap = NoIds, propaPtsMap = NoIds,
           revPtsMap = [o \in Objs |-> {}]
    PROVE  /\ MapsInv /\ RevPtsInverse
           /\ Sets(ptsMap) = Mutable!NoSets
           /\ Sets(diffPtsMap) = Mutable!NoSets
           /\ Sets(propaPtsMap) = Mutable!NoSets
<1>1. NoIds \in [Keys -> Ids] /\ \A k \in Keys : NoIds[k] = 0
    BY DEF NoIds, emptyPointsToId
<1>2. MapsInv /\ RevPtsInverse
    BY <1>1 DEF MapsInv, RevPtsInverse
<1> QED
    BY <1>1, <1>2 DEF Sets, Mutable!NoSets

(***************************************************************************)
(* The next analysis starts with empty maps and without a call pending.    *)
(***************************************************************************)
LEMMA NewPTDataStep ==
    ASSUME IInv, newPTData
    PROVE  IInv' /\ Mutable!newPTData
<1>1. CacheIInv' /\ 0 \in Ids' /\ idToPts'[0] = {}
    BY CacheAlone, SameIdSameSetAfter DEF IInv, newPTData
<1>2. NoIds \in [Keys -> Ids'] /\ \A k \in Keys : NoIds[k] = 0
    BY <1>1 DEF NoIds, emptyPointsToId
<1>3. /\ ptsMap' = NoIds /\ diffPtsMap' = NoIds /\ propaPtsMap' = NoIds
      /\ revPtsMap' = [o \in Objs |-> {}] /\ result' = FALSE
      /\ call' = NoCall
    BY DEF newPTData
<1>4. MapsInv' /\ RevPtsInverse'
    BY <1>1, <1>2, <1>3 DEF MapsInv, RevPtsInverse
<1>5. /\ Sets(ptsMap)' = Mutable!NoSets
      /\ Sets(diffPtsMap)' = Mutable!NoSets
      /\ Sets(propaPtsMap)' = Mutable!NoSets
    BY <1>1, <1>2, <1>3 DEF Sets, Mutable!NoSets
<1> QED
    BY <1>1, <1>3, <1>4, <1>5 DEF IInv, CallInv, Mutable!newPTData

-----------------------------------------------------------------------------
(* The theorems.                                                           *)

(***************************************************************************)
(* The first state satisfies the invariant and is an initial state of the  *)
(* mutable data structure.                                                 *)
(***************************************************************************)
LEMMA InitEstablishes == PersInit => IInv /\ Mutable!Init
<1> SUFFICES ASSUME PersInit PROVE IInv /\ Mutable!Init
    OBVIOUS
<1>1. CacheIInv
    BY CacheInitEstablishes DEF PersInit
<1>2. MapsInv /\ RevPtsInverse /\ Sets(ptsMap) = Mutable!NoSets
      /\ Sets(diffPtsMap) = Mutable!NoSets /\ Sets(propaPtsMap) = Mutable!NoSets
    BY <1>1, EmptyMaps, SameIdSameSet DEF PersInit
<1> QED
    BY <1>1, <1>2 DEF PersInit, IInv, CallInv, Mutable!Init

(***************************************************************************)
(* Every step keeps the invariant, and is one the client of the mutable    *)
(* structure could see, the larger intersection apart.                     *)
(***************************************************************************)
LEMMA StepPreserves == IInv /\ [PersNext]_persVars => IInv' /\ ClientStep
<1> SUFFICES ASSUME IInv, [PersNext]_persVars PROVE IInv' /\ ClientStep
    OBVIOUS
<1>1. ASSUME NEW k \in Keys, NEW pts \in SUBSET Objs, unionPtsOfSet(k, pts)
      PROVE  IInv' /\ ClientStep
    <2>1. CallInv'
        BY <1>1 DEF unionPtsOfSet, CallInv
    <2> QED
        BY <1>1, <2>1, InterningStep DEF unionPtsOfSet, IInv, ClientStep
<1>2. ASSUME NEW s \in Keys, NEW d \in Keys, unionPtsOfKey(d, s)
      PROVE  IInv' /\ ClientStep
    <2>1. ptsMap[s] \in Ids /\ idToPts[ptsMap[s]] \in SUBSET Objs
        BY SameIdSameSet DEF IInv, MapsInv
    <2>2. IInv' /\ Mutable!unionPts(d, idToPts[ptsMap[s]])
        BY <1>2, <2>1, UnionStep DEF unionPtsOfKey
    <2> QED
        BY <2>1, <2>2 DEF ClientStep, Mutable!Next
<1>3. CASE finishUnion
    <2>1. PICK k \in Keys : call = [op |-> "union", key |-> k]
        BY <1>3 DEF finishUnion, IInv, CallInv, NoCall
    <2>2. answer.id \in Ids /\ idToPts[answer.id] \in SUBSET Objs
        BY SameIdSameSet DEF IInv
    <2>3. IInv' /\ Mutable!unionPts(k, idToPts[answer.id])
        BY <1>3, <2>1, <2>2, UnionStep DEF finishUnion
    <2> QED
        BY <2>2, <2>3 DEF ClientStep, Mutable!Next
<1>4. ASSUME NEW k \in Keys, NEW o \in Objs, clearPts(k, o)
      PROVE  IInv' /\ ClientStep
    <2>1. /\ CacheIInv' /\ MapsInv' /\ RevPtsInverse' /\ UNCHANGED clientView
          /\ idToPts'[answer'.id] = {o}
        BY <1>4, InterningStep DEF clearPts
    <2>2. CallInv'
        BY <1>4, <2>1 DEF clearPts, CallInv
    <2> QED
        BY <2>1, <2>2 DEF IInv, ClientStep
<1>5. CASE finishClear
    BY <1>5, ClearStep DEF ClientStep, Mutable!Next
<1>6. ASSUME NEW k \in Keys, clearFullPts(k)
      PROVE  IInv' /\ ClientStep
    BY <1>6, ClearFullStep DEF ClientStep, Mutable!Next
<1>7. ASSUME NEW k \in Keys, computeDiffPts(k)
      PROVE  IInv' /\ ClientStep
    BY <1>7, DiffStep DEF ClientStep, Mutable!Next
<1>8. ASSUME NEW s \in Keys, NEW d \in Keys, updatePropaPtsMap(s, d)
      PROVE  IInv' /\ ClientStep
    BY <1>8, PropaStep DEF ClientStep, Mutable!Next
<1>9. ASSUME NEW k \in Keys, clearPropaPts(k)
      PROVE  IInv' /\ ClientStep
    BY <1>9, ClearPropaStep DEF ClientStep, Mutable!Next
<1>10. CASE newPTData
    BY <1>10, NewPTDataStep DEF ClientStep, Mutable!Next
<1>11. CASE UNCHANGED persVars
    <2>1. /\ UNCHANGED vars /\ UNCHANGED mapVars /\ UNCHANGED call
          /\ UNCHANGED <<idToPts, answer>>
        BY <1>11 DEF persVars, vars, store
    <2>2. CacheIInv'
        BY <2>1, CacheAlone DEF IInv
    <2> QED
        BY <2>1, <2>2 DEF IInv, MapsInv, CallInv, RevPtsInverse, Ids, mapVars,
                          ClientStep, clientView, Sets
<1> QED
    BY <1>1, <1>2, <1>3, <1>4, <1>5, <1>6, <1>7, <1>8, <1>9, <1>10, <1>11 DEF PersNext

(***************************************************************************)
(* The invariant holds in every reachable state.                           *)
(***************************************************************************)
THEOREM Invariance == PersSpec => []IInv
<1>1. PersInit => IInv
    BY InitEstablishes
<1>2. IInv /\ [PersNext]_persVars => IInv'
    BY StepPreserves
<1> QED
    BY <1>1, <1>2, PTL DEF PersSpec

(***************************************************************************)
(* RevPtsInverse for any keys and objects: updating the reverse map only   *)
(* when an id changes never leaves it behind.                              *)
(***************************************************************************)
THEOREM ReverseMapHolds == PersSpec => []RevPtsInverse
<1>1. IInv => RevPtsInverse
    BY DEF IInv
<1> QED
    BY <1>1, Invariance, PTL

(***************************************************************************)
(* ImplementsMutable for any keys and objects: the persistent structure    *)
(* shows its clients what the mutable one would, except for the larger of  *)
(* two nested propagated sets in place of their intersection.              *)
(***************************************************************************)
THEOREM RefinesMutable == PersSpec => ImplementsMutable
<1>1. PersInit => Mutable!Init
    BY InitEstablishes
<1>2. IInv /\ [PersNext]_persVars
        => [Mutable!Next \/ \E s, d \in Keys : LargerPropa(s, d)]_clientView
    BY StepPreserves DEF ClientStep
<1> QED
    BY <1>1, <1>2, Invariance, PTL DEF PersSpec, ImplementsMutable
=============================================================================
