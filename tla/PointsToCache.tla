--------------------------- MODULE PointsToCache ---------------------------
(***************************************************************************)
(* PersistentPointsToCache: hash-consed points-to sets.  Every points-to   *)
(* set is interned once under a PointsToID, and union, relative complement *)
(* and intersection of two ids are memoised.  A call that really performs  *)
(* an operation also records the set identities it has just learned, some  *)
(* of them in the memo table of ANOTHER operation.                         *)
(*                                                                         *)
(* The cache is one static object shared by every persistent points-to     *)
(* structure of the process, so the calls of all analyses interleave.      *)
(***************************************************************************)
EXTENDS Naturals, FiniteSets, TLC

CONSTANTS
    Objs,       \* the memory objects a points-to set may hold
    IdSpace     \* number of values of the type PointsToID (2^32 in the code)

ASSUME IdSpaceAssumption == IdSpace \in Nat \ {0}

VARIABLES
    idToPts,            \* PointsToID -> points-to set
    ptsToId,            \* its reverse, used to intern
    unionCache,         \* <<lesser id, greater id>> -> id
    complementCache,    \* <<lhs, rhs>> -> id
    intersectionCache,  \* <<lesser id, greater id>> -> id
    idCounter,          \* next PointsToID, wraps at IdSpace
    answer,             \* the last call and what it returned
    exhausted           \* newPointsToId's assertion failed: the process aborted

caches == <<unionCache, complementCache, intersectionCache>>
store == <<idToPts, ptsToId, idCounter>>
vars == <<store, caches, answer, exhausted>>

PTS == SUBSET Objs
Ids == DOMAIN idToPts
emptyPointsToId == 0
None == [k \in {} |-> emptyPointsToId]

(***************************************************************************)
(* std::minmax on two ids, the key of the commutative operations.          *)
(***************************************************************************)
minmax(x, y) == IF y < x THEN <<y, x>> ELSE <<x, y>>

(***************************************************************************)
(* The three set operations, as they act on the stored sets.               *)
(***************************************************************************)
UnionOp(l, r) == idToPts[l] \cup idToPts[r]
ComplementOp(l, r) == idToPts[l] \ idToPts[r]
IntersectionOp(l, r) == idToPts[l] \cap idToPts[r]

(***************************************************************************)
(* newPointsToId and interning.  CanIntern is the assertion that           *)
(* idCounter has not wrapped to 0; it is evaluated only for a new set.     *)
(***************************************************************************)
StoredMutant(pts) == pts = {}
CanInternMutant(pts) == TRUE

Stored(pts) == pts \in DOMAIN ptsToId
CanIntern(pts) == Stored(pts) \/ idCounter # emptyPointsToId
IdOf(pts) == IF Stored(pts) THEN ptsToId[pts] ELSE idCounter

Intern(pts) ==
    IF Stored(pts)
    THEN UNCHANGED store
    ELSE /\ idToPts' = [i \in Ids \cup {idCounter} |->
                            IF i = idCounter THEN pts ELSE idToPts[i]]
         /\ ptsToId' = [p \in DOMAIN ptsToId \cup {pts} |->
                            IF p = pts THEN idCounter ELSE ptsToId[p]]
         /\ idCounter' = (idCounter + 1) % IdSpace

(***************************************************************************)
(* Assigning a set of facts (a partial function) into a memo table.        *)
(***************************************************************************)
Learn(cache, facts) ==
    [k \in DOMAIN cache \cup DOMAIN facts |->
        IF k \in DOMAIN facts THEN facts[k] ELSE cache[k]]

(***************************************************************************)
(* The identities each operation records after performing x op y = z.      *)
(***************************************************************************)
UnionFactsMutant(l, r, z) ==
    [k \in {minmax(l, r), minmax(l, z), minmax(r, z)} \ {<<z, z>>} |->
        IF k = minmax(l, z) THEN l ELSE z]
ComplementMeetFactsMutant(l, r, z) ==
    IF z = emptyPointsToId THEN None
    ELSE [k \in {minmax(z, r), minmax(z, l)} |-> emptyPointsToId]
ComplementFactsMutant(l, r, z) ==
    IF z = emptyPointsToId THEN [k \in {minmax(l, r)} |-> z]
    ELSE [k \in {minmax(l, r), minmax(z, r)} |-> z]

UnionFacts(l, r, z) ==
    [k \in {minmax(l, r), minmax(l, z), minmax(r, z)} \ {<<z, z>>} |-> z]

\* result AND rhs = EMPTY_SET; result AND lhs is recorded as lhs.
ComplementMeetFacts(l, r, z) ==
    IF z = emptyPointsToId THEN None
    ELSE [k \in {minmax(z, r), minmax(z, l)} |->
             IF k = minmax(z, l) THEN l ELSE emptyPointsToId]

ComplementFacts(l, r, z) ==
    IF z = emptyPointsToId THEN [k \in {<<l, r>>} |-> z]
    ELSE [k \in {<<l, r>>, <<z, r>>} |-> z]

IntersectionFacts(l, r, z) ==
    IF z = emptyPointsToId THEN [k \in {minmax(l, r)} |-> z]
    ELSE [k \in {minmax(l, r), minmax(z, r), minmax(z, l)} \ {<<z, z>>} |-> z]

\* x AND y = z gives z U x = x and z U y = y.
IntersectionJoinFacts(l, r, z) ==
    IF z = emptyPointsToId THEN None
    ELSE [k \in {minmax(l, z), minmax(r, z)} \ {<<z, z>>} |->
             IF k = minmax(l, z) THEN l ELSE r]

Answer(op, l, r, id) == [op |-> op, lhs |-> l, rhs |-> r, id |-> id]

----------------------------------------------------------------------------
Init ==
    /\ idToPts = [i \in {emptyPointsToId} |-> {}]
    /\ ptsToId = [p \in {{}} |-> emptyPointsToId]
    /\ unionCache = None
    /\ complementCache = None
    /\ intersectionCache = None
    /\ idCounter = 1 % IdSpace
    /\ answer = Answer("none", 0, 0, 0)
    /\ exhausted = FALSE

(***************************************************************************)
(* emplacePts                                                              *)
(***************************************************************************)
emplacePts(pts) ==
    /\ CanIntern(pts)
    /\ Intern(pts)
    /\ answer' = Answer("emplace", 0, 0, IdOf(pts))
    /\ UNCHANGED <<caches, exhausted>>

(***************************************************************************)
(* unionPts.  Property cases first, then the memo table, then the set      *)
(* operation itself.                                                       *)
(***************************************************************************)
UnionProperty(l, r) == l = emptyPointsToId \/ r = emptyPointsToId \/ l = r

unionByProperty(l, r) ==
    /\ UnionProperty(l, r)
    /\ answer' = Answer("union", l, r, minmax(l, r)[2])
    /\ UNCHANGED <<store, caches, exhausted>>

unionByLookup(l, r) ==
    /\ ~UnionProperty(l, r)
    /\ minmax(l, r) \in DOMAIN unionCache
    /\ answer' = Answer("union", l, r, unionCache[minmax(l, r)])
    /\ UNCHANGED <<store, caches, exhausted>>

unionByOperation(l, r) ==
    LET z == IdOf(UnionOp(l, r))
    IN  /\ ~UnionProperty(l, r)
        /\ minmax(l, r) \notin DOMAIN unionCache
        /\ CanIntern(UnionOp(l, r))
        /\ Intern(UnionOp(l, r))
        /\ unionCache' = Learn(unionCache, UnionFacts(l, r, z))
        /\ answer' = Answer("union", l, r, z)
        /\ UNCHANGED <<complementCache, intersectionCache, exhausted>>

(***************************************************************************)
(* complementPts                                                           *)
(***************************************************************************)
ComplementProperty(l, r) == l = r \/ r = emptyPointsToId \/ l = emptyPointsToId

complementByProperty(l, r) ==
    /\ ComplementProperty(l, r)
    /\ answer' = Answer("complement", l, r,
                        IF l # r /\ r = emptyPointsToId THEN l ELSE emptyPointsToId)
    /\ UNCHANGED <<store, caches, exhausted>>

complementByLookup(l, r) ==
    /\ ~ComplementProperty(l, r)
    /\ <<l, r>> \in DOMAIN complementCache
    /\ answer' = Answer("complement", l, r, complementCache[<<l, r>>])
    /\ UNCHANGED <<store, caches, exhausted>>

complementByOperation(l, r) ==
    LET z == IdOf(ComplementOp(l, r))
    IN  /\ ~ComplementProperty(l, r)
        /\ <<l, r>> \notin DOMAIN complementCache
        /\ CanIntern(ComplementOp(l, r))
        /\ Intern(ComplementOp(l, r))
        /\ complementCache' = Learn(complementCache, ComplementFacts(l, r, z))
        /\ intersectionCache' = Learn(intersectionCache, ComplementMeetFacts(l, r, z))
        /\ answer' = Answer("complement", l, r, z)
        /\ UNCHANGED <<unionCache, exhausted>>

(***************************************************************************)
(* intersectPts                                                            *)
(***************************************************************************)
IntersectionProperty(l, r) == l = emptyPointsToId \/ r = emptyPointsToId \/ l = r

intersectByProperty(l, r) ==
    /\ IntersectionProperty(l, r)
    /\ answer' = Answer("intersection", l, r, minmax(l, r)[1])
    /\ UNCHANGED <<store, caches, exhausted>>

intersectByLookup(l, r) ==
    /\ ~IntersectionProperty(l, r)
    /\ minmax(l, r) \in DOMAIN intersectionCache
    /\ answer' = Answer("intersection", l, r, intersectionCache[minmax(l, r)])
    /\ UNCHANGED <<store, caches, exhausted>>

intersectByOperation(l, r) ==
    LET z == IdOf(IntersectionOp(l, r))
    IN  /\ ~IntersectionProperty(l, r)
        /\ minmax(l, r) \notin DOMAIN intersectionCache
        /\ CanIntern(IntersectionOp(l, r))
        /\ Intern(IntersectionOp(l, r))
        /\ intersectionCache' = Learn(intersectionCache, IntersectionFacts(l, r, z))
        /\ unionCache' = Learn(unionCache, IntersectionJoinFacts(l, r, z))
        /\ answer' = Answer("intersection", l, r, z)
        /\ UNCHANGED <<complementCache, exhausted>>

(***************************************************************************)
(* newPointsToId's assertion: a set that needs a new id once the counter   *)
(* has wrapped aborts the process.  emplacePts of any set is the call that *)
(* gets there first; opPts asks for the id of a set in the same way.       *)
(***************************************************************************)
abortOnExhaustion(pts) ==
    /\ ~CanIntern(pts)
    /\ exhausted' = TRUE
    /\ UNCHANGED <<store, caches, answer>>

----------------------------------------------------------------------------
Calls(l, r) ==
    \/ unionByProperty(l, r)      \/ unionByLookup(l, r)      \/ unionByOperation(l, r)
    \/ complementByProperty(l, r) \/ complementByLookup(l, r) \/ complementByOperation(l, r)
    \/ intersectByProperty(l, r)  \/ intersectByLookup(l, r)  \/ intersectByOperation(l, r)

Next ==
    /\ ~exhausted
    /\ \/ \E pts \in PTS : emplacePts(pts) \/ abortOnExhaustion(pts)
       \/ \E l, r \in Ids : Calls(l, r)

Spec == Init /\ [][Next]_vars

----------------------------------------------------------------------------
Key == Ids \X Ids

\* Every memo table is a partial function from pairs of stored ids to stored ids.
MemoTable(cache) == DOMAIN cache \subseteq Key /\ \A k \in DOMAIN cache : cache[k] \in Ids

\* The types of the cache's state, with the ids in use a prefix of the id space.
TypeOK ==
    /\ Ids \subseteq 0..(IdSpace - 1)
    /\ emptyPointsToId \in Ids
    /\ idToPts \in [Ids -> PTS]
    /\ DOMAIN ptsToId \subseteq PTS
    /\ \A p \in DOMAIN ptsToId : ptsToId[p] \in Ids
    /\ MemoTable(unionCache) /\ MemoTable(complementCache) /\ MemoTable(intersectionCache)
    /\ idCounter \in 0..(IdSpace - 1)
    /\ answer.op \in {"none", "emplace", "union", "complement", "intersection"}
    /\ answer.lhs \in Ids /\ answer.rhs \in Ids /\ answer.id \in Ids
    /\ exhausted \in BOOLEAN

(***************************************************************************)
(* Hash-consing: ids and sets correspond one to one, id 0 is the empty     *)
(* set.  The clients compare ids where they mean sets: `newDstId != dstId` *)
(* is "the set changed", `diffId != emptyPointsToId()` is "something to    *)
(* propagate" (PersistentPointsToDS.h).                                    *)
(***************************************************************************)
HashConsing ==
    /\ idToPts[emptyPointsToId] = {}
    /\ \A i \in Ids : Stored(idToPts[i]) /\ ptsToId[idToPts[i]] = i
    /\ \A p \in DOMAIN ptsToId : idToPts[ptsToId[p]] = p

(***************************************************************************)
(* Whatever the order of the calls that filled it, a memoised union is the *)
(* union.  Entries come from unions and from intersections, under sorted   *)
(* keys.                                                                   *)
(***************************************************************************)
UnionCacheSound ==
    \A k \in DOMAIN unionCache :
        /\ k = minmax(k[1], k[2])
        /\ idToPts[unionCache[k]] = UnionOp(k[1], k[2])

(***************************************************************************)
(* A memoised relative complement is the relative complement, for ordered  *)
(* operands.                                                               *)
(***************************************************************************)
ComplementCacheSound ==
    \A k \in DOMAIN complementCache :
        idToPts[complementCache[k]] = ComplementOp(k[1], k[2])

(***************************************************************************)
(* The intersection table can be wrong in one way only: of two sets one of *)
(* which contains the other, an entry may be the larger.                   *)
(***************************************************************************)
MeetOrLarger(meet, x, y) ==
    \/ meet = x \cap y
    \/ meet = x \cup y /\ (x \subseteq y \/ y \subseteq x)

IntersectionCacheBounds ==
    \A k \in DOMAIN intersectionCache :
        /\ k = minmax(k[1], k[2])
        /\ MeetOrLarger(idToPts[intersectionCache[k]], idToPts[k[1]], idToPts[k[2]])

(***************************************************************************)
(* What a client relies on: the id that unionPts or complementPts returns, *)
(* by a property case, from the table or from the operation, names exactly *)
(* the set it asked for, and intersectPts errs only as its table does.     *)
(***************************************************************************)
AnswerExact ==
    /\ answer.op = "union" =>
           idToPts[answer.id] = UnionOp(answer.lhs, answer.rhs)
    /\ answer.op = "complement" =>
           idToPts[answer.id] = ComplementOp(answer.lhs, answer.rhs)
    /\ answer.op = "intersection" =>
           MeetOrLarger(idToPts[answer.id], idToPts[answer.lhs], idToPts[answer.rhs])

(***************************************************************************)
(* An id handed out names the same set for ever: the persistent structures *)
(* store ids and other analyses keep calling the shared cache.             *)
(***************************************************************************)
IdsAreStable ==
    [][\A i \in Ids : i \in Ids' /\ idToPts'[i] = idToPts[i]]_vars
=============================================================================
