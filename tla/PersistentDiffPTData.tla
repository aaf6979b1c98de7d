------------------------ MODULE PersistentDiffPTData ------------------------
(***************************************************************************)
(* PersistentDiffPTData: the same operations over hash-consed sets.  A key *)
(* has the PointsToID of its set, and every operation is a few calls of    *)
(* the process-wide PersistentPointsToCache, whose memo tables outlive the *)
(* structure.  Comparisons of sets are comparisons of ids.                 *)
(*                                                                         *)
(* An operation that first interns its argument (emplacePts) and then      *)
(* performs a set operation takes two steps; `call` is what it still has   *)
(* to do.  The cache running out of ids is the subject of PointsToCache;   *)
(* here it ends the behaviour.                                             *)
(***************************************************************************)
EXTENDS PointsToCache

CONSTANT Keys       \* the nodes that have points-to sets

VARIABLES
    ptsMap, diffPtsMap, propaPtsMap,    \* key -> PointsToID
    revPtsMap,                          \* object -> keys
    result,                             \* what the last operation returned
    call                                \* the operation in progress

mapVars == <<ptsMap, revPtsMap, diffPtsMap, propaPtsMap, result>>
persVars == <<mapVars, call, vars>>

NoCall == [op |-> "none"]
NoIds == [k \in Keys |-> emptyPointsToId]

PersInit ==
    /\ Init
    /\ ptsMap = NoIds
    /\ revPtsMap = [o \in Objs |-> {}]
    /\ diffPtsMap = NoIds
    /\ propaPtsMap = NoIds
    /\ result = FALSE
    /\ call = NoCall

\* The three operations of the cache, on whichever of their paths.
CacheUnion(l, r) ==
    unionByProperty(l, r) \/ unionByLookup(l, r) \/ unionByOperation(l, r)
CacheComplement(l, r) ==
    \/ complementByProperty(l, r)
    \/ complementByLookup(l, r)
    \/ complementByOperation(l, r)
CacheIntersect(l, r) ==
    \/ intersectByProperty(l, r)
    \/ intersectByLookup(l, r)
    \/ intersectByOperation(l, r)

addRevPts(pts, key) ==
    [o \in Objs |-> IF o \in pts THEN revPtsMap[o] \cup {key} ELSE revPtsMap[o]]
clearRevPts(pts, key) ==
    [o \in Objs |-> IF o \in pts THEN revPtsMap[o] \ {key} ELSE revPtsMap[o]]

----------------------------------------------------------------------------
(***************************************************************************)
(* unionPtsFromId, where addPts and both forms of unionPts end.  Reverse   *)
(* points-to sets are touched only when dst's set has changed.             *)
(***************************************************************************)
unionPtsFromIdMutant(dstKey, srcId) ==
    /\ CacheUnion(ptsMap[dstKey], srcId)
    /\ LET newDstId == answer'.id
       IN  /\ result' = (newDstId # srcId)
           /\ ptsMap' = [ptsMap EXCEPT ![dstKey] = newDstId]
           /\ revPtsMap' = IF newDstId = srcId THEN revPtsMap
                           ELSE addRevPts(idToPts[srcId], dstKey)
    /\ call' = NoCall
    /\ UNCHANGED <<diffPtsMap, propaPtsMap>>

unionPtsFromId(dstKey, srcId) ==
    /\ CacheUnion(ptsMap[dstKey], srcId)
    /\ LET newDstId == answer'.id
       IN  /\ result' = (newDstId # ptsMap[dstKey])
           /\ ptsMap' = [ptsMap EXCEPT ![dstKey] = newDstId]
           /\ revPtsMap' = IF newDstId = ptsMap[dstKey] THEN revPtsMap
                           ELSE addRevPts(idToPts[srcId], dstKey)
    /\ call' = NoCall
    /\ UNCHANGED <<diffPtsMap, propaPtsMap>>

unionPtsOfKey(dstKey, srcKey) ==
    /\ call = NoCall
    /\ unionPtsFromId(dstKey, ptsMap[srcKey])

\* unionPts with a set; addPts passes the set of its element.
unionPtsOfSet(dstKey, srcData) ==
    /\ call = NoCall
    /\ emplacePts(srcData)
    /\ call' = [op |-> "union", key |-> dstKey]
    /\ UNCHANGED mapVars

finishUnion ==
    /\ call.op = "union"
    /\ unionPtsFromId(call.key, answer.id)

clearPts(var, element) ==
    /\ call = NoCall
    /\ emplacePts({element})
    /\ call' = [op |-> "clear", key |-> var, element |-> element]
    /\ UNCHANGED mapVars

finishClear ==
    /\ call.op = "clear"
    /\ CacheComplement(ptsMap[call.key], answer.id)
    /\ LET complementId == answer'.id
       IN  /\ ptsMap' = [ptsMap EXCEPT ![call.key] = complementId]
           /\ revPtsMap' = IF complementId = ptsMap[call.key] THEN revPtsMap
                           ELSE clearRevPts({call.element}, call.key)
    /\ call' = NoCall
    /\ UNCHANGED <<diffPtsMap, propaPtsMap, result>>

clearFullPtsMutant(var) ==
    /\ call = NoCall
    /\ ptsMap' = [ptsMap EXCEPT ![var] = emptyPointsToId]
    /\ revPtsMap' = clearRevPts(idToPts[ptsMap'[var]], var)
    /\ UNCHANGED <<diffPtsMap, propaPtsMap, result, call, vars>>

clearFullPts(var) ==
    /\ call = NoCall
    /\ revPtsMap' = clearRevPts(idToPts[ptsMap[var]], var)
    /\ ptsMap' = [ptsMap EXCEPT ![var] = emptyPointsToId]
    /\ UNCHANGED <<diffPtsMap, propaPtsMap, result, call, vars>>

\* `all` is getPts(var), which is stored: emplacePts only looks up its id.
computeDiffPts(var) ==
    LET allId == IdOf(idToPts[ptsMap[var]])
    IN  /\ call = NoCall
        /\ CacheComplement(allId, propaPtsMap[var])
        /\ LET diffId == answer'.id
           IN  /\ diffPtsMap' = [diffPtsMap EXCEPT ![var] = diffId]
               /\ result' = (diffId # emptyPointsToId)
        /\ propaPtsMap' = [propaPtsMap EXCEPT ![var] = allId]
        /\ UNCHANGED <<ptsMap, revPtsMap, call>>

updatePropaPtsMap(src, dst) ==
    /\ call = NoCall
    /\ CacheIntersect(propaPtsMap[dst], propaPtsMap[src])
    /\ propaPtsMap' = [propaPtsMap EXCEPT ![dst] = answer'.id]
    /\ UNCHANGED <<ptsMap, revPtsMap, diffPtsMap, result, call>>

clearPropaPts(var) ==
    /\ call = NoCall
    /\ propaPtsMap' = [propaPtsMap EXCEPT ![var] = emptyPointsToId]
    /\ UNCHANGED <<ptsMap, revPtsMap, diffPtsMap, result, call, vars>>

\* The next analysis of the process: new maps over the same, static cache.
newPTData ==
    /\ call = NoCall
    /\ ptsMap' = NoIds
    /\ revPtsMap' = [o \in Objs |-> {}]
    /\ diffPtsMap' = NoIds
    /\ propaPtsMap' = NoIds
    /\ result' = FALSE
    /\ UNCHANGED <<call, vars>>

PersNext ==
    \/ \E k \in Keys, pts \in SUBSET Objs : unionPtsOfSet(k, pts)
    \/ \E s, d \in Keys : unionPtsOfKey(d, s) \/ updatePropaPtsMap(s, d)
    \/ \E k \in Keys, o \in Objs : clearPts(k, o)
    \/ \E k \in Keys : clearFullPts(k) \/ computeDiffPts(k) \/ clearPropaPts(k)
    \/ finishUnion
    \/ finishClear
    \/ newPTData

PersSpec == PersInit /\ [][PersNext]_persVars

----------------------------------------------------------------------------
(***************************************************************************)
(* The structure as its clients see it, with sets in place of ids.         *)
(***************************************************************************)
Sets(map) == [k \in Keys |-> idToPts[map[k]]]

clientView ==
    <<Sets(ptsMap), revPtsMap, Sets(diffPtsMap), Sets(propaPtsMap), result>>

Mutable == INSTANCE MutableDiffPTData
    WITH ptsMap <- Sets(ptsMap), diffPtsMap <- Sets(diffPtsMap),
         propaPtsMap <- Sets(propaPtsMap)

(***************************************************************************)
(* The reverse map is the inverse of the points-to map, although unions    *)
(* that change nothing and removals of absent objects skip it.             *)
(* collapseField relies on it to find every pointer to a field.            *)
(***************************************************************************)
RevPtsInverse ==
    \A o \in Objs, k \in Keys : k \in revPtsMap[o] <=> o \in idToPts[ptsMap[k]]

(***************************************************************************)
(* Update dst's propagated points-to set with src's: the final result is   *)
(* the intersection of the two (AbstractPointsToDS.h).  A larger result    *)
(* makes the solver skip facts that one of two merged nodes never sent.    *)
(***************************************************************************)
PropaIsIntersection ==
    [][\A s, d \in Keys : updatePropaPtsMap(s, d) =>
           Sets(propaPtsMap)'[d] = Sets(propaPtsMap)[d] \cap Sets(propaPtsMap)[s]]_persVars

(***************************************************************************)
(* Choosing the persistent backing changes nothing but time and memory,    *)
(* with one exception: every step is a step of the mutable structure, or   *)
(* an intersection of two propagated sets, one of which contains the       *)
(* other, that yields the larger one.                                      *)
(***************************************************************************)
LargerPropa(s, d) ==
    LET propa == Sets(propaPtsMap)
    IN  /\ propa[s] \subseteq propa[d] \/ propa[d] \subseteq propa[s]
        /\ Sets(propaPtsMap)' = [propa EXCEPT ![d] = @ \cup propa[s]]
        /\ Sets(ptsMap)' = Sets(ptsMap)
        /\ Sets(diffPtsMap)' = Sets(diffPtsMap)
        /\ UNCHANGED <<revPtsMap, result>>

ImplementsMutable ==
    /\ Mutable!Init
    /\ [][Mutable!Next \/ \E s, d \in Keys : LargerPropa(s, d)]_clientView
=============================================================================
