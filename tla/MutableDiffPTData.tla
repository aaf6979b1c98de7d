------------------------- MODULE MutableDiffPTData -------------------------
(***************************************************************************)
(* MutableDiffPTData: the points-to sets of an analysis with the part that *)
(* is still to be propagated (diff) and the part that has been (propa).    *)
(* Every key has sets of its own that are updated in place, so this module *)
(* is also the reference for the structures that share their sets.         *)
(*                                                                         *)
(* Reverse points-to sets are maintained, as they are whenever the field   *)
(* limit is not zero.  `result` is the Boolean the last operation          *)
(* returned: the solver pushes a key onto its work list when it is TRUE.   *)
(***************************************************************************)
EXTENDS FiniteSets

CONSTANTS
    Keys,   \* the nodes that have points-to sets
    Objs    \* the objects in them

VARIABLES ptsMap, revPtsMap, diffPtsMap, propaPtsMap, result

mutVars == <<ptsMap, revPtsMap, diffPtsMap, propaPtsMap, result>>

NoSets == [k \in Keys |-> {}]

\* A new structure: a map gives the empty set for a key it has not seen.
Init ==
    /\ ptsMap = NoSets
    /\ revPtsMap = [o \in Objs |-> {}]
    /\ diffPtsMap = NoSets
    /\ propaPtsMap = NoSets
    /\ result = FALSE

addRevPts(pts, key) ==
    [o \in Objs |-> IF o \in pts THEN revPtsMap[o] \cup {key} ELSE revPtsMap[o]]
clearRevPts(pts, key) ==
    [o \in Objs |-> IF o \in pts THEN revPtsMap[o] \ {key} ELSE revPtsMap[o]]

\* addPts and both forms of unionPts: they differ in where srcData comes from.
unionPts(dstKey, srcData) ==
    /\ revPtsMap' = addRevPts(srcData, dstKey)
    /\ ptsMap' = [ptsMap EXCEPT ![dstKey] = @ \cup srcData]
    /\ result' = ~(srcData \subseteq ptsMap[dstKey])
    /\ UNCHANGED <<diffPtsMap, propaPtsMap>>

clearPts(var, element) ==
    /\ revPtsMap' = clearRevPts({element}, var)
    /\ ptsMap' = [ptsMap EXCEPT ![var] = @ \ {element}]
    /\ UNCHANGED <<diffPtsMap, propaPtsMap, result>>

clearFullPts(var) ==
    /\ revPtsMap' = clearRevPts(ptsMap[var], var)
    /\ ptsMap' = [ptsMap EXCEPT ![var] = {}]
    /\ UNCHANGED <<diffPtsMap, propaPtsMap, result>>

\* The analysis always passes all points-to information of var.
computeDiffPts(var) ==
    LET all == ptsMap[var]
    IN  /\ diffPtsMap' = [diffPtsMap EXCEPT ![var] = all \ propaPtsMap[var]]
        /\ propaPtsMap' = [propaPtsMap EXCEPT ![var] = all]
        /\ result' = (all \ propaPtsMap[var] # {})
        /\ UNCHANGED <<ptsMap, revPtsMap>>

updatePropaPtsMap(src, dst) ==
    /\ propaPtsMap' = [propaPtsMap EXCEPT ![dst] = @ \cap propaPtsMap[src]]
    /\ UNCHANGED <<ptsMap, revPtsMap, diffPtsMap, result>>

clearPropaPts(var) ==
    /\ propaPtsMap' = [propaPtsMap EXCEPT ![var] = {}]
    /\ UNCHANGED <<ptsMap, revPtsMap, diffPtsMap, result>>

\* The next analysis of the process constructs a structure of its own.
newPTData ==
    /\ ptsMap' = NoSets
    /\ revPtsMap' = [o \in Objs |-> {}]
    /\ diffPtsMap' = NoSets
    /\ propaPtsMap' = NoSets
    /\ result' = FALSE

Next ==
    \/ \E k \in Keys, pts \in SUBSET Objs : unionPts(k, pts)
    \/ \E k \in Keys, o \in Objs : clearPts(k, o)
    \/ \E k \in Keys : clearFullPts(k) \/ computeDiffPts(k) \/ clearPropaPts(k)
    \/ \E s, d \in Keys : updatePropaPtsMap(s, d)
    \/ newPTData

Spec == Init /\ [][Next]_mutVars
=============================================================================
