-------------------------- MODULE ConstraintGraph --------------------------
(***************************************************************************)
(* The constraint graph of the inclusion-based pointer analyses and the    *)
(* memory objects its nodes stand for: copy, gep, load and store edges,    *)
(* the representative and sub nodes of every merged node, and the way the  *)
(* edges of a node move when it is merged.  Address edges act once, at     *)
(* initialisation, so they belong to the program and not to the graph.     *)
(*                                                                         *)
(* A field node nobody has asked for yet has no edge and an empty points-  *)
(* to set, so every node of the universe is in the graph from the start    *)
(* and `fields` says which field nodes the code has created.               *)
(***************************************************************************)
EXTENDS Naturals, FiniteSets

CONSTANTS
    Nodes,          \* pointers and memory objects
    ObjNodes,       \* the memory objects among them: base objects and fields
    Base,           \* ObjNodes -> ObjNodes, the base object of an object
    Offsets,        \* the field offsets gep instructions use
    FieldOf,        \* ObjNodes -> Offsets -> ObjNodes, offsets taken modulo
    StructObjs,     \* base objects of a struct type ...
    ArrayObjs,      \* ... and of an array type
    OpaqueObjs,     \* the black hole and the constant objects
    PointerlessObjs \* constant objects and those that hold no pointer

ASSUME GraphAssumption ==
    /\ IsFiniteSet(Nodes)
    /\ ObjNodes \subseteq Nodes
    /\ Base \in [ObjNodes -> ObjNodes]
    /\ \A o \in ObjNodes : Base[Base[o]] = Base[o]
    /\ Offsets \subseteq Nat /\ 0 \in Offsets
    /\ FieldOf \in [ObjNodes -> [Offsets -> ObjNodes]]
    /\ \A o \in ObjNodes, k \in Offsets : Base[FieldOf[o][k]] = Base[o]
    /\ \A o \in ObjNodes : FieldOf[o][0] = o
    /\ StructObjs \subseteq ObjNodes /\ ArrayObjs \subseteq ObjNodes
    /\ OpaqueObjs \subseteq ObjNodes
    /\ PointerlessObjs \subseteq ObjNodes
    /\ \A o \in ObjNodes : Base[o] \in PointerlessObjs => o \in PointerlessObjs

VARIABLES
    copyE,              \* copy edges <<src, dst>>
    gepE,               \* gep edges, see GepEdges
    loadE,              \* <<pointer, dst>>
    storeE,             \* <<src, pointer>>
    rep,                \* nodeToRepMap, the identity where it has no entry
    subs,               \* nodeToSubsMap
    fields,             \* the field objects created so far (memToFieldsMap)
    fieldInsensitive    \* base objects that have lost their fields

graphVars == <<copyE, gepE, loadE, storeE, rep, subs>>

Edges == Nodes \X Nodes

\* inst is the gep instruction, named by the pointer it defines.
GepEdges == [src : Nodes, dst : Nodes, kind : {"normal", "variant"},
             off : Offsets, inst : Nodes]

sccRepNode(n) == rep[n]
Reps == {n \in Nodes : rep[n] = n}

(***************************************************************************)
(* getGepObjNode: the field of an object, or its base once the object is   *)
(* field insensitive.  Base and first field are one node (FirstFieldEqBase)*)
(***************************************************************************)
GepObjNodeMutant(o, k, insensitive) == FieldOf[o][k]

GepObjNode(o, k, insensitive) ==
    IF Base[o] \in insensitive THEN Base[o] ELSE FieldOf[o][k]

AllFieldsObjNode(b) == {f \in fields : Base[f] = b} \ {b}

isZeroOffsettedGepCGEdgeMutant(g) == g.off = 0

isZeroOffsettedGepCGEdge(g) == g.kind = "normal" /\ g.off = 0

(***************************************************************************)
(* moveEdgesToRepNode.  Edges between the two nodes disappear (copy, gep)  *)
(* or become self edges (load, store); a gep edge that is lost this way    *)
(* and has an offset is critical.  A moved edge that meets an edge of its  *)
(* kind between the same nodes is dropped, whatever its offset.            *)
(***************************************************************************)
Retarget(x, node, r) == IF x = node THEN r ELSE x
RetargetEdge(e, node, r) == <<Retarget(e[1], node, r), Retarget(e[2], node, r)>>
RetargetGep(g, node, r) ==
    [g EXCEPT !.src = Retarget(g.src, node, r), !.dst = Retarget(g.dst, node, r)]

Touches(g, node) == node \in {g.src, g.dst}
InsideScc(node, r) ==
    {g \in gepE : Touches(g, node) /\ {g.src, g.dst} \subseteq {node, r}}
CriticalGeps(node, r) == {g \in InsideScc(node, r) : ~isZeroOffsettedGepCGEdge(g)}

SameKey(g, h) == g.src = h.src /\ g.dst = h.dst /\ g.kind = h.kind
MovedGeps(node, r) ==
    LET kept  == {g \in gepE : ~Touches(g, node)}
        moved == {RetargetGep(g, node, r) :
                      g \in {h \in gepE : Touches(h, node)} \ InsideScc(node, r)}
    IN  kept \cup {g \in moved : \A h \in kept : ~SameKey(g, h)}

MovedCopies(node, r) ==
    {e \in {RetargetEdge(e, node, r) : e \in copyE} : e[1] # e[2]}

moveEdgesToRepNode(node, r) ==
    /\ copyE' = MovedCopies(node, r)
    /\ gepE' = MovedGeps(node, r)
    /\ loadE' = {RetargetEdge(e, node, r) : e \in loadE}
    /\ storeE' = {RetargetEdge(e, node, r) : e \in storeE}

(***************************************************************************)
(* updateNodeRepAndSubs                                                    *)
(***************************************************************************)
updateNodeRepAndSubsMutant(node, r) ==
    /\ rep' = [rep EXCEPT ![node] = r]
    /\ subs' = [subs EXCEPT ![r] = @ \cup subs[node] \cup {node}, ![node] = {}]

updateNodeRepAndSubs(node, r) ==
    /\ rep' = [m \in Nodes |-> IF m = node \/ m \in subs[node] THEN r ELSE rep[m]]
    /\ subs' = [m \in Nodes |->
                    IF m = r THEN subs[r] \cup subs[node] \cup {node}
                    ELSE IF m = node THEN {} ELSE subs[m]]

(***************************************************************************)
(* cleanConsCG: forget the representative and the sub nodes of a field     *)
(* node that is about to leave the PAG.                                    *)
(***************************************************************************)
SubsAfterRepReset(n) ==
    IF rep[n] = n THEN subs ELSE [subs EXCEPT ![rep[n]] = {}]

cleanConsCG(n) ==
    /\ rep' = [m \in Nodes |->
                   IF m = n \/ m \in SubsAfterRepReset(n)[n] THEN m ELSE rep[m]]
    /\ subs' = [SubsAfterRepReset(n) EXCEPT ![n] = {}]

(***************************************************************************)
(* SCC detection over the representatives: what SCCDetection computes,     *)
(* the strongly connected components of the copy edges, and of the gep     *)
(* edges too when positive weight cycles are merged.                       *)
(***************************************************************************)
DirectEdges(withGeps) ==
    copyE \cup IF withGeps THEN {<<g.src, g.dst>> : g \in gepE} ELSE {}

Onwards(reached, edges) == reached \cup {e[2] : e \in {x \in edges : x[1] \in reached}}
ReachableFrom(n, edges) ==
    LET step[k \in 0..Cardinality(Nodes)] ==
            IF k = 0 THEN {n}
            ELSE UNION {Onwards(reached, edges) : reached \in {step[k - 1]}}
    IN  step[Cardinality(Nodes)]

\* Nodes are in one component if they reach the same.
Components(edges) ==
    LET reach == [n \in Reps |-> ReachableFrom(n, edges)]
    IN  {{m \in Reps : reach[m] = reach[n]} : n \in Reps}
=============================================================================
