---------------------------- MODULE MCAndersen ----------------------------
(***************************************************************************)
(* Programs for the solvers: all those in which each of a few pointers      *)
(* has one definition (LLVM values are in SSA form) - the address of an    *)
(* object, a load, a phi or copy, a gep - with any of the sets of stores   *)
(* given.                                                                  *)
(***************************************************************************)
EXTENDS Andersen, TLC

CONSTANTS
    Ptrs,       \* the pointers to define
    Derefs,     \* the pointers loads and stores go through
    PhiSources, \* what a phi may join ...
    GepSources, \* ... and what a gep may start from
    AddrObjs,   \* the objects whose address may be taken
    S, S1,      \* an object with two fields and the node of its second field
    x,          \* an object with one field
    StoreSets,  \* the sets of stores <<value, pointer>>
    MergeModes, \* the values of -merge-pwc
    Invariants  \* the values of the two invariant options

MCObjNodes == {S, S1, x}
MCNodes == Ptrs \cup Derefs \cup MCObjNodes
MCBase == S :> S @@ S1 :> S @@ x :> x
MCOffsets == {0, 1}
MCFields ==
    LET second == S :> S1 @@ S1 :> S @@ x :> x
    IN  [o \in MCObjNodes |-> [k \in MCOffsets |-> IF k = 0 THEN o ELSE second[o]]]

Singletons(set) == {{e} : e \in set}

Definitions(v) ==
    [kind : {"addr"}, from : Singletons(AddrObjs)]
    \cup [kind : {"load"}, from : Singletons(Derefs)]
    \cup [kind : {"phi"}, from : {f \in SUBSET (PhiSources \ {v}) : Cardinality(f) \in 1..2}]
    \cup [kind : {"normal", "variant"}, from : Singletons(GepSources \ {v})]

EdgesOf(def, kind) == UNION {def[v].from \X {v} : v \in {w \in Ptrs : def[w].kind = kind}}

ProgramOf(def, stores, merge, inv) ==
    [addr |-> EdgesOf(def, "addr"), copy |-> EdgesOf(def, "phi"),
     load |-> EdgesOf(def, "load"), store |-> stores,
     gep |-> {[src |-> e[1], dst |-> e[2], kind |-> def[e[2]].kind,
               off |-> IF def[e[2]].kind = "normal" THEN 1 ELSE 0, inst |-> e[2]] :
                  e \in EdgesOf(def, "normal") \cup EdgesOf(def, "variant")},
     calls |-> {}, mergePWC |-> merge,
     invariantPWC |-> inv, invariantVGEP |-> inv]

AllStores == SUBSET (Ptrs \X Derefs)

MCPrograms ==
    {ProgramOf(def, stores, merge, inv) :
        def \in {d \in [Ptrs -> UNION {Definitions(v) : v \in Ptrs}] :
                     \A v \in Ptrs : d[v] \in Definitions(v)},
        stores \in StoreSets, merge \in MergeModes, inv \in Invariants}
=============================================================================
