-------------------------- MODULE NodeIDAllocator --------------------------
(***************************************************************************)
(* The allocator of node ids and the graph that uses them.  Ids are given  *)
(* to the symbols of the module first, then to the nodes that building and *)
(* solving the program assignment graph (PAG) add: dummy objects, field    *)
(* values, and field (gep) objects of an object.  The allocator is a       *)
(* singleton that outlives the graph: resetPAG starts the second round of  *)
(* the pipeline on an empty graph, with the counters where they were.      *)
(*                                                                         *)
(* NodeID is unsigned with UINT_MAX = MaxId.                               *)
(***************************************************************************)
EXTENDS Naturals

CONSTANTS
    Strategies,     \* the values of -node-alloc-strat under study
    MaxId,          \* UINT_MAX
    MaxFieldLimit,  \* -field-limit: offsets are below it
    PowerAbove,     \* x -> pow(10, ceil(log10(x))): the next power of ten
    MaxAllocations, \* bound: ids handed out in all rounds
    MaxRounds       \* bound: rounds of the pipeline

Ids == 0..MaxId
Specials == 0..3    \* black hole, constant, black hole pointer, null pointer
Offsets == 0..(MaxFieldLimit - 1)

ASSUME AllocatorAssumption ==
    /\ Strategies \subseteq {"DENSE", "SEQ", "DEBUG"}
    /\ MaxId \in Nat /\ MaxId > 4
    /\ MaxFieldLimit \in Nat \ {0}
    /\ PowerAbove \in [Ids -> Nat]
    /\ \A x \in Ids : PowerAbove[x] >= x
    /\ MaxAllocations \in Nat /\ MaxAllocations + 4 \in Ids
    /\ MaxFieldLimit \in Ids
    /\ MaxRounds \in Nat

VARIABLES
    strategy,
    numObjects, numValues, numSymbols, numNodes,
    collecting,     \* before endSymbolAllocation
    round,
    nodes,          \* the ids of the graph's nodes
    objects,        \* those of base objects
    gepNodes,       \* <<base, offset>> pairs that have a node
    clashed         \* the graph's assertion on ids has failed

counters == <<numObjects, numValues, numNodes>>
vars == <<strategy, counters, numSymbols, collecting, round, nodes, objects, gepNodes, clashed>>

TypeOK ==
    /\ strategy \in Strategies
    /\ numObjects \in 4..numNodes
    /\ numValues \in 4..numNodes
    /\ numObjects + numValues = numNodes + 4
    /\ numNodes \in 4..MaxAllocations + 4
    /\ numSymbols \in 4..numNodes
    /\ collecting \in BOOLEAN /\ clashed \in BOOLEAN
    /\ round \in Nat
    /\ nodes \subseteq Ids
    /\ objects \subseteq nodes
    /\ gepNodes \subseteq objects \X Offsets

Init ==
    /\ strategy \in Strategies
    /\ numObjects = 4 /\ numValues = 4 /\ numSymbols = 4 /\ numNodes = 4
    /\ collecting = TRUE
    /\ round = 1
    /\ nodes = Specials
    /\ objects = {}
    /\ gepNodes = {}
    /\ clashed = FALSE

(***************************************************************************)
(* addValNode and addObjNode, with their assertion that the id is free.    *)
(***************************************************************************)
addNode(id) ==
    /\ clashed' = (id \in nodes)
    /\ nodes' = nodes \cup {id}

CanAllocate == ~clashed /\ numNodes < MaxAllocations + 4

allocateObjectIdMutant == IF strategy = "DENSE" THEN numNodes ELSE numObjects

allocateObjectId == IF strategy = "DENSE" THEN numObjects ELSE numNodes

AddObj ==
    /\ CanAllocate
    /\ allocateObjectId # 0
    /\ addNode(allocateObjectId)
    /\ objects' = objects \cup {allocateObjectId}
    /\ numObjects' = numObjects + 1
    /\ numNodes' = numNodes + 1
    /\ UNCHANGED <<strategy, numValues, numSymbols, collecting, round, gepNodes>>

allocateValueId == IF strategy = "DENSE" THEN MaxId - numValues ELSE numNodes

AddVal ==
    /\ CanAllocate
    /\ allocateValueId # 0
    /\ addNode(allocateValueId)
    /\ numValues' = numValues + 1
    /\ numNodes' = numNodes + 1
    /\ UNCHANGED <<strategy, numObjects, numSymbols, collecting, round, objects, gepNodes>>

endSymbolAllocation ==
    /\ collecting /\ ~clashed
    /\ collecting' = FALSE
    /\ numSymbols' = numNodes
    /\ UNCHANGED <<strategy, counters, round, nodes, objects, gepNodes, clashed>>

gepMultiplier ==
    PowerAbove[IF numSymbols > MaxFieldLimit THEN numSymbols ELSE MaxFieldLimit]

DebugGepId(base, offset) == (offset + 1) * gepMultiplier + base

allocateGepObjectId(base, offset) ==
    CASE strategy = "DENSE" -> numObjects
      [] strategy = "SEQ" -> numNodes
      [] strategy = "DEBUG" -> DebugGepId(base, offset) % (MaxId + 1)

(***************************************************************************)
(* addGepObjNode, called when the base has no node at the offset yet.  The *)
(* two assertions of allocateGepObjectId are the guard: they end the run.  *)
(***************************************************************************)
AddGepObj(base, offset) ==
    LET id == allocateGepObjectId(base, offset) IN
    /\ CanAllocate /\ ~collecting
    /\ <<base, offset>> \notin gepNodes
    /\ id # 0 /\ (strategy = "DEBUG" => id > numSymbols)
    /\ addNode(id)
    /\ gepNodes' = gepNodes \cup {<<base, offset>>}
    /\ numObjects' = numObjects + 1
    /\ numNodes' = numNodes + 1
    /\ UNCHANGED <<strategy, numValues, numSymbols, collecting, round, objects>>

(***************************************************************************)
(* Between the rounds: resetPAG, releaseSymbolInfo, buildSymbolTableInfo.  *)
(***************************************************************************)
resetPAG ==
    /\ ~collecting /\ ~clashed /\ round < MaxRounds
    /\ round' = round + 1
    /\ collecting' = TRUE
    /\ nodes' = Specials
    /\ objects' = {} /\ gepNodes' = {}
    /\ UNCHANGED <<strategy, counters, numSymbols, clashed>>

Next ==
    \/ AddObj
    \/ AddVal
    \/ endSymbolAllocation
    \/ \E base \in objects, offset \in Offsets : AddGepObj(base, offset)
    \/ resetPAG

Spec == Init /\ [][Next]_vars
-----------------------------------------------------------------------------
(***************************************************************************)
(* addValNode and addObjNode: "This NodeID clashes here. Please check      *)
(* NodeIDAllocator. Switch Strategy::DEBUG to SEQ or DENSE".               *)
(* Where that assertion can fail: never for SEQ, for DENSE only when the   *)
(* ids of objects and values have met, and for DEBUG only when the counter *)
(* has passed the multiplier that sets field objects apart or their ids do *)
(* not fit the type.                                                       *)
(***************************************************************************)
ClashesExplained ==
    clashed =>
        \/ strategy = "DENSE" /\ numObjects + numValues > MaxId
        \/ /\ strategy = "DEBUG"
           /\ numNodes > gepMultiplier \/ (MaxFieldLimit + 1) * gepMultiplier > MaxId
=============================================================================
