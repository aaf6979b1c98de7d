----------------------- MODULE NodeIDAllocatorProofs -----------------------
(***************************************************************************)
(* When two nodes of the graph can get the same id, for every width of     *)
(* NodeID, field limit, strategy and order of allocations.                 *)
(***************************************************************************)
EXTENDS NodeIDAllocator, TLAPS

(***************************************************************************)
(* The multiplier of DEBUG ids is at least the number of symbols.          *)
(***************************************************************************)
LEMMA MultiplierBounds ==
    ASSUME TypeOK
    PROVE  gepMultiplier \in Nat /\ gepMultiplier >= numSymbols /\ gepMultiplier > 0
<1> DEFINE x == IF numSymbols > MaxFieldLimit THEN numSymbols ELSE MaxFieldLimit
<1>1. x \in Ids /\ x >= numSymbols /\ x > 0
  BY AllocatorAssumption DEF TypeOK, Ids
<1> HIDE DEF x
<1>2. PowerAbove[x] \in Nat /\ PowerAbove[x] >= x
  BY <1>1, AllocatorAssumption
<1>3. x \in Nat /\ numSymbols \in Nat
  BY <1>1 DEF TypeOK, Ids
<1>4. gepMultiplier = PowerAbove[x]
  BY DEF gepMultiplier, x
<1> QED
  BY <1>1, <1>2, <1>3, <1>4

(***************************************************************************)
(* The counters and their bounds as plain facts.                           *)
(***************************************************************************)
LEMMA CounterTypes ==
    ASSUME TypeOK
    PROVE  /\ numNodes \in Nat /\ numObjects \in Nat /\ numValues \in Nat /\ numSymbols \in Nat
           /\ MaxAllocations \in Nat /\ MaxId \in Nat /\ MaxAllocations + 4 <= MaxId
           /\ MaxFieldLimit \in Nat
           /\ numNodes <= MaxAllocations + 4
           /\ numObjects <= numNodes /\ numValues <= numNodes
           /\ \A base \in objects : base \in Nat
BY AllocatorAssumption DEF TypeOK, Ids

(***************************************************************************)
(* Whatever an allocation returns is a NodeID.                             *)
(***************************************************************************)
LEMMA FreshIdType ==
    ASSUME TypeOK
    PROVE  /\ allocateObjectId \in Ids /\ allocateValueId \in Ids
           /\ \A base \in objects, offset \in Offsets :
                  allocateGepObjectId(base, offset) \in Ids
<1>1. allocateObjectId \in Ids /\ allocateValueId \in Ids
  BY CounterTypes DEF Ids, allocateObjectId, allocateValueId
<1>2. ASSUME NEW base \in objects, NEW offset \in Offsets
      PROVE  allocateGepObjectId(base, offset) \in Ids
  <2>0. base \in Nat /\ offset \in Nat /\ gepMultiplier \in Nat
    BY CounterTypes, MultiplierBounds DEF Offsets
  <2>1. DebugGepId(base, offset) \in Nat
    BY <2>0 DEF DebugGepId
  <2> HIDE DEF DebugGepId
  <2>2. DebugGepId(base, offset) % (MaxId + 1) \in Ids
    BY <2>1, CounterTypes DEF Ids
  <2>3. numObjects \in Ids /\ numNodes \in Ids
    BY CounterTypes DEF Ids
  <2>4. strategy \in {"DENSE", "SEQ", "DEBUG"}
    BY AllocatorAssumption DEF TypeOK
  <2> QED
    BY <2>2, <2>3, <2>4 DEF allocateGepObjectId
<1> QED
  BY <1>1, <1>2

(***************************************************************************)
(* What an allocation does to the counters.                                *)
(***************************************************************************)
CountersOK ==
    /\ numObjects \in 4..numNodes /\ numValues \in 4..numNodes
    /\ numObjects + numValues = numNodes + 4
    /\ numNodes \in 4..MaxAllocations + 4
    /\ numSymbols \in 4..numNodes

(***************************************************************************)
(* Each allocation counts one node, as an object or as a value.            *)
(***************************************************************************)
LEMMA CountersStep ==
    ASSUME TypeOK, CanAllocate, numNodes' = numNodes + 1, UNCHANGED numSymbols,
           \/ numObjects' = numObjects + 1 /\ UNCHANGED numValues
           \/ numValues' = numValues + 1 /\ UNCHANGED numObjects
    PROVE  CountersOK'
BY CounterTypes DEF TypeOK, CountersOK, CanAllocate

(***************************************************************************)
(* The allocator and the graph keep their types.                           *)
(***************************************************************************)
THEOREM TypeCorrect == Spec => []TypeOK
<1>1. Init => TypeOK
  <2> SUFFICES ASSUME Init PROVE TypeOK
    OBVIOUS
  <2>1. MaxAllocations \in Nat /\ nodes \subseteq Ids
    BY AllocatorAssumption DEF Init, Specials, Ids
  <2>2. CountersOK
    BY <2>1 DEF Init, CountersOK
  <2> QED
    BY <2>1, <2>2 DEF Init, TypeOK, CountersOK
<1>2. TypeOK /\ [Next]_vars => TypeOK'
  <2> SUFFICES ASSUME TypeOK, [Next]_vars PROVE TypeOK'
    OBVIOUS
  <2>1. CASE AddObj
    <3>1. CountersOK'
      BY <2>1, CountersStep DEF AddObj
    <3>2. nodes' \subseteq Ids /\ objects' \subseteq nodes'
      BY <2>1, FreshIdType DEF AddObj, addNode, TypeOK
    <3> QED
      BY <2>1, <3>1, <3>2 DEF AddObj, addNode, TypeOK, CountersOK
  <2>2. CASE AddVal
    <3>1. CountersOK'
      BY <2>2, CountersStep DEF AddVal
    <3>2. nodes' \subseteq Ids /\ objects' \subseteq nodes'
      BY <2>2, FreshIdType DEF AddVal, addNode, TypeOK
    <3> QED
      BY <2>2, <3>1, <3>2 DEF AddVal, addNode, TypeOK, CountersOK
  <2>3. CASE endSymbolAllocation
    <3>1. numSymbols' \in 4..numNodes' /\ UNCHANGED counters
      BY <2>3, CounterTypes DEF endSymbolAllocation, counters, TypeOK
    <3> QED
      BY <2>3, <3>1 DEF endSymbolAllocation, counters, TypeOK
  <2>4. ASSUME NEW base \in objects, NEW offset \in Offsets, AddGepObj(base, offset)
        PROVE  TypeOK'
    <3>1. CountersOK'
      BY <2>4, CountersStep DEF AddGepObj
    <3>2. nodes' \subseteq Ids /\ objects' \subseteq nodes'
      BY <2>4, FreshIdType DEF AddGepObj, addNode, TypeOK
    <3> QED
      BY <2>4, <3>1, <3>2 DEF AddGepObj, addNode, TypeOK, CountersOK
  <2>5. CASE resetPAG
    <3>1. nodes' \subseteq Ids
      BY <2>5, AllocatorAssumption DEF resetPAG, Specials, Ids
    <3> QED
      BY <2>5, <3>1 DEF resetPAG, counters, TypeOK
  <2>6. CASE UNCHANGED vars
    BY <2>6 DEF vars, counters, TypeOK
  <2> QED
    BY <2>1, <2>2, <2>3, <2>4, <2>5, <2>6 DEF Next
<1> QED
  BY <1>1, <1>2, PTL DEF Spec

(***************************************************************************)
(* Which ids are in use: those below a counter, those above the one that   *)
(* counts down, and the ids of field objects under DEBUG.                  *)
(***************************************************************************)
Numbered(n) ==
    CASE strategy = "SEQ" -> n < numNodes
      [] strategy = "DENSE" -> n < numObjects \/ n > MaxId - numValues
      [] strategy = "DEBUG" ->
            \/ n < numNodes
            \/ \E b \in objects, o \in Offsets :
                   <<b, o>> \in gepNodes /\ n = DebugGepId(b, o) % (MaxId + 1)

NodesNumbered ==
    /\ \A n \in nodes : Numbered(n)
    /\ strategy = "DEBUG" => \A b \in objects : b < numNodes
    /\ collecting => gepNodes = {}

(***************************************************************************)
(* The three strategies of -node-alloc-strat.                              *)
(***************************************************************************)
LEMMA StrategyCases ==
    ASSUME TypeOK
    PROVE  strategy = "SEQ" \/ strategy = "DENSE" \/ strategy = "DEBUG"
BY AllocatorAssumption DEF TypeOK

(***************************************************************************)
(* An id that is accounted for stays so while the counters and the field   *)
(* nodes grow.                                                             *)
(***************************************************************************)
LEMMA NumberedKept ==
    ASSUME TypeOK, NEW n \in nodes, Numbered(n), strategy' = strategy,
           numNodes' >= numNodes, numNodes' \in Nat,
           numObjects' >= numObjects, numObjects' \in Nat,
           numValues' >= numValues, numValues' \in Nat,
           objects \subseteq objects', gepNodes \subseteq gepNodes',
           gepMultiplier' = gepMultiplier
    PROVE  Numbered(n)'
<1>0. n \in Nat
  BY DEF TypeOK, Ids
<1>1. CASE strategy = "SEQ"
  BY <1>0, <1>1, CounterTypes DEF Numbered
<1>2. CASE strategy = "DENSE"
  BY <1>0, <1>2, CounterTypes DEF Numbered
<1>3. CASE strategy = "DEBUG"
  <2>1. CASE n < numNodes
    BY <1>0, <1>3, <2>1, CounterTypes DEF Numbered
  <2>2. CASE ~(n < numNodes)
    <3>1. PICK b \in objects, o \in Offsets :
              <<b, o>> \in gepNodes /\ n = DebugGepId(b, o) % (MaxId + 1)
      BY <1>3, <2>2 DEF Numbered
    <3>2. b \in objects' /\ <<b, o>> \in gepNodes' /\ n = (DebugGepId(b, o) % (MaxId + 1))'
      BY <3>1 DEF DebugGepId
    <3> QED
      BY <1>3, <3>2 DEF Numbered
  <2> QED
    BY <2>1, <2>2
<1> QED
  BY <1>1, <1>2, <1>3, StrategyCases

(***************************************************************************)
(* Every node's id is accounted for, in every round.                       *)
(***************************************************************************)
LEMMA NodesNumberedInvariant == Spec => []NodesNumbered
<1>1. Init => NodesNumbered
  <2> SUFFICES ASSUME Init PROVE NodesNumbered
    OBVIOUS
  <2>1. strategy \in {"SEQ", "DENSE", "DEBUG"}
    BY AllocatorAssumption DEF Init
  <2>2. \A n \in nodes : n \in Nat /\ n < 4
    BY DEF Init, Specials
  <2> QED
    BY <2>1, <2>2 DEF Init, NodesNumbered, Numbered
<1>2. TypeOK /\ NodesNumbered /\ [Next]_vars => NodesNumbered'
  <2> SUFFICES ASSUME TypeOK, NodesNumbered, [Next]_vars PROVE NodesNumbered'
    OBVIOUS
  <2>1. CASE AddObj
    <3>0. PICK id \in Ids : id = allocateObjectId
      BY FreshIdType
    <3>1. /\ numNodes' = numNodes + 1 /\ numObjects' = numObjects + 1 /\ numValues' = numValues
          /\ strategy' = strategy /\ gepNodes' = gepNodes /\ gepMultiplier' = gepMultiplier
          /\ objects' = objects \cup {id} /\ nodes' = nodes \cup {id}
          /\ collecting' = collecting
      BY <2>1, <3>0 DEF AddObj, addNode, gepMultiplier
    <3>2. \A n \in nodes : Numbered(n)'
      BY <3>1, NumberedKept, CounterTypes DEF NodesNumbered
    <3>3. Numbered(id)' /\ (strategy = "DEBUG" => id < numNodes')
      <4>1. CASE strategy = "DENSE"
        BY <3>0, <3>1, <4>1, CounterTypes DEF Numbered, allocateObjectId
      <4>2. CASE strategy # "DENSE"
        <5>1. id = numNodes /\ id < numNodes'
          BY <3>0, <3>1, <4>2, CounterTypes DEF allocateObjectId
        <5> QED
          BY <3>1, <4>2, <5>1, StrategyCases DEF Numbered
      <4> QED
        BY <4>1, <4>2
    <3>4. strategy = "DEBUG" => \A b \in objects' : b < numNodes'
      BY <3>1, <3>3, CounterTypes DEF NodesNumbered
    <3> QED
      BY <3>1, <3>2, <3>3, <3>4 DEF NodesNumbered
  <2>2. CASE AddVal
    <3>0. PICK id \in Ids : id = allocateValueId
      BY FreshIdType
    <3>1. /\ numNodes' = numNodes + 1 /\ numObjects' = numObjects /\ numValues' = numValues + 1
          /\ strategy' = strategy /\ gepNodes' = gepNodes /\ gepMultiplier' = gepMultiplier
          /\ objects' = objects /\ nodes' = nodes \cup {id}
          /\ collecting' = collecting
      BY <2>2, <3>0 DEF AddVal, addNode, gepMultiplier
    <3>2. \A n \in nodes : Numbered(n)'
      BY <3>1, NumberedKept, CounterTypes DEF NodesNumbered
    <3>3. Numbered(id)'
      <4>1. CASE strategy = "DENSE"
        <5>1. id > MaxId - numValues'
          BY <3>0, <3>1, <4>1, CounterTypes DEF allocateValueId
        <5> QED
          BY <3>1, <4>1, <5>1 DEF Numbered
      <4>2. CASE strategy # "DENSE"
        <5>1. id = numNodes /\ id < numNodes'
          BY <3>0, <3>1, <4>2, CounterTypes DEF allocateValueId
        <5> QED
          BY <3>1, <4>2, <5>1, StrategyCases DEF Numbered
      <4> QED
        BY <4>1, <4>2
    <3>4. strategy = "DEBUG" => \A b \in objects' : b < numNodes'
      BY <3>1, CounterTypes DEF NodesNumbered
    <3> QED
      BY <3>1, <3>2, <3>3, <3>4 DEF NodesNumbered
  <2>3. CASE endSymbolAllocation
    <3>1. gepNodes = {} /\ gepNodes' = {} /\ UNCHANGED <<strategy, counters, nodes, objects>>
      BY <2>3 DEF endSymbolAllocation, NodesNumbered
    <3>2. \A n \in nodes : Numbered(n)'
      BY <3>1, StrategyCases DEF NodesNumbered, Numbered, counters
    <3> QED
      BY <3>1, <3>2 DEF NodesNumbered, counters
  <2>4. ASSUME NEW base \in objects, NEW offset \in Offsets, AddGepObj(base, offset)
        PROVE  NodesNumbered'
    <3>0. PICK id \in Ids : id = allocateGepObjectId(base, offset)
      BY FreshIdType
    <3>1. /\ numNodes' = numNodes + 1 /\ numObjects' = numObjects + 1 /\ numValues' = numValues
          /\ strategy' = strategy /\ gepMultiplier' = gepMultiplier
          /\ gepNodes' = gepNodes \cup {<<base, offset>>}
          /\ objects' = objects /\ nodes' = nodes \cup {id}
          /\ collecting' = FALSE
      BY <2>4, <3>0 DEF AddGepObj, addNode, gepMultiplier
    <3>2. \A n \in nodes : Numbered(n)'
      BY <3>1, NumberedKept, CounterTypes DEF NodesNumbered
    <3>3. Numbered(id)'
      <4>1. CASE strategy = "DENSE"
        BY <3>0, <3>1, <4>1, CounterTypes DEF Numbered, allocateGepObjectId
      <4>2. CASE strategy = "SEQ"
        BY <3>0, <3>1, <4>2, CounterTypes DEF Numbered, allocateGepObjectId
      <4>3. CASE strategy = "DEBUG"
        <5>1. id = (DebugGepId(base, offset) % (MaxId + 1))'
          BY <3>0, <3>1, <4>3 DEF allocateGepObjectId, DebugGepId
        <5> QED
          BY <3>1, <4>3, <5>1 DEF Numbered
      <4> QED
        BY <4>1, <4>2, <4>3, StrategyCases
    <3>4. strategy = "DEBUG" => \A b \in objects' : b < numNodes'
      BY <3>1, CounterTypes DEF NodesNumbered
    <3> QED
      BY <3>1, <3>2, <3>3, <3>4 DEF NodesNumbered
  <2>5. CASE resetPAG
    <3>1. \A n \in nodes' : n \in Nat /\ n < 4 /\ n < numNodes /\ n < numObjects
      BY <2>5, CounterTypes DEF resetPAG, Specials, TypeOK
    <3>2. UNCHANGED <<strategy, counters>> /\ objects' = {} /\ gepNodes' = {}
      BY <2>5 DEF resetPAG
    <3>3. \A n \in nodes' : Numbered(n)'
      BY <3>1, <3>2, StrategyCases DEF Numbered, counters
    <3> QED
      BY <3>2, <3>3 DEF NodesNumbered
  <2>6. CASE UNCHANGED vars
    <3>1. gepMultiplier' = gepMultiplier
      BY <2>6 DEF vars, gepMultiplier
    <3>2. \A n \in nodes : Numbered(n)'
      BY <2>6, <3>1, NumberedKept, CounterTypes DEF NodesNumbered, vars, counters
    <3> QED
      BY <2>6, <3>2 DEF NodesNumbered, vars, counters
  <2> QED
    BY <2>1, <2>2, <2>3, <2>4, <2>5, <2>6 DEF Next
<1> QED
  BY <1>1, <1>2, TypeCorrect, PTL DEF Spec

(***************************************************************************)
(* Below the multiplier, base and offset can be read off the id.           *)
(***************************************************************************)
LEMMA DebugIdsDistinct ==
    ASSUME NEW M \in Nat, NEW b1 \in Nat, NEW o1 \in Nat, NEW b2 \in Nat, NEW o2 \in Nat,
           b1 < M, b2 < M, (o1 + 1) * M + b1 = (o2 + 1) * M + b2
    PROVE  b1 = b2 /\ o1 = o2
<1>1. ASSUME NEW p \in Nat, NEW q \in Nat, p < q PROVE (p + 1) * M + M <= (q + 1) * M
  <2>1. q + 1 = (p + 1) + 1 + (q - p - 1) /\ q - p - 1 \in Nat
    BY <1>1
  <2>2. \A k \in Nat : (p + 1 + 1 + k) * M = (p + 1) * M + M + k * M /\ k * M >= 0
    OBVIOUS
  <2> QED
    BY <2>1, <2>2
<1>2. ~(o1 < o2) /\ ~(o2 < o1)
  BY <1>1
<1> QED
  BY <1>2

(***************************************************************************)
(* While the counter has not passed the multiplier and the ids fit NodeID, *)
(* a DEBUG id is beyond every sequential one and is not truncated.         *)
(***************************************************************************)
LEMMA DebugIdFits ==
    ASSUME TypeOK, NodesNumbered, strategy = "DEBUG",
           NEW b \in objects, NEW o \in Offsets,
           numNodes <= gepMultiplier, (MaxFieldLimit + 1) * gepMultiplier <= MaxId
    PROVE  /\ DebugGepId(b, o) % (MaxId + 1) = DebugGepId(b, o)
           /\ DebugGepId(b, o) >= gepMultiplier
           /\ b < gepMultiplier
<1>1. /\ b \in Nat /\ b < numNodes /\ numNodes \in Nat
      /\ gepMultiplier \in Nat /\ MaxId \in Nat /\ MaxFieldLimit \in Nat
  BY CounterTypes, MultiplierBounds DEF NodesNumbered
<1>2. o \in Nat /\ o + 1 <= MaxFieldLimit
  BY CounterTypes DEF Offsets
<1>3. ASSUME NEW M \in Nat, NEW F \in Nat, o + 1 <= F
      PROVE  /\ (o + 1) * M \in Nat /\ (o + 1) * M >= M
             /\ (F + 1) * M >= (o + 1) * M + M
  <2>1. PICK k \in Nat : F = o + 1 + k
    <3>1. F - (o + 1) \in Nat /\ F = o + 1 + (F - (o + 1))
      BY <1>2, <1>3
    <3> QED
      BY <3>1
  <2>2. (o + 1 + k + 1) * M = (o + 1) * M + k * M + M /\ k * M >= 0 /\ o * M >= 0
    BY <1>2
  <2>3. (o + 1) * M = o * M + M /\ o * M \in Nat
    BY <1>2
  <2> QED
    BY <2>1, <2>2, <2>3
<1>4. /\ (o + 1) * gepMultiplier \in Nat /\ (o + 1) * gepMultiplier >= gepMultiplier
      /\ MaxId >= (o + 1) * gepMultiplier + gepMultiplier
  BY <1>1, <1>2, <1>3
<1> DEFINE d == (o + 1) * gepMultiplier
<1>5. d + b \in Nat /\ d + b <= MaxId /\ d + b >= gepMultiplier
  BY <1>1, <1>4
<1> HIDE DEF d
<1>6. (d + b) % (MaxId + 1) = d + b
  BY <1>1, <1>5
<1>7. DebugGepId(b, o) = d + b
  BY DEF DebugGepId, d
<1> QED
  BY <1>1, <1>5, <1>6, <1>7

(***************************************************************************)
(* A clash of an id that the counter gives, and one of a field object.     *)
(***************************************************************************)
LEMMA SequentialClash ==
    ASSUME TypeOK, NodesNumbered, numNodes \in nodes, strategy # "DENSE"
    PROVE  /\ strategy = "DEBUG"
           /\ \/ numNodes + 1 > gepMultiplier
              \/ (MaxFieldLimit + 1) * gepMultiplier > MaxId
<1>1. Numbered(numNodes) /\ ~(numNodes < numNodes)
  BY CounterTypes DEF NodesNumbered
<1>2. strategy = "DEBUG"
  BY <1>1, StrategyCases DEF Numbered
<1>3. PICK b \in objects, o \in Offsets : numNodes = DebugGepId(b, o) % (MaxId + 1)
  BY <1>1, <1>2 DEF Numbered
<1>4. CASE numNodes + 1 <= gepMultiplier /\ (MaxFieldLimit + 1) * gepMultiplier <= MaxId
  <2>1. numNodes <= gepMultiplier
    BY <1>4, CounterTypes, MultiplierBounds
  <2>2. numNodes >= gepMultiplier
    BY <1>2, <1>3, <1>4, <2>1, DebugIdFits
  <2> QED
    BY <1>4, <2>2, CounterTypes, MultiplierBounds
<1>5. (MaxFieldLimit + 1) * gepMultiplier \in Nat
  BY CounterTypes, MultiplierBounds
<1> QED
  BY <1>2, <1>4, <1>5, CounterTypes, MultiplierBounds

(***************************************************************************)
(* A new field object under DEBUG meets a used id only past those limits.  *)
(***************************************************************************)
LEMMA GepClash ==
    ASSUME TypeOK, NodesNumbered, strategy = "DEBUG",
           NEW base \in objects, NEW offset \in Offsets, <<base, offset>> \notin gepNodes,
           allocateGepObjectId(base, offset) \in nodes
    PROVE  \/ numNodes + 1 > gepMultiplier
           \/ (MaxFieldLimit + 1) * gepMultiplier > MaxId
<1> SUFFICES ASSUME numNodes + 1 <= gepMultiplier,
                    (MaxFieldLimit + 1) * gepMultiplier <= MaxId
             PROVE  FALSE
  <2>1. (MaxFieldLimit + 1) * gepMultiplier \in Nat
    BY CounterTypes, MultiplierBounds
  <2> QED
    BY <2>1, CounterTypes, MultiplierBounds
<1>0. numNodes \in Nat /\ gepMultiplier \in Nat /\ numNodes < gepMultiplier
  BY CounterTypes, MultiplierBounds
<1>1. /\ allocateGepObjectId(base, offset) = DebugGepId(base, offset)
      /\ DebugGepId(base, offset) >= gepMultiplier /\ base < gepMultiplier
  BY <1>0, DebugIdFits DEF allocateGepObjectId
<1>2. DebugGepId(base, offset) \in Nat
  BY <1>1, FreshIdType DEF Ids
<1>3. Numbered(DebugGepId(base, offset)) /\ ~(DebugGepId(base, offset) < numNodes)
  BY <1>0, <1>1, <1>2 DEF NodesNumbered
<1>4. PICK b \in objects, o \in Offsets :
          <<b, o>> \in gepNodes /\ DebugGepId(base, offset) = DebugGepId(b, o) % (MaxId + 1)
  BY <1>3 DEF Numbered
<1>5. DebugGepId(base, offset) = DebugGepId(b, o) /\ b < gepMultiplier
  BY <1>0, <1>4, DebugIdFits
<1>6. b \in Nat /\ o \in Nat /\ base \in Nat /\ offset \in Nat
  BY CounterTypes DEF Offsets
<1>7. b = base /\ o = offset
  BY <1>0, <1>1, <1>5, <1>6, DebugIdsDistinct DEF DebugGepId
<1> QED
  BY <1>4, <1>7

(***************************************************************************)
(* SEQ never gives an id twice.  DENSE does only when the two counters     *)
(* have met, DEBUG only when the counter has passed the multiplier or the  *)
(* ids of field objects do not fit NodeID.                                 *)
(***************************************************************************)
THEOREM ClashesAreExplained == Spec => []ClashesExplained
<1>1. Init => ClashesExplained
  BY DEF Init, ClashesExplained
<1>2. TypeOK /\ NodesNumbered /\ ClashesExplained /\ [Next]_vars => ClashesExplained'
  <2> SUFFICES ASSUME TypeOK, NodesNumbered, ClashesExplained, [Next]_vars
               PROVE  ClashesExplained'
    OBVIOUS
  <2>1. CASE AddObj
    <3>1. /\ numNodes' = numNodes + 1 /\ numObjects' = numObjects + 1 /\ numValues' = numValues
          /\ strategy' = strategy /\ gepMultiplier' = gepMultiplier
          /\ clashed' = (allocateObjectId \in nodes)
      BY <2>1 DEF AddObj, addNode, gepMultiplier
    <3>2. ASSUME allocateObjectId \in nodes, strategy = "DENSE"
          PROVE  numObjects' + numValues' > MaxId
      <4>1. Numbered(numObjects)
        BY <3>2 DEF allocateObjectId, NodesNumbered
      <4>2. numObjects > MaxId - numValues
        BY <3>2, <4>1, CounterTypes DEF Numbered
      <4> QED
        BY <3>1, <4>2, CounterTypes
    <3>3. ASSUME allocateObjectId \in nodes, strategy # "DENSE"
          PROVE  numNodes \in nodes
      BY <3>3 DEF allocateObjectId
    <3> QED
      BY <3>1, <3>2, <3>3, SequentialClash DEF ClashesExplained
  <2>2. CASE AddVal
    <3>1. /\ numNodes' = numNodes + 1 /\ numObjects' = numObjects /\ numValues' = numValues + 1
          /\ strategy' = strategy /\ gepMultiplier' = gepMultiplier
          /\ clashed' = (allocateValueId \in nodes)
      BY <2>2 DEF AddVal, addNode, gepMultiplier
    <3>2. ASSUME allocateValueId \in nodes, strategy = "DENSE"
          PROVE  numObjects' + numValues' > MaxId
      <4>1. Numbered(MaxId - numValues)
        BY <3>2 DEF allocateValueId, NodesNumbered
      <4>2. MaxId - numValues < numObjects
        BY <3>2, <4>1, CounterTypes DEF Numbered
      <4> QED
        BY <3>1, <4>2, CounterTypes
    <3>3. ASSUME allocateValueId \in nodes, strategy # "DENSE"
          PROVE  numNodes \in nodes
      BY <3>3 DEF allocateValueId
    <3> QED
      BY <3>1, <3>2, <3>3, SequentialClash DEF ClashesExplained
  <2>3. ASSUME NEW base \in objects, NEW offset \in Offsets, AddGepObj(base, offset)
        PROVE  ClashesExplained'
    <3>1. /\ numNodes' = numNodes + 1 /\ numObjects' = numObjects + 1 /\ numValues' = numValues
          /\ strategy' = strategy /\ gepMultiplier' = gepMultiplier
          /\ clashed' = (allocateGepObjectId(base, offset) \in nodes)
          /\ <<base, offset>> \notin gepNodes
      BY <2>3 DEF AddGepObj, addNode, gepMultiplier
    <3>2. ASSUME allocateGepObjectId(base, offset) \in nodes, strategy = "DENSE"
          PROVE  numObjects' + numValues' > MaxId
      <4>1. Numbered(numObjects)
        BY <3>2 DEF allocateGepObjectId, NodesNumbered
      <4>2. numObjects > MaxId - numValues
        BY <3>2, <4>1, CounterTypes DEF Numbered
      <4> QED
        BY <3>1, <4>2, CounterTypes
    <3>3. ASSUME allocateGepObjectId(base, offset) \in nodes, strategy = "SEQ"
          PROVE  numNodes \in nodes
      BY <3>3 DEF allocateGepObjectId
    <3> QED
      BY <3>1, <3>2, <3>3, SequentialClash, GepClash, StrategyCases DEF ClashesExplained
  <2>4. CASE endSymbolAllocation \/ resetPAG
    BY <2>4 DEF endSymbolAllocation, resetPAG, ClashesExplained
  <2>5. CASE UNCHANGED vars
    BY <2>5 DEF vars, counters, gepMultiplier, ClashesExplained
  <2> QED
    BY <2>1, <2>2, <2>3, <2>4, <2>5 DEF Next
<1> QED
  BY <1>1, <1>2, TypeCorrect, NodesNumberedInvariant, PTL DEF Spec
=============================================================================
