--------------------------- MODULE AndersenProofs ---------------------------
(***************************************************************************)
(* What the solvers of Andersen.tla share. Reachability and the least      *)
(* solution of a program's constraints are what their names say. Every     *)
(* step keeps the types of the state, the invariant by which difference    *)
(* propagation skips no fact along a copy edge, and what merging and       *)
(* collapsing rest on: representatives and sub nodes stay in step, no fact *)
(* is lost, and a collapsed object leaves no field behind. Every edge the  *)
(* graph has asks no more than the least solution gives, so that no fact   *)
(* is found that the constraints do not imply; and each derivation step is *)
(* one of the abstract inclusion analysis.                                 *)
(***************************************************************************)
EXTENDS Andersen, FiniteSetTheorems, WellFoundedInduction, TLAPS

-----------------------------------------------------------------------------
(* Iteration.  The model's two recursive functions, reachability and the   *)
(* least solution, start from a set and make it grow a number of times.    *)

(***************************************************************************)
(* Induction over the naturals, for a set.                                 *)
(***************************************************************************)
LEMMA SetInduction ==
    ASSUME NEW I, 0 \in I, \A k \in Nat : k \in I => k + 1 \in I
    PROVE  Nat \subseteq I
<1> DEFINE rest == Nat \ I
<1> SUFFICES ASSUME rest # {} PROVE FALSE
    OBVIOUS
<1>1. PICK k \in rest : \A y \in rest : ~(<<y, k>> \in OpToRel(<, Nat))
    BY NatLessThanWellFounded, WFMin
<1>2. \A y \in rest : ~(y < k)
    BY <1>1 DEF OpToRel
<1>3. k # 0 /\ k - 1 \in Nat
    OBVIOUS
<1>4. k - 1 \in I
    BY <1>2, <1>3
<1> QED BY <1>3, <1>4

\* f lists what k applications of the function grow make of the set start.
IsIteration(f, universe, start, grow, times) ==
    /\ f \in [0..times -> SUBSET universe]
    /\ f[0] = start
    /\ \A k \in 1..times : f[k] = grow[f[k - 1]]

(***************************************************************************)
(* Every function on the subsets of a universe can be iterated.            *)
(***************************************************************************)
LEMMA IterationExists ==
    ASSUME NEW universe, NEW start \in SUBSET universe,
           NEW grow \in [SUBSET universe -> SUBSET universe], NEW times \in Nat
    PROVE  \E f : IsIteration(f, universe, start, grow, times)
<1> DEFINE good == {k \in Nat : \E f : IsIteration(f, universe, start, grow, k)}
<1>1. 0 \in good
    <2> DEFINE f == [k \in 0..0 |-> start]
    <2>1. IsIteration(f, universe, start, grow, 0)
        BY DEF IsIteration
    <2> QED BY <2>1
<1>2. ASSUME NEW k \in Nat, k \in good PROVE k + 1 \in good
    <2>1. PICK f : IsIteration(f, universe, start, grow, k)
        BY <1>2
    <2> DEFINE h == [i \in 0..(k + 1) |-> IF i = k + 1 THEN grow[f[k]] ELSE f[i]]
    <2>2. h \in [0..(k + 1) -> SUBSET universe]
        <3>1. ASSUME NEW i \in 0..(k + 1)
              PROVE  (IF i = k + 1 THEN grow[f[k]] ELSE f[i]) \in SUBSET universe
            <4>1. f[k] \in SUBSET universe /\ (i # k + 1 => i \in 0..k)
                BY <2>1 DEF IsIteration
            <4> QED BY <2>1, <4>1 DEF IsIteration
        <3> QED BY <3>1
    <2>3. h[0] = start
        BY <2>1 DEF IsIteration
    <2>4. ASSUME NEW i \in 1..(k + 1) PROVE h[i] = grow[h[i - 1]]
        <3>1. CASE i = k + 1
            BY <3>1
        <3>2. CASE i # k + 1
            <4>1. i \in 1..k /\ h[i] = f[i] /\ h[i - 1] = f[i - 1]
                BY <3>2
            <4> QED BY <2>1, <4>1 DEF IsIteration
        <3> QED BY <3>1, <3>2
    <2>5. IsIteration(h, universe, start, grow, k + 1)
        BY <2>2, <2>3, <2>4 DEF IsIteration
    <2> QED BY <2>5
<1> HIDE DEF good
<1>3. times \in good
    BY <1>1, <1>2, SetInduction
<1> QED BY <1>3 DEF good

(***************************************************************************)
(* An iteration stays inside every set that holds its start and is closed, *)
(* and if nothing is ever taken away it keeps its start.                   *)
(***************************************************************************)
LEMMA IterationBelow ==
    ASSUME NEW universe, NEW start, NEW grow, NEW times \in Nat, NEW f,
           IsIteration(f, universe, start, grow, times),
           NEW bound, start \subseteq bound,
           \A r \in SUBSET universe : r \subseteq bound => grow[r] \subseteq bound
    PROVE  f[times] \subseteq bound
<1> DEFINE good == {k \in Nat : k <= times => f[k] \subseteq bound}
<1>1. 0 \in good
    BY DEF IsIteration
<1>2. ASSUME NEW k \in Nat, k \in good PROVE k + 1 \in good
    <2> SUFFICES ASSUME k + 1 <= times PROVE f[k + 1] \subseteq bound
        OBVIOUS
    <2>1. k \in 0..times /\ k + 1 \in 1..times /\ (k + 1) - 1 = k
        OBVIOUS
    <2>2. f[k] \subseteq bound /\ f[k] \in SUBSET universe /\ f[k + 1] = grow[f[k]]
        BY <1>2, <2>1 DEF IsIteration
    <2> QED BY <2>2
<1> HIDE DEF good
<1>3. times \in good
    BY <1>1, <1>2, SetInduction
<1> QED BY <1>3 DEF good

(***************************************************************************)
(* What only grows keeps what it started from.                             *)
(***************************************************************************)
LEMMA IterationKeeps ==
    ASSUME NEW universe, NEW start, NEW grow, NEW times \in Nat, NEW f,
           IsIteration(f, universe, start, grow, times),
           \A r \in SUBSET universe : r \subseteq grow[r]
    PROVE  start \subseteq f[times]
<1> DEFINE good == {k \in Nat : k <= times => start \subseteq f[k]}
<1>1. 0 \in good
    BY DEF IsIteration
<1>2. ASSUME NEW k \in Nat, k \in good PROVE k + 1 \in good
    <2> SUFFICES ASSUME k + 1 <= times PROVE start \subseteq f[k + 1]
        OBVIOUS
    <2>1. k \in 0..times /\ k + 1 \in 1..times /\ (k + 1) - 1 = k
        OBVIOUS
    <2>2. start \subseteq f[k] /\ f[k] \in SUBSET universe /\ f[k + 1] = grow[f[k]]
        BY <1>2, <2>1 DEF IsIteration
    <2> QED BY <2>2
<1> HIDE DEF good
<1>3. times \in good
    BY <1>1, <1>2, SetInduction
<1> QED BY <1>3 DEF good

(***************************************************************************)
(* A set that may grow as often as its universe has elements stops to.     *)
(***************************************************************************)
LEMMA IterationStops ==
    ASSUME NEW universe, IsFiniteSet(universe), NEW start, NEW grow, NEW times \in Nat,
           Cardinality(universe) <= times, NEW f,
           IsIteration(f, universe, start, grow, times),
           \A r \in SUBSET universe : r \subseteq grow[r] /\ grow[r] \subseteq universe
    PROVE  grow[f[times]] = f[times]
<1> DEFINE good == {k \in Nat : k <= times => grow[f[k]] = f[k] \/ Cardinality(f[k]) >= k}
<1>1. ASSUME NEW k \in 0..times
      PROVE  /\ f[k] \in SUBSET universe /\ IsFiniteSet(f[k])
             /\ Cardinality(f[k]) \in Nat /\ Cardinality(f[k]) <= Cardinality(universe)
    BY FS_Subset, FS_CardinalityType DEF IsIteration
<1>2. 0 \in good
    BY <1>1
<1>3. ASSUME NEW k \in Nat, k \in good PROVE k + 1 \in good
    <2> SUFFICES ASSUME k + 1 <= times
                 PROVE  grow[f[k + 1]] = f[k + 1] \/ Cardinality(f[k + 1]) >= k + 1
        OBVIOUS
    <2>1. k \in 0..times /\ k + 1 \in 0..times /\ k + 1 \in 1..times /\ (k + 1) - 1 = k
        OBVIOUS
    <2>2. f[k + 1] = grow[f[k]]
        BY <2>1 DEF IsIteration
    <2>3. CASE grow[f[k]] = f[k]
        BY <2>2, <2>3
    <2>4. CASE grow[f[k]] # f[k]
        <3>1. Cardinality(f[k]) >= k
            BY <1>3, <2>1, <2>4
        <3>2. f[k] \in SUBSET f[k + 1] /\ f[k] # f[k + 1]
            BY <1>1, <2>1, <2>2, <2>4
        <3>3. IsFiniteSet(f[k + 1]) /\ Cardinality(f[k + 1]) \in Nat /\ Cardinality(f[k]) \in Nat
            BY <1>1, <2>1
        <3>4. Cardinality(f[k]) <= Cardinality(f[k + 1]) /\ Cardinality(f[k]) # Cardinality(f[k + 1])
            BY <3>2, <3>3, FS_Subset
        <3> QED BY <3>1, <3>3, <3>4
    <2> QED BY <2>3, <2>4
<1> HIDE DEF good
<1>4. times \in good
    BY <1>2, <1>3, SetInduction
<1>5. CASE grow[f[times]] = f[times]
    BY <1>5
<1>6. CASE grow[f[times]] # f[times]
    <2>1. f[times] \in SUBSET universe /\ Cardinality(f[times]) = Cardinality(universe)
        <3>1. Cardinality(f[times]) >= times
            BY <1>4, <1>6 DEF good
        <3>2. Cardinality(universe) \in Nat
            BY FS_CardinalityType
        <3> QED BY <1>1, <3>1, <3>2
    <2>2. f[times] = universe
        BY <2>1, FS_Subset
    <2> QED BY <2>2, <2>1
<1> QED BY <1>5, <1>6

(***************************************************************************)
(* What a search reaches: its start, only what every closed set with the   *)
(* start holds, and all that the edges lead to from there.                 *)
(***************************************************************************)
LEMMA ReachIsIteration ==
    ASSUME NEW n \in Nodes, NEW edges \in SUBSET Edges
    PROVE  /\ Cardinality(Nodes) \in Nat
           /\ \E f : /\ IsIteration(f, Nodes, {n}, [r \in SUBSET Nodes |-> Onwards(r, edges)],
                                    Cardinality(Nodes))
                     /\ ReachableFrom(n, edges) = f[Cardinality(Nodes)]
<1> DEFINE last == Cardinality(Nodes)
           grow == [r \in SUBSET Nodes |-> Onwards(r, edges)]
           IsStep(f) == f = [k \in 0..last |-> IF k = 0 THEN {n}
                                 ELSE UNION {Onwards(reached, edges) : reached \in {f[k - 1]}}]
           chosen == CHOOSE f : IsStep(f)
<1>1. last \in Nat
    BY GraphAssumption, FS_CardinalityType
<1>2. ReachableFrom(n, edges) = chosen[last]
    BY DEF ReachableFrom
<1> HIDE DEF last
<1>3. \A r \in SUBSET Nodes : Onwards(r, edges) \in SUBSET Nodes
    BY DEF Onwards, Edges
<1>4. grow \in [SUBSET Nodes -> SUBSET Nodes] /\ \A r \in SUBSET Nodes : grow[r] = Onwards(r, edges)
    BY <1>3
<1> HIDE DEF grow
<1>5. \E f : IsStep(f)
    <2>1. PICK s : IsIteration(s, Nodes, {n}, grow, last)
        <3>1. {n} \in SUBSET Nodes
            OBVIOUS
        <3> QED BY <1>1, <1>4, <3>1, IterationExists
    <2>2. ASSUME NEW k \in 0..last
          PROVE  s[k] = IF k = 0 THEN {n}
                        ELSE UNION {Onwards(reached, edges) : reached \in {s[k - 1]}}
        <3>1. CASE k = 0
            BY <2>1, <3>1 DEF IsIteration
        <3>2. CASE k # 0
            <4>1. k \in 1..last /\ k - 1 \in 0..last
                BY <1>1, <3>2
            <4>2. s[k] = Onwards(s[k - 1], edges)
                BY <1>4, <2>1, <4>1 DEF IsIteration
            <4>3. UNION {Onwards(reached, edges) : reached \in {s[k - 1]}} = Onwards(s[k - 1], edges)
                OBVIOUS
            <4> QED BY <3>2, <4>2, <4>3
        <3> QED BY <3>1, <3>2
    <2>3. IsStep(s)
        BY <2>1, <2>2 DEF IsIteration
    <2> QED BY <2>3
<1>6. IsStep(chosen)
    BY <1>5
<1> HIDE DEF chosen
<1>7. chosen[0] = {n}
    BY <1>1, <1>6
<1>8. ASSUME NEW k \in 1..last PROVE chosen[k] = Onwards(chosen[k - 1], edges)
    <2>1. k \in 0..last /\ k # 0
        BY <1>1
    <2>2. chosen[k] = UNION {Onwards(reached, edges) : reached \in {chosen[k - 1]}}
        BY <1>6, <2>1
    <2> QED BY <2>2
<1>9. ASSUME NEW k \in 0..last PROVE chosen[k] \in SUBSET Nodes
    <2> DEFINE good == {i \in Nat : i <= last => chosen[i] \in SUBSET Nodes}
    <2>1. 0 \in good
        BY <1>7
    <2>2. ASSUME NEW i \in Nat, i \in good PROVE i + 1 \in good
        <3> SUFFICES ASSUME i + 1 <= last PROVE chosen[i + 1] \in SUBSET Nodes
            OBVIOUS
        <3>1. i + 1 \in 1..last /\ (i + 1) - 1 = i /\ i <= last
            BY <1>1
        <3>2. chosen[i + 1] = Onwards(chosen[i], edges) /\ chosen[i] \in SUBSET Nodes
            BY <1>8, <2>2, <3>1
        <3> QED BY <1>3, <3>2
    <2> HIDE DEF good
    <2>3. Nat \subseteq good
        BY <2>1, <2>2, SetInduction
    <2> QED BY <1>1, <2>3 DEF good
<1>10. chosen \in [0..last -> SUBSET Nodes]
    BY <1>6, <1>9
<1>11. \A k \in 1..last : chosen[k] = grow[chosen[k - 1]]
    <2> SUFFICES ASSUME NEW k \in 1..last PROVE chosen[k] = grow[chosen[k - 1]]
        OBVIOUS
    <2>1. k - 1 \in 0..last
        BY <1>1
    <2> QED BY <1>4, <1>8, <1>9, <2>1
<1>12. IsIteration(chosen, Nodes, {n}, grow, last)
    BY <1>7, <1>10, <1>11 DEF IsIteration
<1> QED BY <1>1, <1>2, <1>12 DEF grow, last

(***************************************************************************)
(* What is reached from a node is the least set with the node that the     *)
(* edges do not leave.                                                     *)
(***************************************************************************)
LEMMA Reach ==
    ASSUME NEW n \in Nodes, NEW edges \in SUBSET Edges
    PROVE  /\ n \in ReachableFrom(n, edges) /\ ReachableFrom(n, edges) \subseteq Nodes
           /\ \A e \in edges : e[1] \in ReachableFrom(n, edges) => e[2] \in ReachableFrom(n, edges)
           /\ \A bound : n \in bound /\ (\A e \in edges : e[1] \in bound => e[2] \in bound)
                             => ReachableFrom(n, edges) \subseteq bound
<1> DEFINE last == Cardinality(Nodes)
           grow == [r \in SUBSET Nodes |-> Onwards(r, edges)]
<1>1. last \in Nat
    BY ReachIsIteration
<1>2. PICK f : IsIteration(f, Nodes, {n}, grow, last) /\ ReachableFrom(n, edges) = f[last]
    BY ReachIsIteration
<1>3. \A r \in SUBSET Nodes : grow[r] = Onwards(r, edges) /\ r \subseteq grow[r] /\ grow[r] \subseteq Nodes
    BY DEF Onwards, Edges
<1> HIDE DEF grow, last
<1>4. f[last] \in SUBSET Nodes
    BY <1>1, <1>2 DEF IsIteration
<1>5. {n} \subseteq f[last]
    BY <1>1, <1>2, <1>3, IterationKeeps
<1>6. IsFiniteSet(Nodes) /\ Cardinality(Nodes) <= last
    BY <1>1, GraphAssumption DEF last
<1>7. grow[f[last]] = f[last]
    BY <1>1, <1>2, <1>3, <1>6, IterationStops
<1>8. \A e \in edges : e[1] \in f[last] => e[2] \in f[last]
    BY <1>3, <1>4, <1>7 DEF Onwards
<1>9. ASSUME NEW bound, n \in bound, \A e \in edges : e[1] \in bound => e[2] \in bound
      PROVE  f[last] \subseteq bound
    <2>1. \A r \in SUBSET Nodes : r \subseteq bound => grow[r] \subseteq bound
        BY <1>3, <1>9 DEF Onwards
    <2>2. {n} \subseteq bound
        BY <1>9
    <2> QED BY <1>1, <1>2, <2>1, <2>2, IterationBelow
<1> QED BY <1>2, <1>4, <1>5, <1>8, <1>9

-----------------------------------------------------------------------------
(* Types of the operators the actions are built from.                      *)

(***************************************************************************)
(* The field node of an object node is an object node.                     *)
(***************************************************************************)
LEMMA GepObjNodeType ==
    ASSUME NEW o \in ObjNodes, NEW k \in Offsets, NEW ins
    PROVE  GepObjNode(o, k, ins) \in ObjNodes
BY GraphAssumption DEF GepObjNode

(***************************************************************************)
(* A gep maps object nodes to object nodes.                                *)
(***************************************************************************)
LEMMA GepTargetsType ==
    ASSUME NEW g \in GepEdges, NEW objs \in SUBSET ObjNodes, NEW ins
    PROVE  GepTargets(g, objs, ins) \in SUBSET ObjNodes
<1>1. ASSUME NEW o \in objs \ OpaqueObjs
      PROVE  GepObjNode(o, g.off, ins) \in ObjNodes
    BY GepObjNodeType DEF GepEdges
<1>2. VariantTargets(objs \ OpaqueObjs, ins) \in SUBSET ObjNodes
    <2>1. ASSUME NEW o \in objs PROVE Base[o] \in ObjNodes
        BY GraphAssumption
    <2>2. ASSUME NEW o \in objs PROVE GepObjNode(o, 0, ins) \in ObjNodes
        BY GepObjNodeType, GraphAssumption
    <2> QED BY <2>1, <2>2 DEF VariantTargets
<1> QED BY <1>1, <1>2 DEF GepTargets

(***************************************************************************)
(* Moving an end of an edge to a representative gives an edge.             *)
(***************************************************************************)
LEMMA RetargetType ==
    ASSUME NEW e \in Edges, NEW node \in Nodes, NEW r \in Nodes
    PROVE  RetargetEdge(e, node, r) \in Edges
BY DEF Edges, RetargetEdge, Retarget

(***************************************************************************)
(* Moving an end of a gep edge to a representative gives a gep edge.       *)
(***************************************************************************)
LEMMA RetargetGepType ==
    ASSUME NEW g \in GepEdges, NEW node \in Nodes, NEW r \in Nodes
    PROVE  RetargetGep(g, node, r) \in GepEdges
BY DEF GepEdges, RetargetGep, Retarget

\* The graph variables, apart from the rest of the solver's state.
GraphTypes ==
    /\ copyE \subseteq {e \in Edges : e[1] # e[2]}
    /\ loadE \subseteq Edges /\ storeE \subseteq Edges
    /\ gepE \subseteq GepEdges
    /\ rep \in [Nodes -> Nodes] /\ subs \in [Nodes -> SUBSET Nodes]

(***************************************************************************)
(* Merging a node into its representative keeps the graph's types, and     *)
(* leaves no copy edge from a node to itself.                              *)
(***************************************************************************)
LEMMA MoveEdgesTypes ==
    ASSUME GraphTypes, NEW node \in Nodes, NEW r \in Nodes,
           moveEdgesToRepNode(node, r), updateNodeRepAndSubs(node, r)
    PROVE  GraphTypes'
<1>1. copyE' \subseteq {e \in Edges : e[1] # e[2]}
    BY RetargetType DEF GraphTypes, moveEdgesToRepNode, MovedCopies
<1>2. loadE' \subseteq Edges /\ storeE' \subseteq Edges
    BY RetargetType DEF GraphTypes, moveEdgesToRepNode
<1>3. gepE' \subseteq GepEdges
    BY RetargetGepType DEF GraphTypes, moveEdgesToRepNode, MovedGeps
<1>4. rep' \in [Nodes -> Nodes] /\ subs' \in [Nodes -> SUBSET Nodes]
    BY DEF GraphTypes, updateNodeRepAndSubs
<1> QED BY <1>1, <1>2, <1>3, <1>4 DEF GraphTypes

(***************************************************************************)
(* cleanConsCG keeps the types of representatives and sub nodes.           *)
(***************************************************************************)
LEMMA CleanTypes ==
    ASSUME GraphTypes, NEW n \in Nodes, cleanConsCG(n)
    PROVE  rep' \in [Nodes -> Nodes] /\ subs' \in [Nodes -> SUBSET Nodes]
<1>1. SubsAfterRepReset(n) \in [Nodes -> SUBSET Nodes]
    BY DEF GraphTypes, SubsAfterRepReset
<1> QED BY <1>1 DEF GraphTypes, cleanConsCG

(***************************************************************************)
(* The copy edges still to be added never join a node to itself.           *)
(***************************************************************************)
LEMMA NewEdgesType ==
    ASSUME rep \in [Nodes -> Nodes], NEW pairs \in SUBSET Edges
    PROVE  NewEdges(pairs) \subseteq {e \in Edges : e[1] # e[2]}
BY DEF NewEdges, Edges

(***************************************************************************)
(* What a node makes collapse are object nodes.                            *)
(***************************************************************************)
LEMMA ToCollapseType ==
    ASSUME rep \in [Nodes -> Nodes], pts \in [Nodes -> PTS], NEW n \in Nodes
    PROVE  ToCollapse(n) \subseteq ObjNodes
BY GraphAssumption DEF ToCollapse, getPts, sccRepNode, PTS

-----------------------------------------------------------------------------
(* The types, action by action.                                            *)

(***************************************************************************)
(* The part of the solver's types that the graph owns.                     *)
(***************************************************************************)
LEMMA GraphTypesOfTypeOK == TypeOK => GraphTypes
BY DEF TypeOK, GraphTypes

(***************************************************************************)
(* The constraints of a program, as types.                                 *)
(***************************************************************************)
LEMMA ProgramTypes ==
    ASSUME NEW p, IsProgram(p)
    PROVE  /\ p.addr \subseteq ObjNodes \X Nodes /\ \A e \in p.addr : Base[e[1]] = e[1]
           /\ p.copy \subseteq {e \in Edges : e[1] # e[2]}
           /\ p.load \subseteq Edges /\ p.store \subseteq Edges
           /\ p.gep \subseteq GepEdges
           /\ \A c \in p.calls :
                  /\ c.fptr \in Nodes /\ c.fun \in ObjNodes /\ c.argsMatch \in BOOLEAN
                  /\ c.params \subseteq Edges
                  /\ \A h \in c.heap : h[1] \in Nodes /\ h[2] \in ObjNodes /\ Base[h[2]] = h[2]
<1>1. Pointers \subseteq Nodes /\ WholeObjs \subseteq ObjNodes /\ \A o \in WholeObjs : Base[o] = o
    BY DEF Pointers, WholeObjs
<1>2. \A c \in p.calls :
          /\ c.fptr \in Nodes /\ c.fun \in ObjNodes /\ c.argsMatch \in BOOLEAN
          /\ c.params \subseteq Edges
          /\ \A h \in c.heap : h[1] \in Nodes /\ h[2] \in ObjNodes /\ Base[h[2]] = h[2]
    BY <1>1 DEF IsProgram, Calls, Edges
<1> QED BY <1>1, <1>2 DEF IsProgram, Edges

(***************************************************************************)
(* Each program a solver is given is one, and its graph is the first.      *)
(***************************************************************************)
LEMMA ProgramsStart ==
    ASSUME NEW first, InitSolver(first)
    PROVE  IsProgram(prog) /\ StartSolver(first)
BY SolverAssumption DEF InitSolver

(***************************************************************************)
(* The states built from a program are well typed.                         *)
(***************************************************************************)
LEMMA InitTypes ==
    ASSUME NEW first \in Phases, IsProgram(prog), StartSolver(first)
    PROVE  TypeOK
<1>1. GraphTypes
    BY ProgramTypes DEF StartSolver, GraphTypes
<1>2. worklist \subseteq Nodes
    BY ProgramTypes DEF StartSolver
<1>3. pts \in [Nodes -> PTS] /\ propa \in [Nodes -> PTS]
    BY DEF StartSolver, PTS
<1> QED
    BY <1>1, <1>2, <1>3 DEF StartSolver, TypeOK, GraphTypes

(***************************************************************************)
(* Merging one node of a component keeps the types.                        *)
(***************************************************************************)
LEMMA MergeTypes ==
    ASSUME TypeOK, NEW c \in cycles, NEW n \in c.left, mergeNode(c, n),
           worklist' \subseteq Nodes
    PROVE  TypeOK'
<1>1. c \in Cycles /\ n \in Nodes /\ c.rep \in Nodes
    BY DEF TypeOK, Cycles
<1>2. GraphTypes'
    BY <1>1, GraphTypesOfTypeOK, MoveEdgesTypes DEF mergeNode
<1>3. pts' \in [Nodes -> PTS]
    BY <1>1 DEF TypeOK, mergeNode, unionPts, PTS
<1>4. propa' \in [Nodes -> PTS]
    BY <1>1 DEF TypeOK, mergeNode, MergedPropa, updatePropaPts, PTS
<1>5. impacted' \subseteq ObjNodes
    BY <1>1 DEF TypeOK, mergeNode, PTS
<1>6. pwcNodes' \subseteq Nodes
    BY <1>1 DEF TypeOK, mergeNode
<1>7. CriticalGeps(n, c.rep) \subseteq GepEdges
    BY DEF TypeOK, CriticalGeps, InsideScc
<1>8. [c EXCEPT !.left = @ \ {n}, !.geps = @ \cup CriticalGeps(n, c.rep)] \in Cycles
    BY <1>1, <1>7 DEF Cycles
<1>9. cycles' \subseteq Cycles
    BY <1>8 DEF TypeOK, mergeNode
<1> QED
    BY <1>2, <1>3, <1>4, <1>5, <1>6, <1>9
    DEF TypeOK, GraphTypes, mergeNode, waveVars, objectVars, invariantVars

(***************************************************************************)
(* Finishing a component, merged or collapsed, keeps the types.            *)
(***************************************************************************)
LEMMA FinishMergeTypes ==
    ASSUME TypeOK, NEW c \in cycles, finishScc(c) \/ finishCollapse(c)
    PROVE  TypeOK'
<1>1. c.rep \in Nodes /\ c.members \in SUBSET Nodes
    BY DEF TypeOK, Cycles
<1>2. CASE finishScc(c)
    <2>1. GepsOf(c.members) \in SUBSET Nodes
        BY DEF GepsOf, TypeOK, IsProgram, GepEdges
    <2>2. pwcInvariants' \subseteq SUBSET Nodes /\ pwcNodes' \subseteq Nodes
        BY <1>1, <1>2, <2>1 DEF TypeOK, finishScc
    <2>3. cycles' \subseteq Cycles
        BY <1>2 DEF TypeOK, finishScc
    <2> QED BY <1>2, <2>2, <2>3 DEF TypeOK, finishScc, graphVars, ptsVars, waveVars, objectVars
<1>3. CASE finishCollapse(c)
    <2>1. toCollapse' \subseteq ObjNodes
        BY <1>1, <1>3, ToCollapseType DEF TypeOK, finishCollapse
    <2>2. cycles' \subseteq Cycles
        BY <1>3 DEF TypeOK, finishCollapse
    <2> QED
        BY <1>3, <2>1, <2>2
        DEF TypeOK, finishCollapse, graphVars, ptsVars, waveVars, objectVars, invariantVars
<1> QED BY <1>2, <1>3

(***************************************************************************)
(* Collapsing one object's fields everywhere keeps the types.              *)
(***************************************************************************)
LEMMA CollapseFieldTypes ==
    ASSUME TypeOK, NEW b \in toCollapse, collapseField(b)
    PROVE  TypeOK'
<1> DEFINE fs == AllFieldsObjNode(b)
<1>1. b \in ObjNodes /\ b \in Nodes /\ fs \subseteq ObjNodes /\ fs \subseteq Nodes
    BY GraphAssumption DEF TypeOK, AllFieldsObjNode
<1>2. pts' \in [Nodes -> PTS]
    <2>1. ASSUME NEW n \in Nodes PROVE CollapsedPts(n, fs, b) \in PTS
        BY <1>1 DEF TypeOK, PTS, CollapsedPts
    <2> QED BY <2>1 DEF collapseField
<1>3. worklist' \subseteq Nodes
    BY DEF TypeOK, collapseField
<1>4. cycles' \subseteq Cycles
    <2>1. rep[b] \in Nodes /\ {rep[f] : f \in fs} \subseteq Nodes
        BY <1>1 DEF TypeOK
    <2> QED BY <2>1 DEF collapseField, Cycles
<1>5. /\ fieldInsensitive' \subseteq ObjNodes
      /\ redundantGepNodes' \subseteq ObjNodes
      /\ toCollapse' \subseteq ObjNodes
      /\ reanalyze' \in BOOLEAN
    BY <1>1 DEF TypeOK, collapseField
<1> QED
    BY <1>2, <1>3, <1>4, <1>5 DEF TypeOK, collapseField, graphVars, waveVars, invariantVars

(***************************************************************************)
(* Propagation along copy and gep edges keeps the types of what it writes. *)
(***************************************************************************)
LEMMA HandleCopyGepTypes ==
    ASSUME TypeOK, NEW n \in Nodes, NEW queue \in SUBSET Nodes, handleCopyGep(n, queue)
    PROVE  /\ pts' \in [Nodes -> PTS] /\ propa' \in [Nodes -> PTS]
           /\ worklist' \subseteq Nodes
           /\ fields' \subseteq ObjNodes /\ fieldInsensitive' \subseteq ObjNodes
           /\ toCollapse' \subseteq ObjNodes
           /\ varGepPtd' \subseteq Nodes \X ObjNodes
<1>1. diffPts(n) \in SUBSET ObjNodes /\ GepsFrom(n) \subseteq GepEdges
    BY DEF TypeOK, diffPts, PTS, GepsFrom
<1>2. NewlyInsensitive(n) \subseteq ObjNodes
    BY <1>1, GraphAssumption DEF NewlyInsensitive
<1>3. PICK ins \in {fieldInsensitive, fieldInsensitive \cup NewlyInsensitive(n)} :
             LET gain == [d \in Nodes |-> Gained(n, ins, d)]
             IN  /\ pts' = [d \in Nodes |-> pts[d] \cup gain[d]]
                     /\ worklist' = queue \cup {d \in Nodes : ~(gain[d] \subseteq pts[d])}
                     /\ fields' = fields \cup
                           UNION {GepTargets(g, diffPts(n), ins) : g \in GepsFrom(n)}
    BY DEF handleCopyGep
<1>4. UNION {GepTargets(g, diffPts(n), ins) : g \in GepsFrom(n)} \subseteq ObjNodes
    BY <1>1, GepTargetsType
<1>5. ASSUME NEW d \in Nodes PROVE Gained(n, ins, d) \subseteq ObjNodes
    BY <1>1, GepTargetsType DEF Gained
<1>6. pts' \in [Nodes -> PTS]
    BY <1>3, <1>5 DEF TypeOK, PTS
<1>7. propa' \in [Nodes -> PTS]
    BY DEF TypeOK, handleCopyGep
<1>8. worklist' \subseteq Nodes
    BY <1>3
<1>9. fields' \subseteq ObjNodes
    BY <1>3, <1>4 DEF TypeOK
<1>10. fieldInsensitive' \subseteq ObjNodes /\ toCollapse' \subseteq ObjNodes
    BY <1>2 DEF TypeOK, handleCopyGep
<1>11. varGepPtd' \subseteq Nodes \X ObjNodes
    <2>1. ASSUME NEW g \in GepsFrom(n)
          PROVE  {g.inst} \X ExcludedByInvariant(g, diffPts(n)) \subseteq Nodes \X ObjNodes
        BY <1>1 DEF GepEdges, ExcludedByInvariant
    <2> QED BY <2>1 DEF TypeOK, handleCopyGep
<1> QED BY <1>6, <1>7, <1>8, <1>9, <1>10, <1>11

(***************************************************************************)
(* Adding a copy edge keeps the types.                                     *)
(***************************************************************************)
LEMMA EdgeTypes ==
    ASSUME TypeOK, NEW e \in newCopies, insertCopy(e),
           worklist' \subseteq Nodes, reanalyze' \in BOOLEAN
    PROVE  TypeOK'
<1>1. e \in Edges /\ e[1] # e[2] /\ e[1] \in Nodes
    BY DEF TypeOK, Edges
<1>2. propa' \in [Nodes -> PTS]
    BY <1>1 DEF TypeOK, insertCopy, updatePropaPts, PTS
<1>4. copyE' \subseteq {f \in Edges : f[1] # f[2]}
    BY <1>1 DEF TypeOK, insertCopy
<1>5. newCopies' \subseteq {f \in Edges : f[1] # f[2]}
    BY DEF TypeOK, insertCopy
<1> QED
    BY <1>2, <1>4, <1>5 DEF TypeOK, insertCopy, waveVars, objectVars, invariantVars

(***************************************************************************)
(* Connecting an indirect call keeps the types.                            *)
(***************************************************************************)
LEMMA CallTypes ==
    ASSUME TypeOK, NEW c \in prog.calls, resolveIndCall(c)
    PROVE  TypeOK'
<1>1. c.params \in SUBSET Edges
    BY ProgramTypes DEF TypeOK
<1>2. newCopies' \subseteq {e \in Edges : e[1] # e[2]}
    BY <1>1, NewEdgesType DEF TypeOK, resolveIndCall
<1>3. pts' \in [Nodes -> PTS]
    <2>1. CASE c.argsMatch
        <3>1. pts' = [n \in Nodes |-> pts[n] \cup {o \in ObjNodes : <<n, o>> \in c.heap}]
            BY <2>1 DEF resolveIndCall
        <3> QED BY <3>1 DEF TypeOK, PTS
    <2>2. CASE ~c.argsMatch
        BY <2>2 DEF TypeOK, resolveIndCall
    <2> QED BY <2>1, <2>2
<1>4. indCalls' \subseteq prog.calls /\ reanalyze' \in BOOLEAN
    BY DEF TypeOK, resolveIndCall
<1> QED
    BY <1>2, <1>3, <1>4 DEF TypeOK, resolveIndCall, graphVars, waveVars, objectVars, invariantVars

(***************************************************************************)
(* Removing a redundant field node keeps the types.                        *)
(***************************************************************************)
LEMMA RemoveTypes ==
    ASSUME TypeOK, NEW n \in redundantGepNodes, removeGepNode(n)
    PROVE  TypeOK'
<1>1. n \in Nodes
    BY GraphAssumption DEF TypeOK
<1>2. rep' \in [Nodes -> Nodes] /\ subs' \in [Nodes -> SUBSET Nodes]
    BY <1>1, GraphTypesOfTypeOK, CleanTypes DEF removeGepNode
<1>3. fields' \subseteq ObjNodes /\ redundantGepNodes' \subseteq ObjNodes
    BY DEF TypeOK, removeGepNode
<1> QED BY <1>2, <1>3 DEF TypeOK, removeGepNode, ptsVars, waveVars, invariantVars

(***************************************************************************)
(* A stuttering step keeps the types.                                      *)
(***************************************************************************)
LEMMA StutterTypes ==
    ASSUME TypeOK, UNCHANGED vars PROVE TypeOK'
BY DEF TypeOK, vars, graphVars, ptsVars, waveVars, objectVars, invariantVars

(***************************************************************************)
(* The steps that do not depend on the loop keep the types.                *)
(***************************************************************************)
LEMMA CommonTypes ==
    ASSUME TypeOK, NEW first \in Phases, Common(first)
    PROVE  TypeOK'
<1>1. ASSUME NEW c \in cycles, finishScc(c) \/ finishCollapse(c) PROVE TypeOK'
    BY <1>1, FinishMergeTypes
<1>2. ASSUME NEW b \in toCollapse, collapseField(b) PROVE TypeOK'
    BY <1>2, CollapseFieldTypes
<1>3. ASSUME NEW c \in prog.calls, resolveIndCall(c) PROVE TypeOK'
    BY <1>3, CallTypes
<1>4. ASSUME NEW n \in redundantGepNodes, removeGepNode(n) PROVE TypeOK'
    BY <1>4, RemoveTypes
<1>5. CASE endIteration(first)
    BY <1>5
    DEF TypeOK, endIteration, Phases, graphVars, ptsVars, waveVars, objectVars, invariantVars
<1>6. CASE finish
    BY <1>6
    DEF TypeOK, finish, Phases, graphVars, ptsVars, waveVars, objectVars, invariantVars
<1>7. CASE Terminated
    BY <1>7, StutterTypes DEF Terminated
<1> QED BY <1>1, <1>2, <1>3, <1>4, <1>5, <1>6, <1>7 DEF Common

-----------------------------------------------------------------------------
(***************************************************************************)
(* Difference propagation.  What a node has propagated along a copy edge   *)
(* is in the points-to set of the target; the induction also needs that a  *)
(* node has propagated nothing it does not have, because a new edge lets   *)
(* its source count as propagated what the target has propagated.  Both    *)
(* speak of membership up to collapsing (Covers): a step may replace a     *)
(* field by its base, and then collapses the base.                         *)
(***************************************************************************)
PropagatedIsKnown == \A n \in Nodes : HasAll(pts[n], propa[n])

CopyInv == CopiesPropagated /\ PropagatedIsKnown

\* HasAll after a step, of sets that are before or after it.
HasAfter(set, objs) == Covers(set, objs, fieldInsensitive')

(***************************************************************************)
(* A set that covers some objects covers fewer, also when it or what is    *)
(* collapsed grows.                                                        *)
(***************************************************************************)
LEMMA CoversGrows ==
    ASSUME NEW s, NEW t, NEW objs, NEW more, s \subseteq t, more \subseteq objs,
           NEW fewer, NEW collapsed, fewer \subseteq collapsed, Covers(s, objs, fewer)
    PROVE  Covers(t, more, collapsed)
BY DEF Covers

(***************************************************************************)
(* The same within a state, and over a step.                               *)
(***************************************************************************)
LEMMA HasAllGrows ==
    ASSUME NEW s, NEW t, NEW objs, NEW more, s \subseteq t, more \subseteq objs, HasAll(s, objs)
    PROVE  HasAll(t, more)
BY DEF HasAll, Covers

(***************************************************************************)
(* Over a step that collapses objects or none.                             *)
(***************************************************************************)
LEMMA HasAfterGrows ==
    ASSUME NEW s, NEW t, NEW objs, NEW more, s \subseteq t, more \subseteq objs, HasAll(s, objs),
           fieldInsensitive \subseteq fieldInsensitive'
    PROVE  HasAfter(t, more)
BY DEF HasAll, HasAfter, Covers

(***************************************************************************)
(* Collapsing an object replaces its fields by itself, so nothing that a   *)
(* set has counted for is lost.                                            *)
(***************************************************************************)
LEMMA CollapseKeeps ==
    ASSUME NEW b \in ObjNodes, fields \subseteq ObjNodes,
           fieldInsensitive' = fieldInsensitive \cup {b},
           NEW n \in Nodes, NEW objs \in SUBSET ObjNodes, HasAll(pts[n], objs)
    PROVE  HasAfter(CollapsedPts(n, AllFieldsObjNode(b), b), objs)
<1> DEFINE fs == AllFieldsObjNode(b)
           after == CollapsedPts(n, fs, b)
<1> SUFFICES ASSUME NEW o \in objs
             PROVE  o \in after \/ Base[o] \in after \cap fieldInsensitive'
    BY DEF HasAfter, Covers
<1>1. o \in pts[n] \/ Base[o] \in pts[n] \cap fieldInsensitive
    BY DEF HasAll, Covers
<1>2. \A f \in fs : Base[f] = b /\ f # b
    BY DEF AllFieldsObjNode
<1>3. Base[Base[o]] = Base[o]
    BY GraphAssumption
<1>4. Base[o] \notin fs
    BY <1>2, <1>3
<1>5. CASE o \in fs
    BY <1>1, <1>2, <1>4, <1>5 DEF CollapsedPts
<1>6. CASE o \notin fs
    BY <1>1, <1>4, <1>6 DEF CollapsedPts
<1> QED BY <1>5, <1>6

(***************************************************************************)
(* No node counts anything as propagated at the start.                     *)
(***************************************************************************)
LEMMA CopyInvInit ==
    ASSUME NEW first \in Phases, IsProgram(prog), StartSolver(first)
    PROVE  CopyInv
<1>1. \A n \in Nodes : \A s : HasAll(s, propa[n])
    BY DEF StartSolver, HasAll, Covers
<1>2. \A e \in copyE : e[1] \in Nodes
    BY InitTypes DEF TypeOK, Edges
<1> QED BY <1>1, <1>2 DEF CopyInv, CopiesPropagated, PropagatedIsKnown

(***************************************************************************)
(* Growing points-to sets keep what was propagated at the other ends.      *)
(***************************************************************************)
LEMMA CopyInvGrows ==
    ASSUME TypeOK, CopyInv, UNCHANGED <<copyE, propa>>, fieldInsensitive \subseteq fieldInsensitive',
           \A n \in Nodes : pts[n] \subseteq pts'[n]
    PROVE  CopyInv'
<1>1. CopiesPropagated'
    <2> SUFFICES ASSUME NEW e \in copyE PROVE HasAfter(pts'[e[2]], propa[e[1]])
        BY DEF CopiesPropagated, HasAll, HasAfter
    <2>1. e[2] \in Nodes
        BY DEF TypeOK, Edges
    <2> QED BY <2>1, HasAfterGrows DEF CopyInv, CopiesPropagated
<1>2. PropagatedIsKnown'
    BY HasAfterGrows DEF CopyInv, PropagatedIsKnown, HasAll, HasAfter
<1> QED BY <1>1, <1>2 DEF CopyInv

(***************************************************************************)
(* A node that counts its set as propagated has sent it along each of its  *)
(* copy edges.                                                             *)
(***************************************************************************)
LEMMA CopyInvPropagate ==
    ASSUME TypeOK, CopyInv, NEW n \in Nodes, NEW queue, handleCopyGep(n, queue),
           UNCHANGED copyE
    PROVE  CopyInv'
<1>1. PICK ins \in {fieldInsensitive, fieldInsensitive \cup NewlyInsensitive(n)} :
          LET gain == [d \in Nodes |-> Gained(n, ins, d)]
          IN  pts' = [d \in Nodes |-> pts[d] \cup gain[d]]
    BY DEF handleCopyGep
<1>2. \A d \in Nodes : pts'[d] = pts[d] \cup Gained(n, ins, d)
    BY <1>1
<1>3. propa' = [propa EXCEPT ![n] = pts[n]] /\ fieldInsensitive \subseteq fieldInsensitive'
    BY DEF handleCopyGep
<1>4. CopiesPropagated'
    <2> SUFFICES ASSUME NEW e \in copyE PROVE HasAfter(pts'[e[2]], propa'[e[1]])
        BY DEF CopiesPropagated, HasAll, HasAfter
    <2>1. e[1] \in Nodes /\ e[2] \in Nodes /\ e = <<e[1], e[2]>>
        BY DEF TypeOK, Edges
    <2>2. HasAll(pts[e[2]], propa[e[1]])
        BY DEF CopyInv, CopiesPropagated
    <2>3. pts[e[2]] \subseteq pts'[e[2]]
        BY <1>2, <2>1
    <2>4. CASE e[1] = n
        <3>1. pts[n] \ propa[n] \subseteq pts'[e[2]]
            BY <1>2, <2>1, <2>4 DEF Gained, diffPts
        <3>2. propa'[e[1]] = pts[n]
            BY <1>3, <2>4 DEF TypeOK
        <3> QED BY <1>3, <2>2, <2>3, <2>4, <3>1, <3>2 DEF HasAll, HasAfter, Covers
    <2>5. CASE e[1] # n
        <3>1. propa'[e[1]] = propa[e[1]]
            BY <1>3, <2>1, <2>5 DEF TypeOK
        <3> QED BY <1>3, <2>2, <2>3, <3>1, HasAfterGrows
    <2> QED BY <2>4, <2>5
<1>5. PropagatedIsKnown'
    <2> SUFFICES ASSUME NEW m \in Nodes PROVE HasAfter(pts'[m], propa'[m])
        BY DEF PropagatedIsKnown, HasAll, HasAfter
    <2>1. pts[m] \subseteq pts'[m]
        BY <1>2
    <2>2. propa'[m] = propa[m] \/ propa'[m] = pts[m]
        BY <1>3 DEF TypeOK
    <2>3. HasAll(pts[m], propa[m])
        BY DEF CopyInv, PropagatedIsKnown
    <2> QED BY <1>3, <2>1, <2>2, <2>3 DEF HasAll, HasAfter, Covers
<1> QED BY <1>4, <1>5 DEF CopyInv

(***************************************************************************)
(* A new copy edge comes with everything its source counts as propagated.  *)
(***************************************************************************)
LEMMA CopyInvAddEdge ==
    ASSUME TypeOK, CopyInv, NEW e \in newCopies, insertCopy(e)
    PROVE  CopyInv'
<1>1. e[1] \in Nodes /\ e[2] \in Nodes
    BY DEF TypeOK, Edges
<1>2. propa' = [propa EXCEPT ![e[1]] = propa[e[1]] \cap propa[e[2]]] /\ pts' = pts /\ fieldInsensitive' = fieldInsensitive
    BY DEF insertCopy, updatePropaPts, objectVars
<1>3. \A n \in Nodes : propa'[n] \subseteq propa[n]
    BY <1>2 DEF TypeOK
<1>4. propa'[e[1]] \subseteq propa[e[2]]
    BY <1>1, <1>2 DEF TypeOK
<1>5. CopiesPropagated'
    <2> SUFFICES ASSUME NEW f \in copyE' PROVE HasAfter(pts[f[2]], propa'[f[1]])
        BY <1>2 DEF CopiesPropagated, HasAll, HasAfter
    <2>1. CASE f = e
        <3>1. HasAll(pts[e[2]], propa[e[2]])
            BY <1>1 DEF CopyInv, PropagatedIsKnown
        <3> QED BY <1>2, <2>1, <3>1, <1>4, HasAfterGrows
    <2>2. CASE f \in copyE
        <3>1. f[1] \in Nodes
            BY <2>2 DEF TypeOK, Edges
        <3>2. HasAll(pts[f[2]], propa[f[1]])
            BY <2>2 DEF CopyInv, CopiesPropagated
        <3> QED BY <1>2, <3>1, <3>2, <1>3, HasAfterGrows
    <2> QED BY <2>1, <2>2 DEF insertCopy
<1>6. PropagatedIsKnown'
    BY <1>2, <1>3, HasAfterGrows DEF CopyInv, PropagatedIsKnown, HasAll, HasAfter
<1> QED BY <1>5, <1>6 DEF CopyInv

(***************************************************************************)
(* A merged node counts as propagated what both nodes had propagated, so   *)
(* the edges of either lead to it.                                         *)
(***************************************************************************)
LEMMA CopyInvMerge ==
    ASSUME TypeOK, CopyInv, NEW c \in cycles, NEW node \in c.left, mergeNode(c, node)
    PROVE  CopyInv'
<1> DEFINE r == c.rep
<1>1. r \in Nodes /\ node \in Nodes
    BY DEF TypeOK, Cycles
<1>2. propa' = [propa EXCEPT ![r] = propa[r] \cap propa[node]]
    BY DEF mergeNode, MergedPropa, updatePropaPts
<1>3. pts' = [pts EXCEPT ![r] = pts[r] \cup pts[node]] /\ fieldInsensitive' = fieldInsensitive
    BY DEF mergeNode, unionPts, objectVars
<1>4. \A n \in Nodes : propa'[n] \subseteq propa[n] /\ pts[n] \subseteq pts'[n]
    BY <1>2, <1>3 DEF TypeOK
<1>5. propa'[r] \subseteq propa[node] /\ pts[node] \subseteq pts'[r]
    BY <1>1, <1>2, <1>3 DEF TypeOK
<1>6. CopiesPropagated'
    <2> SUFFICES ASSUME NEW f \in copyE' PROVE HasAfter(pts'[f[2]], propa'[f[1]])
        BY DEF CopiesPropagated, HasAll, HasAfter
    <2>1. copyE' = MovedCopies(node, r)
        BY DEF mergeNode, moveEdgesToRepNode
    <2>2. PICK e \in copyE : f = RetargetEdge(e, node, r)
        BY <2>1 DEF MovedCopies
    <2>3. e[1] \in Nodes /\ e[2] \in Nodes
        BY DEF TypeOK, Edges
    <2>4. f[1] = Retarget(e[1], node, r) /\ f[2] = Retarget(e[2], node, r)
        BY <2>2 DEF RetargetEdge
    <2>5. propa'[f[1]] \subseteq propa[e[1]]
        BY <1>4, <1>5, <2>3, <2>4 DEF Retarget
    <2>6. pts[e[2]] \subseteq pts'[f[2]]
        BY <1>4, <1>5, <2>3, <2>4 DEF Retarget
    <2>7. HasAll(pts[e[2]], propa[e[1]])
        BY DEF CopyInv, CopiesPropagated
    <2> QED BY <1>3, <2>5, <2>6, <2>7, HasAfterGrows
<1>7. PropagatedIsKnown'
    BY <1>3, <1>4, HasAfterGrows DEF CopyInv, PropagatedIsKnown, HasAll, HasAfter
<1> QED BY <1>6, <1>7 DEF CopyInv

(***************************************************************************)
(* Collapsing an object rewrites both sides of the invariant alike.        *)
(***************************************************************************)
LEMMA CopyInvCollapse ==
    ASSUME TypeOK, CopyInv, NEW b \in toCollapse, collapseField(b)
    PROVE  CopyInv'
<1>1. b \in ObjNodes /\ fields \subseteq ObjNodes
    BY DEF TypeOK
<1>2. \A n \in Nodes : propa[n] \in SUBSET ObjNodes
    BY DEF TypeOK, PTS
<1>3. \A n \in Nodes : pts'[n] = CollapsedPts(n, AllFieldsObjNode(b), b)
    BY DEF collapseField
<1>4. copyE' = copyE /\ propa' = propa /\ fieldInsensitive' = fieldInsensitive \cup {b}
    BY DEF collapseField, graphVars
<1>5. CopiesPropagated'
    <2> SUFFICES ASSUME NEW e \in copyE PROVE HasAfter(pts'[e[2]], propa[e[1]])
        BY <1>4 DEF CopiesPropagated, HasAll, HasAfter
    <2>1. e[1] \in Nodes /\ e[2] \in Nodes
        BY DEF TypeOK, Edges
    <2>2. HasAll(pts[e[2]], propa[e[1]])
        BY DEF CopyInv, CopiesPropagated
    <2> QED BY <1>1, <1>2, <1>3, <1>4, <2>1, <2>2, CollapseKeeps
<1>6. PropagatedIsKnown'
    <2> SUFFICES ASSUME NEW n \in Nodes PROVE HasAfter(pts'[n], propa[n])
        BY <1>4 DEF PropagatedIsKnown, HasAll, HasAfter
    <2>1. HasAll(pts[n], propa[n])
        BY DEF CopyInv, PropagatedIsKnown
    <2> QED BY <1>1, <1>2, <1>3, <1>4, <2>1, CollapseKeeps
<1> QED BY <1>5, <1>6 DEF CopyInv

(***************************************************************************)
(* The steps that do not depend on the loop keep the invariant of copy     *)
(* propagation.                                                            *)
(***************************************************************************)
LEMMA CopyInvCommon ==
    ASSUME TypeOK, CopyInv, NEW first \in Phases, Common(first)
    PROVE  CopyInv'
<1>1. CASE UNCHANGED <<copyE, pts, propa, fieldInsensitive>>
    BY <1>1, CopyInvGrows
<1>2. ASSUME NEW c \in cycles, finishScc(c) \/ finishCollapse(c) PROVE CopyInv'
    BY <1>1, <1>2 DEF finishScc, finishCollapse, graphVars, ptsVars, objectVars
<1>3. ASSUME NEW b \in toCollapse, collapseField(b) PROVE CopyInv'
    BY <1>3, CopyInvCollapse
<1>4. ASSUME NEW c \in prog.calls, resolveIndCall(c) PROVE CopyInv'
    <2>1. UNCHANGED <<copyE, propa, fieldInsensitive>>
        BY <1>4 DEF resolveIndCall, graphVars, objectVars
    <2>2. \A n \in Nodes : pts[n] \subseteq pts'[n]
        BY <1>4 DEF resolveIndCall
    <2> QED BY <2>1, <2>2, CopyInvGrows
<1>5. ASSUME NEW n \in redundantGepNodes, removeGepNode(n) PROVE CopyInv'
    BY <1>1, <1>5 DEF removeGepNode, ptsVars
<1>6. CASE endIteration(first) \/ finish
    BY <1>1, <1>6 DEF endIteration, finish, graphVars, ptsVars, objectVars
<1>7. CASE Terminated
    BY <1>1, <1>7 DEF Terminated, vars, graphVars, ptsVars, objectVars
<1> QED BY <1>2, <1>3, <1>4, <1>5, <1>6, <1>7 DEF Common
-----------------------------------------------------------------------------
(* What merging and collapsing do.  Representatives first.                 *)

RepMaps ==
    \A n \in Nodes : rep[n] \in Reps /\ subs[n] = {m \in Nodes \ {n} : rep[m] = n}

EdgesAtReps == copyE \cup loadE \cup storeE \cup DirectEdges(TRUE) \subseteq Reps \X Reps

(***************************************************************************)
(* Merges under way do not meet: each joins representatives no other       *)
(* touches, so one of them cannot merge away the target of another.        *)
(***************************************************************************)
Block(c) == {c.rep} \cup c.left

MergesApart ==
    /\ \A c \in cycles : c.rep \notin c.left /\ Block(c) \subseteq Reps
    /\ \A c \in cycles : \A d \in cycles : c # d => Block(c) \cap Block(d) = {}

\* Edges are added when nothing is being merged or waits to be.
EdgesApart ==
    /\ newCopies \subseteq Reps \X Reps
    /\ newCopies # {} => cycles = {} /\ toCollapse = {}

RepInv == Solving => RepMaps /\ EdgesAtReps /\ MergesApart /\ EdgesApart

(***************************************************************************)
(* Once solving is over nothing is half done.                              *)
(***************************************************************************)
DoneSettled == ~Solving => Settled

(***************************************************************************)
(* Merging a node into a representative makes exactly the nodes it stood   *)
(* for stand behind that representative.                                   *)
(***************************************************************************)
LEMMA MergedReps ==
    ASSUME TypeOK, RepMaps, NEW node \in Reps, NEW r \in Reps, node # r,
           updateNodeRepAndSubs(node, r)
    PROVE  /\ RepMaps'
           /\ Reps' = Reps \ {node}
           /\ \A m \in Nodes : rep'[m] = IF rep[m] = node THEN r ELSE rep[m]
<1>1. node \in Nodes /\ r \in Nodes /\ rep[node] = node /\ rep[r] = r
    BY DEF Reps
<1>2. \A m \in Nodes : (m = node \/ m \in subs[node]) <=> rep[m] = node
    BY <1>1 DEF RepMaps
<1>3. \A m \in Nodes : rep'[m] = IF rep[m] = node THEN r ELSE rep[m]
    BY <1>2 DEF updateNodeRepAndSubs
<1>4. Reps' = Reps \ {node}
    BY <1>1, <1>3 DEF Reps
<1>5. RepMaps'
    <2> SUFFICES ASSUME NEW n \in Nodes
                 PROVE  rep'[n] \in Reps' /\ subs'[n] = {m \in Nodes \ {n} : rep'[m] = n}
        BY DEF RepMaps
    <2>1. rep'[n] \in Reps'
        BY <1>1, <1>3, <1>4 DEF RepMaps
    <2>2. subs'[n] = IF n = r THEN subs[r] \cup subs[node] \cup {node}
                     ELSE IF n = node THEN {} ELSE subs[n]
        BY DEF updateNodeRepAndSubs
    <2>3. subs[n] = {m \in Nodes \ {n} : rep[m] = n}
        BY DEF RepMaps
    <2>4. CASE n = r
        <3>1. /\ subs[r] = {m \in Nodes \ {r} : rep[m] = r}
              /\ subs[node] = {m \in Nodes \ {node} : rep[m] = node}
            BY <1>1 DEF RepMaps
        <3>2. {m \in Nodes \ {r} : rep'[m] = r} = subs[r] \cup subs[node] \cup {node}
            BY <1>1, <1>3, <3>1
        <3> QED BY <2>1, <2>2, <2>4, <3>2
    <2>5. CASE n = node
        BY <1>1, <1>3, <2>1, <2>2, <2>5
    <2>6. CASE n # r /\ n # node
        BY <1>3, <2>1, <2>2, <2>3, <2>6
    <2> QED BY <2>1, <2>4, <2>5, <2>6
<1> QED BY <1>3, <1>4, <1>5

(***************************************************************************)
(* Edges between representatives end at representatives after a merge.     *)
(***************************************************************************)
LEMMA MergedEdges ==
    ASSUME TypeOK, EdgesAtReps, NEW node \in Reps, NEW r \in Reps, node # r,
           Reps' = Reps \ {node}, moveEdgesToRepNode(node, r)
    PROVE  EdgesAtReps'
<1>1. ASSUME NEW x \in Reps PROVE Retarget(x, node, r) \in Reps'
    BY DEF Retarget
<1>2. ASSUME NEW e \in Reps \X Reps PROVE RetargetEdge(e, node, r) \in Reps' \X Reps'
    BY <1>1 DEF RetargetEdge
<1>3. copyE \cup loadE \cup storeE \subseteq Reps \X Reps
    BY DEF EdgesAtReps
<1>4. copyE' \cup loadE' \cup storeE' \subseteq Reps' \X Reps'
    BY <1>2, <1>3 DEF moveEdgesToRepNode, MovedCopies
<1>5. ASSUME NEW g \in gepE PROVE g.src \in Reps /\ g.dst \in Reps
    <2>1. <<g.src, g.dst>> \in DirectEdges(TRUE)
        BY DEF DirectEdges
    <2> QED BY <2>1 DEF EdgesAtReps
<1>6. ASSUME NEW g \in gepE' PROVE g.src \in Reps' /\ g.dst \in Reps'
    <2>1. gepE' = MovedGeps(node, r)
        BY DEF moveEdgesToRepNode
    <2>2. CASE g \in gepE /\ ~Touches(g, node)
        BY <1>5, <2>2 DEF Touches
    <2>3. CASE \E h \in gepE : g = RetargetGep(h, node, r)
        <3>1. PICK h \in gepE : g = RetargetGep(h, node, r)
            BY <2>3
        <3>2. h \in GepEdges
            BY DEF TypeOK
        <3>3. g.src = Retarget(h.src, node, r) /\ g.dst = Retarget(h.dst, node, r)
            BY <3>1, <3>2 DEF RetargetGep, GepEdges
        <3> QED BY <1>1, <1>5, <3>3
    <2> QED BY <2>1, <2>2, <2>3 DEF MovedGeps
<1>7. DirectEdges(TRUE)' \subseteq Reps' \X Reps'
    BY <1>4, <1>6 DEF DirectEdges
<1> QED BY <1>4, <1>7 DEF EdgesAtReps

(***************************************************************************)
(* Merging one node keeps representatives, edges and the other merges in   *)
(* step.                                                                   *)
(***************************************************************************)
LEMMA RepInvMerge ==
    ASSUME TypeOK, RepInv, DoneSettled, NEW c \in cycles, NEW node \in c.left, mergeNode(c, node)
    PROVE  /\ RepInv'
           /\ c.rep \in Reps /\ node \in Reps /\ c.rep # node
           /\ \A m \in Nodes : rep'[m] = IF rep[m] = node THEN c.rep ELSE rep[m]
<1> DEFINE r == c.rep
           smaller == [c EXCEPT !.left = @ \ {node}, !.geps = @ \cup CriticalGeps(node, r)]
<1>1. RepMaps /\ EdgesAtReps /\ MergesApart /\ EdgesApart
    BY DEF RepInv, DoneSettled, Settled
<1>2. node \in Reps /\ r \in Reps /\ node # r
    BY <1>1 DEF MergesApart, Block
<1>3. /\ RepMaps' /\ Reps' = Reps \ {node}
      /\ \A m \in Nodes : rep'[m] = IF rep[m] = node THEN r ELSE rep[m]
    BY <1>1, <1>2, MergedReps DEF mergeNode
<1>4. EdgesAtReps'
    BY <1>1, <1>2, <1>3, MergedEdges DEF mergeNode
<1>5. cycles' = (cycles \ {c}) \cup {smaller}
    BY DEF mergeNode
<1>6. smaller.rep = r /\ smaller.left = c.left \ {node}
    BY DEF TypeOK, Cycles
<1> HIDE DEF smaller
<1>7. Block(smaller) = Block(c) \ {node} /\ smaller.rep \notin smaller.left
    BY <1>1, <1>2, <1>6 DEF Block, MergesApart
<1>8. node \in Block(c)
    BY DEF Block
<1>9. \A d \in cycles \ {c} : d.rep \notin d.left /\ Block(d) \subseteq Reps \ {node}
    BY <1>1, <1>8 DEF MergesApart
<1>10. MergesApart'
    <2>1. \A d \in cycles' : d.rep \notin d.left /\ Block(d) \subseteq Reps'
        BY <1>1, <1>3, <1>5, <1>7, <1>9 DEF MergesApart
    <2>2. \A d \in cycles \ {c} : Block(d) \cap Block(smaller) = {}
        BY <1>1, <1>7 DEF MergesApart
    <2>3. \A d \in cycles' : \A e \in cycles' : d # e => Block(d) \cap Block(e) = {}
        BY <1>1, <1>5, <2>2 DEF MergesApart
    <2> QED BY <2>1, <2>3 DEF MergesApart, Block
<1>11. EdgesApart'
    BY <1>1 DEF EdgesApart, mergeNode
<1> QED BY <1>2, <1>3, <1>4, <1>10, <1>11 DEF RepInv

(***************************************************************************)
(* Components are the classes of an equivalence: two different ones share  *)
(* no node.                                                                *)
(***************************************************************************)
LEMMA ComponentsApart ==
    ASSUME NEW edges, NEW c \in Components(edges), NEW d \in Components(edges), c # d
    PROVE  c \cap d = {} /\ c \subseteq Reps
<1> DEFINE reach == [n \in Reps |-> ReachableFrom(n, edges)]
           class(n) == {m \in Reps : reach[m] = reach[n]}
<1>1. PICK x \in Reps, y \in Reps : c = class(x) /\ d = class(y)
    BY DEF Components
<1> HIDE DEF reach
<1> QED BY <1>1

(***************************************************************************)
(* Starting to merge components that detection has found.                  *)
(***************************************************************************)
LEMMA RepInvFound ==
    ASSUME RepInv, Solving, newCopies = {}, UNCHANGED <<graphVars, newCopies>>,
           NEW found, found \subseteq BigComponents,
           NEW root, \A c \in found : root[c] \in c,
           cycles' = {[rep |-> root[c], left |-> c \ {root[c]}, members |-> c,
                       geps |-> {}, scc |-> TRUE] : c \in found}
    PROVE  RepInv'
<1>1. RepMaps' /\ EdgesAtReps' /\ Reps' = Reps
    BY DEF RepInv, RepMaps, EdgesAtReps, DirectEdges, Reps, graphVars
<1>2. \A d \in cycles' : \E c \in found :
          d.rep = root[c] /\ d.left = c \ {root[c]} /\ Block(d) = c
          /\ d = [rep |-> root[c], left |-> c \ {root[c]}, members |-> c, geps |-> {}, scc |-> TRUE]
    BY DEF Block
<1>3. \A c \in found : c \in Components(DirectEdges(MergePWC))
    BY DEF BigComponents
<1>4. \A c \in found : c \subseteq Reps
    BY <1>3 DEF Components
<1>5. \A d \in cycles' : d.rep \notin d.left /\ Block(d) \subseteq Reps
    BY <1>2, <1>4
<1>6. \A d \in cycles' : \A e \in cycles' : d # e => Block(d) \cap Block(e) = {}
    <2> SUFFICES ASSUME NEW d \in cycles', NEW e \in cycles', d # e
                 PROVE  Block(d) \cap Block(e) = {}
        OBVIOUS
    <2>1. PICK c \in found, f \in found : c # f /\ Block(d) = c /\ Block(e) = f
        BY <1>2
    <2> QED BY <2>1, <1>3, ComponentsApart
<1>7. MergesApart'
    BY <1>1, <1>5, <1>6 DEF MergesApart, Block
<1>8. EdgesApart'
    BY DEF EdgesApart
<1> QED BY <1>1, <1>7, <1>8 DEF RepInv

(***************************************************************************)
(* Steps that leave the graph and the merges alone.                        *)
(***************************************************************************)
LEMMA RepInvFrame ==
    ASSUME RepInv, Solving, UNCHANGED <<graphVars, cycles, newCopies>>,
           newCopies = {} \/ toCollapse' = {}
    PROVE  RepInv'
<1>1. Reps' = Reps /\ RepMaps' /\ EdgesAtReps'
    BY DEF RepInv, RepMaps, EdgesAtReps, DirectEdges, Reps, graphVars
<1>2. MergesApart'
    BY <1>1 DEF RepInv, MergesApart, Block
<1>3. EdgesApart'
    BY <1>1 DEF RepInv, EdgesApart
<1> QED BY <1>1, <1>2, <1>3 DEF RepInv

(***************************************************************************)
(* A load, a store or a call asks for edges between representatives.       *)
(***************************************************************************)
LEMMA RepInvAsk ==
    ASSUME TypeOK, RepInv, Solving, Settled, UNCHANGED <<graphVars, cycles, toCollapse>>,
           NEW pairs \in SUBSET Edges, newCopies' = NewEdges(pairs)
    PROVE  RepInv'
<1>1. Reps' = Reps /\ RepMaps' /\ EdgesAtReps'
    BY DEF RepInv, RepMaps, EdgesAtReps, DirectEdges, Reps, graphVars
<1>2. MergesApart'
    BY <1>1 DEF RepInv, MergesApart, Block
<1>3. \A n \in Nodes : rep[n] \in Reps
    BY DEF RepInv, RepMaps
<1>4. NewEdges(pairs) \subseteq Reps \X Reps
    BY <1>3 DEF NewEdges, Edges
<1>5. EdgesApart'
    BY <1>1, <1>4 DEF EdgesApart, Settled
<1> QED BY <1>1, <1>2, <1>5 DEF RepInv

(***************************************************************************)
(* The edge that is added joins representatives.                           *)
(***************************************************************************)
LEMMA RepInvAddEdge ==
    ASSUME RepInv, DoneSettled, NEW e \in newCopies, insertCopy(e)
    PROVE  RepInv'
<1>1. RepMaps /\ EdgesAtReps /\ MergesApart /\ EdgesApart
    BY DEF RepInv, DoneSettled, Settled
<1>2. Reps' = Reps /\ RepMaps' /\ MergesApart'
    BY <1>1 DEF RepMaps, MergesApart, Block, Reps, insertCopy
<1>3. EdgesAtReps'
    BY <1>1, <1>2 DEF EdgesAtReps, EdgesApart, DirectEdges, insertCopy
<1>4. EdgesApart'
    BY <1>1, <1>2 DEF EdgesApart, insertCopy
<1> QED BY <1>2, <1>3, <1>4 DEF RepInv

(***************************************************************************)
(* The fields of a collapsed object are merged by their representatives.   *)
(***************************************************************************)
LEMMA RepInvCollapse ==
    ASSUME TypeOK, RepInv, DoneSettled, NEW b \in toCollapse, collapseField(b)
    PROVE  RepInv'
<1> DEFINE fs == AllFieldsObjNode(b)
           block == [rep |-> rep[b], left |-> {rep[f] : f \in fs} \ {rep[b]},
                     members |-> {}, geps |-> {}, scc |-> FALSE]
<1>1. RepMaps /\ EdgesAtReps /\ MergesApart /\ EdgesApart
    BY DEF RepInv, DoneSettled, Settled
<1>2. Reps' = Reps /\ RepMaps' /\ EdgesAtReps'
    BY <1>1 DEF RepMaps, EdgesAtReps, DirectEdges, Reps, graphVars, collapseField
<1>3. b \in Nodes /\ fs \subseteq Nodes
    BY GraphAssumption DEF TypeOK, AllFieldsObjNode
<1>4. block.rep \notin block.left /\ Block(block) \subseteq Reps
    BY <1>1, <1>3 DEF RepMaps, Block
<1>5. cycles' = {block}
    BY DEF collapseField
<1> HIDE DEF block
<1>6. MergesApart'
    BY <1>2, <1>4, <1>5 DEF MergesApart, Block
<1>7. newCopies = {} /\ newCopies' = {}
    BY <1>1 DEF EdgesApart, collapseField
<1>8. EdgesApart'
    BY <1>7 DEF EdgesApart
<1> QED BY <1>2, <1>6, <1>8 DEF RepInv

(***************************************************************************)
(* A merge that is finished leaves the others as they are.                 *)
(***************************************************************************)
LEMMA RepInvFinish ==
    ASSUME RepInv, DoneSettled, NEW c \in cycles, finishScc(c) \/ finishCollapse(c)
    PROVE  RepInv'
<1>1. RepMaps /\ EdgesAtReps /\ MergesApart /\ EdgesApart
    BY DEF RepInv, DoneSettled, Settled
<1>2. UNCHANGED <<graphVars, newCopies>> /\ cycles' = cycles \ {c}
    BY DEF finishScc, finishCollapse
<1>3. Reps' = Reps /\ RepMaps' /\ EdgesAtReps'
    BY <1>1, <1>2 DEF RepMaps, EdgesAtReps, DirectEdges, Reps, graphVars
<1>4. MergesApart'
    BY <1>1, <1>2, <1>3 DEF MergesApart, Block
<1>5. EdgesApart'
    BY <1>1, <1>2 DEF EdgesApart
<1> QED BY <1>3, <1>4, <1>5 DEF RepInv

(***************************************************************************)
(* A stuttering step.                                                      *)
(***************************************************************************)
LEMMA RepInvStutter ==
    ASSUME RepInv, UNCHANGED vars
    PROVE  RepInv'
BY DEF RepInv, RepMaps, EdgesAtReps, MergesApart, EdgesApart, Block, DirectEdges, Reps, Solving,
       vars, graphVars

(***************************************************************************)
(* At the start every node represents itself.                              *)
(***************************************************************************)
LEMMA RepInvInit ==
    ASSUME NEW first \in Phases \ {"finalize", "done"}, IsProgram(prog), StartSolver(first)
    PROVE  RepInv /\ DoneSettled
<1>1. TypeOK
    BY InitTypes
<1>2. Reps = Nodes
    BY DEF StartSolver, Reps
<1>3. RepMaps
    BY <1>2 DEF StartSolver, RepMaps
<1>4. EdgesAtReps
    BY <1>1, <1>2 DEF TypeOK, EdgesAtReps, DirectEdges, Edges, GepEdges
<1>5. MergesApart /\ EdgesApart
    BY DEF StartSolver, MergesApart, EdgesApart
<1>6. Solving
    BY DEF StartSolver, Solving
<1> QED BY <1>3, <1>4, <1>5, <1>6 DEF RepInv, DoneSettled

(***************************************************************************)
(* The steps that do not depend on the loop keep the representatives in    *)
(* step.                                                                   *)
(***************************************************************************)
LEMMA RepInvCommon ==
    ASSUME TypeOK, RepInv, DoneSettled, NEW first \in Phases, Common(first)
    PROVE  RepInv' /\ DoneSettled'
<1>1. ASSUME NEW c \in cycles, finishScc(c) \/ finishCollapse(c)
      PROVE  RepInv' /\ DoneSettled'
    <2>1. Solving /\ Solving'
        BY <1>1 DEF DoneSettled, Settled, finishScc, finishCollapse, Solving
    <2> QED BY <1>1, <2>1, RepInvFinish DEF DoneSettled
<1>2. ASSUME NEW b \in toCollapse, collapseField(b) PROVE RepInv' /\ DoneSettled'
    <2>1. Solving /\ Solving'
        BY <1>2 DEF DoneSettled, Settled, collapseField, Solving
    <2> QED BY <1>2, <2>1, RepInvCollapse DEF DoneSettled
<1>3. ASSUME NEW c \in prog.calls, resolveIndCall(c) PROVE RepInv' /\ DoneSettled'
    <2>1. Solving /\ Settled /\ Solving'
        BY <1>3 DEF resolveIndCall, Solving
    <2>2. UNCHANGED <<graphVars, cycles, toCollapse>>
        BY <1>3 DEF resolveIndCall
    <2>3. CASE c.argsMatch
        <3>1. c.params \in SUBSET Edges
            BY ProgramTypes DEF TypeOK
        <3>2. newCopies' = NewEdges(c.params)
            BY <1>3, <2>3 DEF resolveIndCall
        <3> QED BY <2>1, <2>2, <3>1, <3>2, RepInvAsk DEF DoneSettled
    <2>4. CASE ~c.argsMatch
        <3>1. newCopies = {} /\ newCopies' = newCopies
            BY <1>3, <2>4 DEF resolveIndCall, Settled
        <3> QED BY <2>1, <2>2, <3>1, RepInvFrame DEF DoneSettled
    <2> QED BY <2>3, <2>4
<1>4. CASE endIteration(first)
    <2>1. Solving /\ Settled /\ UNCHANGED <<graphVars, cycles, toCollapse, newCopies>>
        BY <1>4 DEF endIteration, Solving
    <2>2. RepInv'
        BY <2>1, RepInvFrame DEF Settled
    <2> QED BY <2>1, <2>2 DEF DoneSettled, Settled
<1>5. ASSUME ~Solving, ~Solving', UNCHANGED <<cycles, toCollapse, newCopies>>
      PROVE  RepInv' /\ DoneSettled'
    BY <1>5 DEF RepInv, DoneSettled, Settled
<1>6. ASSUME NEW n \in redundantGepNodes, removeGepNode(n) PROVE RepInv' /\ DoneSettled'
    BY <1>5, <1>6 DEF removeGepNode, Solving
<1>7. CASE finish
    BY <1>5, <1>7 DEF finish, Solving
<1>8. CASE Terminated
    BY <1>5, <1>8 DEF Terminated, Solving, vars
<1> QED BY <1>1, <1>2, <1>3, <1>4, <1>6, <1>7, <1>8 DEF Common

-----------------------------------------------------------------------------
(* Facts.                                                                  *)

\* What a step must do to the facts: keep them, under the new representatives.
FactsStay == \A n \in Nodes : HasAfter(pts'[rep'[n]], pts[rep[n]])

(***************************************************************************)
(* Points-to sets that grow keep the facts.                                *)
(***************************************************************************)
LEMMA FactsGrow ==
    ASSUME TypeOK, UNCHANGED rep, \A n \in Nodes : pts[n] \subseteq pts'[n]
    PROVE  FactsStay
BY DEF TypeOK, FactsStay, HasAfter, Covers

(***************************************************************************)
(* A merge hands the node's facts to the representative.                   *)
(***************************************************************************)
LEMMA FactsMerge ==
    ASSUME TypeOK, RepInv, DoneSettled, NEW c \in cycles, NEW node \in c.left, mergeNode(c, node)
    PROVE  FactsStay
<1>1. /\ c.rep \in Nodes /\ node \in Nodes
      /\ \A m \in Nodes : rep'[m] = IF rep[m] = node THEN c.rep ELSE rep[m]
    BY RepInvMerge DEF Reps
<1>2. pts' = [pts EXCEPT ![c.rep] = pts[c.rep] \cup pts[node]]
    BY DEF mergeNode, unionPts
<1>3. \A n \in Nodes : pts[n] \subseteq pts'[n]
    BY <1>2 DEF TypeOK
<1>4. pts[node] \subseteq pts'[c.rep]
    BY <1>1, <1>2 DEF TypeOK
<1> SUFFICES ASSUME NEW n \in Nodes PROVE pts[rep[n]] \subseteq pts'[rep'[n]]
    BY DEF FactsStay, HasAfter, Covers
<1>5. rep[n] \in Nodes
    BY DEF TypeOK
<1> QED BY <1>1, <1>3, <1>4, <1>5

(***************************************************************************)
(* A collapse replaces fields by their base.                               *)
(***************************************************************************)
LEMMA FactsCollapse ==
    ASSUME TypeOK, NEW b \in toCollapse, collapseField(b)
    PROVE  FactsStay
<1>1. b \in ObjNodes /\ fields \subseteq ObjNodes
    BY DEF TypeOK
<1>2. rep' = rep /\ fieldInsensitive' = fieldInsensitive \cup {b} /\ \A n \in Nodes : pts'[n] = CollapsedPts(n, AllFieldsObjNode(b), b)
    BY DEF collapseField, graphVars
<1> SUFFICES ASSUME NEW n \in Nodes PROVE HasAfter(pts'[rep[n]], pts[rep[n]])
    BY <1>2 DEF FactsStay
<1>3. rep[n] \in Nodes /\ pts[rep[n]] \in SUBSET ObjNodes
    BY DEF TypeOK, PTS
<1>4. HasAll(pts[rep[n]], pts[rep[n]])
    BY DEF HasAll, Covers
<1> QED BY <1>1, <1>2, <1>3, <1>4, CollapseKeeps

(***************************************************************************)
(* The steps that do not depend on the loop keep the facts.                *)
(***************************************************************************)
LEMMA FactsCommon ==
    ASSUME TypeOK, Solving, NEW first \in Phases, Common(first)
    PROVE  FactsStay
<1>1. CASE UNCHANGED <<rep, pts>>
    BY <1>1, FactsGrow
<1>2. ASSUME NEW c \in cycles, finishScc(c) \/ finishCollapse(c) PROVE FactsStay
    BY <1>1, <1>2 DEF finishScc, finishCollapse, graphVars, ptsVars
<1>3. ASSUME NEW b \in toCollapse, collapseField(b) PROVE FactsStay
    BY <1>3, FactsCollapse
<1>4. ASSUME NEW c \in prog.calls, resolveIndCall(c) PROVE FactsStay
    <2>1. UNCHANGED rep /\ \A n \in Nodes : pts[n] \subseteq pts'[n]
        BY <1>4 DEF resolveIndCall, graphVars
    <2> QED BY <2>1, FactsGrow
<1>5. ASSUME NEW n \in redundantGepNodes, removeGepNode(n) PROVE FactsStay
    BY <1>5 DEF removeGepNode, Solving
<1>6. CASE endIteration(first) \/ finish
    BY <1>1, <1>6 DEF endIteration, finish, graphVars, ptsVars
<1>7. CASE Terminated
    BY <1>1, <1>7 DEF Terminated, vars, graphVars, ptsVars
<1> QED BY <1>2, <1>3, <1>4, <1>5, <1>6, <1>7 DEF Common

-----------------------------------------------------------------------------
(* Collapsed objects.                                                      *)

(***************************************************************************)
(* A collapse only rewrites the fields it knows of, so every field that a  *)
(* points-to set holds must have been recorded; and what is collapsed is a *)
(* base.                                                                   *)
(***************************************************************************)
FieldsKnown == \A n \in Nodes : \A o \in pts[n] : o = Base[o] \/ o \in fields
BasesOnly == \A b \in toCollapse : Base[b] = b

FieldInv == FieldsGone /\ (Solving => FieldsKnown) /\ BasesOnly

(***************************************************************************)
(* Objects that are told to be collapsed are bases.                        *)
(***************************************************************************)
LEMMA ToCollapseBases ==
    ASSUME TypeOK, NEW n \in Nodes
    PROVE  \A b \in ToCollapse(n) \cup NewlyInsensitive(n) : Base[b] = b
<1>1. getPts(n) \subseteq ObjNodes /\ diffPts(n) \subseteq ObjNodes
    BY DEF TypeOK, PTS, getPts, sccRepNode, diffPts
<1>2. \A o \in ObjNodes : Base[Base[o]] = Base[o]
    BY GraphAssumption
<1> QED BY <1>1, <1>2 DEF ToCollapse, NewlyInsensitive

(***************************************************************************)
(* Steps that neither add facts nor finish a collapse.                     *)
(***************************************************************************)
LEMMA FieldInvFrame ==
    ASSUME FieldInv, Solving' => Solving, UNCHANGED <<pts, fieldInsensitive>>,
           Solving' => fields' = fields,
           toCollapse \subseteq toCollapse', \A b \in toCollapse' : Base[b] = b
    PROVE  FieldInv'
BY DEF FieldInv, FieldsGone, FieldsKnown, BasesOnly

(***************************************************************************)
(* A merge moves facts, and makes none.                                    *)
(***************************************************************************)
LEMMA FieldInvMerge ==
    ASSUME TypeOK, FieldInv, NEW c \in cycles, NEW node \in c.left, mergeNode(c, node)
    PROVE  FieldInv'
<1>1. c.rep \in Nodes /\ node \in Nodes
    BY DEF TypeOK, Cycles
<1>2. ASSUME NEW n \in Nodes, NEW o \in pts'[n]
      PROVE  \E m \in Nodes : o \in pts[m]
    BY <1>1, <1>2 DEF TypeOK, mergeNode, unionPts
<1>3. UNCHANGED <<phase, toCollapse, fields, fieldInsensitive>>
    BY DEF mergeNode, objectVars
<1>4. FieldsGone' /\ BasesOnly'
    BY <1>2, <1>3 DEF FieldInv, FieldsGone, BasesOnly
<1>5. Solving' => FieldsKnown'
    BY <1>2, <1>3 DEF FieldInv, FieldsKnown, Solving
<1> QED BY <1>4, <1>5 DEF FieldInv

(***************************************************************************)
(* Collapsing an object takes its fields out of every set, because every   *)
(* field in a set is a recorded one.                                       *)
(***************************************************************************)
LEMMA FieldInvCollapse ==
    ASSUME TypeOK, FieldInv, DoneSettled, NEW b \in toCollapse, collapseField(b)
    PROVE  FieldInv'
<1> DEFINE fs == AllFieldsObjNode(b)
<1>1. Solving /\ FieldsKnown
    BY DEF DoneSettled, Settled, FieldInv
<1>2. b \in ObjNodes /\ Base[b] = b
    BY DEF TypeOK, FieldInv, BasesOnly
<1>3. /\ toCollapse' = toCollapse \ {b} /\ fieldInsensitive' = fieldInsensitive \cup {b}
      /\ fields' = fields
      /\ \A n \in Nodes : pts'[n] = CollapsedPts(n, fs, b)
    BY DEF collapseField
<1>4. ASSUME NEW n \in Nodes, NEW o \in pts'[n]
      PROVE  o = b \/ (o \in pts[n] /\ o \notin fs)
    <2>1. o \in CollapsedPts(n, fs, b)
        BY <1>3, <1>4
    <2> HIDE DEF fs
    <2>2. CASE pts[n] \cap fs = {}
        BY <2>1, <2>2 DEF CollapsedPts
    <2>3. CASE pts[n] \cap fs # {}
        BY <2>1, <2>3 DEF CollapsedPts
    <2> QED BY <2>2, <2>3
<1>5. ASSUME NEW n \in Nodes, NEW o \in pts'[n], Base[o] \in fieldInsensitive' \ toCollapse'
      PROVE  o = Base[o]
    <2>1. CASE o = b
        BY <1>2, <2>1
    <2>2. CASE o # b /\ Base[o] = b
        <3>1. o \in pts[n] /\ o \notin fs
            BY <1>4, <2>2
        <3>2. o = Base[o] \/ o \in fields
            BY <1>1, <3>1 DEF FieldsKnown
        <3> QED BY <2>2, <3>1, <3>2 DEF AllFieldsObjNode
    <2>3. CASE o # b /\ Base[o] # b
        <3>1. o \in pts[n] /\ Base[o] \in fieldInsensitive \ toCollapse
            BY <1>3, <1>4, <1>5, <2>3
        <3> QED BY <3>1 DEF FieldInv, FieldsGone
    <2> QED BY <2>1, <2>2, <2>3
<1>6. FieldsGone'
    BY <1>5 DEF FieldsGone
<1>7. FieldsKnown'
    BY <1>1, <1>2, <1>3, <1>4 DEF FieldsKnown
<1>8. BasesOnly'
    BY <1>3 DEF FieldInv, BasesOnly
<1> QED BY <1>6, <1>7, <1>8 DEF FieldInv

(***************************************************************************)
(* A gep on an object that has lost its fields gives the object.           *)
(***************************************************************************)
LEMMA GepTargetsCollapsed ==
    ASSUME NEW g \in GepEdges, NEW objs \in SUBSET ObjNodes, NEW insensitive,
           NEW o \in GepTargets(g, objs, insensitive), Base[o] \in insensitive
    PROVE  o = Base[o] \/ o \in objs
<1>1. ASSUME NEW x \in ObjNodes, NEW k \in Offsets, o = GepObjNode(x, k, insensitive)
      PROVE  o = Base[o]
    <2>1. Base[Base[x]] = Base[x] /\ Base[FieldOf[x][k]] = Base[x]
        BY GraphAssumption
    <2> QED BY <1>1, <2>1 DEF GepObjNode
<1>2. ASSUME NEW x \in ObjNodes, o = Base[x] PROVE o = Base[o]
    BY <1>2, GraphAssumption
<1>3. CASE o \in objs
    BY <1>3
<1>4. CASE o \notin objs /\ g.kind = "normal"
    <2>1. PICK x \in objs \ OpaqueObjs : o = GepObjNode(x, g.off, insensitive)
        BY <1>4 DEF GepTargets
    <2> QED BY <1>1, <2>1 DEF GepEdges
<1>5. CASE o \notin objs /\ g.kind # "normal"
    <2>1. o \in VariantTargets(objs \ OpaqueObjs, insensitive)
        BY <1>5 DEF GepTargets
    <2>2. \E x \in ObjNodes : o = Base[x] \/ o = GepObjNode(x, 0, insensitive)
        BY <2>1 DEF VariantTargets
    <2>3. 0 \in Offsets
        BY GraphAssumption
    <2> QED BY <1>1, <1>2, <2>2, <2>3
<1> QED BY <1>3, <1>4, <1>5

(***************************************************************************)
(* Propagation records the fields it makes, makes none of an object that   *)
(* is collapsed already, and asks for the others to be collapsed.          *)
(***************************************************************************)
LEMMA FieldInvPropagate ==
    ASSUME TypeOK, FieldInv, Solving, toCollapse = {},
           NEW n \in Nodes, NEW queue, handleCopyGep(n, queue)
    PROVE  FieldInv'
<1>1. PICK ins \in {fieldInsensitive, fieldInsensitive \cup NewlyInsensitive(n)} :
          LET gain == [d \in Nodes |-> Gained(n, ins, d)]
          IN  /\ pts' = [d \in Nodes |-> pts[d] \cup gain[d]]
              /\ fields' = fields \cup
                     UNION {GepTargets(g, diffPts(n), ins) : g \in GepsFrom(n)}
    BY DEF handleCopyGep
<1>2. \A d \in Nodes : pts'[d] = pts[d] \cup Gained(n, ins, d)
    BY <1>1
<1>3. diffPts(n) \in SUBSET ObjNodes /\ diffPts(n) \subseteq pts[n] /\ GepsFrom(n) \subseteq GepEdges
    BY DEF TypeOK, diffPts, PTS, GepsFrom
<1>4. ASSUME NEW d \in Nodes, NEW o \in pts'[d]
      PROVE  \/ \E m \in Nodes : o \in pts[m]
             \/ \E g \in GepsFrom(n) : o \in GepTargets(g, diffPts(n), ins)
    <2>1. CASE o \in pts[d]
        BY <2>1
    <2>2. CASE o \in Gained(n, ins, d)
        <3>1. o \in diffPts(n)
              \/ \E g \in {h \in GepsFrom(n) : h.dst = d} : o \in GepTargets(g, diffPts(n), ins)
            BY <2>2 DEF Gained
        <3> QED BY <1>3, <3>1
    <2> QED BY <1>2, <1>4, <2>1, <2>2
<1>5. /\ fieldInsensitive' = fieldInsensitive \cup NewlyInsensitive(n)
      /\ toCollapse' = NewlyInsensitive(n)
    BY DEF handleCopyGep
<1>6. fieldInsensitive' \ toCollapse' \subseteq fieldInsensitive
    BY <1>5
<1>7. ASSUME NEW m \in Nodes, NEW o \in pts[m], Base[o] \in fieldInsensitive
      PROVE  o = Base[o]
    BY <1>7 DEF FieldInv, FieldsGone
<1>8. FieldsGone'
    <2> SUFFICES ASSUME NEW d \in Nodes, NEW o \in pts'[d], Base[o] \in fieldInsensitive
                 PROVE  o = Base[o]
        BY <1>6 DEF FieldsGone
    <2>1. CASE \E m \in Nodes : o \in pts[m]
        BY <1>7, <2>1
    <2>2. ASSUME NEW g \in GepsFrom(n), o \in GepTargets(g, diffPts(n), ins)
          PROVE  o = Base[o]
        <3>1. Base[o] \in ins
            BY <1>1
        <3>2. o = Base[o] \/ o \in diffPts(n)
            BY <1>3, <2>2, <3>1, GepTargetsCollapsed
        <3> QED BY <1>3, <1>7, <3>2
    <2> QED BY <1>4, <2>1, <2>2
<1>9. FieldsKnown'
    <2> SUFFICES ASSUME NEW d \in Nodes, NEW o \in pts'[d]
                 PROVE  o = Base[o] \/ o \in fields'
        BY DEF FieldsKnown
    <2>1. CASE \E m \in Nodes : o \in pts[m]
        BY <1>1, <2>1 DEF FieldInv, FieldsKnown
    <2>2. CASE \E g \in GepsFrom(n) : o \in GepTargets(g, diffPts(n), ins)
        BY <1>1, <2>2
    <2> QED BY <1>4, <2>1, <2>2
<1>10. BasesOnly'
    BY <1>5, ToCollapseBases DEF BasesOnly
<1> QED BY <1>8, <1>9, <1>10 DEF FieldInv

(***************************************************************************)
(* A program takes the addresses of whole objects.                         *)
(***************************************************************************)
LEMMA FieldInvInit ==
    ASSUME NEW first, IsProgram(prog), StartSolver(first)
    PROVE  FieldInv
<1>1. \A e \in prog.addr : Base[e[1]] = e[1]
    BY ProgramTypes DEF StartSolver
<1>2. \A n \in Nodes : \A o \in pts[n] : o = Base[o]
    BY <1>1 DEF StartSolver
<1> QED BY <1>2 DEF FieldInv, FieldsGone, FieldsKnown, BasesOnly, StartSolver

(***************************************************************************)
(* The steps that do not depend on the loop leave collapsed objects        *)
(* without fields.                                                         *)
(***************************************************************************)
LEMMA FieldInvCommon ==
    ASSUME TypeOK, FieldInv, DoneSettled, NEW first \in Phases, Common(first)
    PROVE  FieldInv'
<1>1. ASSUME NEW c \in cycles, finishScc(c) \/ finishCollapse(c) PROVE FieldInv'
    <2>1. c.rep \in Nodes
        BY DEF TypeOK, Cycles
    <2>2. toCollapse \subseteq toCollapse' /\ \A b \in toCollapse' : Base[b] = b
        BY <1>1, <2>1, ToCollapseBases DEF finishScc, finishCollapse, FieldInv, BasesOnly
    <2>3. UNCHANGED <<pts, fieldInsensitive, fields, phase>>
        BY <1>1 DEF finishScc, finishCollapse, ptsVars, objectVars
    <2> QED BY <2>2, <2>3, FieldInvFrame DEF Solving
<1>2. ASSUME NEW b \in toCollapse, collapseField(b) PROVE FieldInv'
    BY <1>2, FieldInvCollapse
<1>3. ASSUME NEW c \in prog.calls, resolveIndCall(c) PROVE FieldInv'
    <2>1. \A h \in c.heap : Base[h[2]] = h[2]
        BY ProgramTypes DEF TypeOK
    <2>2. ASSUME NEW n \in Nodes, NEW o \in pts'[n] PROVE o \in pts[n] \/ o = Base[o]
        <3>1. pts'[n] = pts[n] \/ pts'[n] = pts[n] \cup {q \in ObjNodes : <<n, q>> \in c.heap}
            BY <1>3 DEF resolveIndCall
        <3>2. ASSUME <<n, o>> \in c.heap PROVE o = Base[o]
            <4>1. Base[<<n, o>>[2]] = <<n, o>>[2]
                BY <2>1, <3>2
            <4> QED BY <4>1
        <3> QED BY <2>2, <3>1, <3>2
    <2>3. UNCHANGED <<fieldInsensitive, fields, phase, toCollapse>>
        BY <1>3 DEF resolveIndCall, objectVars
    <2> QED BY <2>2, <2>3 DEF FieldInv, FieldsGone, FieldsKnown, BasesOnly, Solving
<1>4. CASE endIteration(first)
    <2>1. UNCHANGED <<pts, fieldInsensitive, fields, toCollapse>> /\ Solving
        BY <1>4 DEF endIteration, ptsVars, objectVars, Solving
    <2> QED BY <2>1, FieldInvFrame DEF FieldInv, BasesOnly
<1>5. ASSUME ~Solving, ~Solving', UNCHANGED <<pts, fieldInsensitive, toCollapse>>
      PROVE  FieldInv'
    BY <1>5, FieldInvFrame DEF FieldInv, BasesOnly
<1>6. ASSUME NEW n \in redundantGepNodes, removeGepNode(n) PROVE FieldInv'
    BY <1>5, <1>6 DEF removeGepNode, Solving, ptsVars
<1>7. CASE finish
    BY <1>5, <1>7 DEF finish, Solving, ptsVars, objectVars
<1>8. CASE Terminated
    BY <1>5, <1>8 DEF Terminated, Solving, vars, ptsVars, objectVars
<1> QED BY <1>1, <1>2, <1>3, <1>4, <1>6, <1>7, <1>8 DEF Common
-----------------------------------------------------------------------------
(* What a wave relies on: geps join two nodes, and fields are pointed to.  *)

NoSelfGeps == \A g \in gepE : g.src # g.dst

\* A field was created for a points-to set, and left it only by a collapse.
FieldsInUse ==
    \A o \in fields :
        Base[o] \in fieldInsensitive \ toCollapse \/ \E n \in Nodes : o \in pts[n]

(***************************************************************************)
(* A gep that would join the merged node and its representative is lost.   *)
(***************************************************************************)
LEMMA SelfGepsMerge ==
    ASSUME TypeOK, NoSelfGeps, NEW node \in Nodes, NEW r \in Nodes, moveEdgesToRepNode(node, r)
    PROVE  NoSelfGeps'
<1> SUFFICES ASSUME NEW g \in MovedGeps(node, r) PROVE g.src # g.dst
    BY DEF NoSelfGeps, moveEdgesToRepNode
<1>1. CASE g \in gepE
    BY <1>1 DEF NoSelfGeps
<1>2. ASSUME NEW h \in gepE, Touches(h, node), h \notin InsideScc(node, r),
             g = RetargetGep(h, node, r)
      PROVE  g.src # g.dst
    <2>1. h \in GepEdges
        BY DEF TypeOK
    <2>2. g.src = Retarget(h.src, node, r) /\ g.dst = Retarget(h.dst, node, r)
        BY <1>2, <2>1 DEF RetargetGep, GepEdges
    <2>3. ~({h.src, h.dst} \subseteq {node, r})
        BY <1>2 DEF InsideScc
    <2>4. h.src # h.dst
        BY DEF NoSelfGeps
    <2> QED BY <2>2, <2>3, <2>4 DEF Retarget
<1> QED BY <1>1, <1>2 DEF MovedGeps

(***************************************************************************)
(* Steps that neither create nor collapse fields.                          *)
(***************************************************************************)
LEMMA FieldsInUseFrame ==
    ASSUME FieldsInUse, UNCHANGED <<fields, fieldInsensitive>>,
           \A n \in Nodes : pts[n] \subseteq pts'[n],
           toCollapse' \cap fieldInsensitive \subseteq toCollapse
    PROVE  FieldsInUse'
BY DEF FieldsInUse

(***************************************************************************)
(* What is told to be collapsed has not been collapsed before.             *)
(***************************************************************************)
LEMMA ToCollapseNew ==
    ASSUME NEW n
    PROVE  (ToCollapse(n) \cup NewlyInsensitive(n)) \cap fieldInsensitive = {}
BY DEF ToCollapse, NewlyInsensitive

(***************************************************************************)
(* Processing a node creates fields for the sets it adds them to.          *)
(***************************************************************************)
LEMMA FieldsInUsePropagate ==
    ASSUME TypeOK, FieldsInUse, toCollapse = {}, NEW n \in Nodes, NEW queue, handleCopyGep(n, queue)
    PROVE  FieldsInUse'
<1>1. PICK insensitive \in {fieldInsensitive, fieldInsensitive \cup NewlyInsensitive(n)} :
          /\ pts' = [d \in Nodes |-> pts[d] \cup [e \in Nodes |-> Gained(n, insensitive, e)][d]]
          /\ fields' = fields \cup
                 UNION {GepTargets(g, diffPts(n), insensitive) : g \in GepsFrom(n)}
          /\ fieldInsensitive' = fieldInsensitive \cup NewlyInsensitive(n)
          /\ toCollapse' = NewlyInsensitive(n)
    BY DEF handleCopyGep
<1>2. \A d \in Nodes : pts'[d] = pts[d] \cup Gained(n, insensitive, d)
    BY <1>1
<1>3. ASSUME NEW o \in fields, Base[o] \in fieldInsensitive
      PROVE  Base[o] \in fieldInsensitive' \ toCollapse'
    BY <1>1, <1>3, ToCollapseNew
<1>4. ASSUME NEW o \in fields, NEW m \in Nodes, o \in pts[m]
      PROVE  \E d \in Nodes : o \in pts'[d]
    BY <1>2, <1>4
<1>5. ASSUME NEW g \in GepsFrom(n), NEW o \in GepTargets(g, diffPts(n), insensitive)
      PROVE  \E d \in Nodes : o \in pts'[d]
    <2>1. g.dst \in Nodes
        BY DEF TypeOK, GepsFrom, GepEdges
    <2>2. GepTargets(g, diffPts(n), insensitive) \subseteq Gained(n, insensitive, g.dst)
        BY DEF Gained
    <2> QED BY <1>2, <1>5, <2>1, <2>2
<1>6. ASSUME NEW o \in fields'
      PROVE  \/ o \in fields
             \/ \E g \in GepsFrom(n) : o \in GepTargets(g, diffPts(n), insensitive)
    BY <1>1, <1>6
<1> QED BY <1>3, <1>4, <1>5, <1>6 DEF FieldsInUse

(***************************************************************************)
(* A collapse takes only the fields of the object it has finished with.    *)
(***************************************************************************)
LEMMA FieldsInUseCollapse ==
    ASSUME TypeOK, FieldsInUse, NEW b \in toCollapse, Base[b] = b, collapseField(b)
    PROVE  FieldsInUse'
<1> DEFINE fs == AllFieldsObjNode(b)
<1>1. /\ toCollapse' = toCollapse \ {b} /\ fieldInsensitive' = fieldInsensitive \cup {b}
      /\ fields' = fields
      /\ \A n \in Nodes : pts'[n] = CollapsedPts(n, fs, b)
    BY DEF collapseField
<1> SUFFICES ASSUME NEW o \in fields, Base[o] \notin fieldInsensitive' \ toCollapse'
             PROVE  \E n \in Nodes : o \in pts'[n]
    BY <1>1 DEF FieldsInUse
<1>2. Base[o] # b
    BY <1>1
<1>3. PICK n \in Nodes : o \in pts[n]
    BY <1>1, <1>2 DEF FieldsInUse
<1>4. o \notin fs
    BY <1>2 DEF AllFieldsObjNode
<1> QED BY <1>1, <1>3, <1>4 DEF CollapsedPts

(***************************************************************************)
(* If no node points to a field of the object there is nothing to merge.   *)
(***************************************************************************)
LEMMA NoHitNoMerge ==
    ASSUME TypeOK, FieldsInUse, NEW b \in toCollapse, collapseField(b), ~reanalyze'
    PROVE  /\ ~reanalyze /\ UNCHANGED <<pts, worklist>>
           /\ \A c \in cycles' : c.left = {}
<1> DEFINE fs == AllFieldsObjNode(b)
           hit == {n \in Nodes : pts[n] \cap fs # {}}
<1>1. ~reanalyze /\ hit = {}
    BY DEF collapseField
<1>2. fs = {}
    BY <1>1 DEF FieldsInUse, AllFieldsObjNode
<1>3. worklist' = worklist \cup {rep[n] : n \in hit}
    BY DEF collapseField
<1>4. worklist' = worklist
    BY <1>1, <1>3
<1>5. pts' = pts
    <2>1. pts' = [n \in Nodes |-> CollapsedPts(n, fs, b)]
        BY DEF collapseField
    <2>2. \A n \in Nodes : CollapsedPts(n, fs, b) = pts[n]
        BY <1>2 DEF CollapsedPts
    <2> QED BY <2>1, <2>2 DEF TypeOK
<1>6. \A c \in cycles' : c.left = {rep[f] : f \in fs} \ {rep[b]}
    BY DEF collapseField
<1> QED BY <1>1, <1>2, <1>4, <1>5, <1>6


(***************************************************************************)
(* After a node has been processed it has nothing left to send, and the    *)
(* nodes that gained anything are its successors and on the worklist.      *)
(***************************************************************************)
LEMMA PropagateSends ==
    ASSUME TypeOK, NoSelfGeps, NEW n \in Nodes, NEW queue, handleCopyGep(n, queue)
    PROVE  /\ pts'[n] = pts[n] /\ propa'[n] = pts[n] /\ queue \subseteq worklist'
           /\ \A d \in Nodes \ {n} :
                  /\ propa'[d] = propa[d]
                  /\ pts'[d] = pts[d] \/ (<<n, d>> \in DirectEdges(TRUE) /\ d \in worklist')
<1>1. PICK insensitive \in {fieldInsensitive, fieldInsensitive \cup NewlyInsensitive(n)} :
          LET gain == [d \in Nodes |-> Gained(n, insensitive, d)]
          IN  /\ propa' = [propa EXCEPT ![n] = pts[n]]
              /\ pts' = [d \in Nodes |-> pts[d] \cup gain[d]]
              /\ worklist' = queue \cup {d \in Nodes : ~(gain[d] \subseteq pts[d])}
    BY DEF handleCopyGep
<1>2. /\ propa' = [propa EXCEPT ![n] = pts[n]]
      /\ \A d \in Nodes : pts'[d] = pts[d] \cup Gained(n, insensitive, d)
      /\ worklist' = queue \cup {d \in Nodes : ~(Gained(n, insensitive, d) \subseteq pts[d])}
    BY <1>1
<1>3. ASSUME NEW d \in Nodes, <<n, d>> \notin DirectEdges(TRUE)
      PROVE  Gained(n, insensitive, d) = {}
    <2>1. <<n, d>> \notin copyE /\ \A g \in GepsFrom(n) : g.dst # d
        BY <1>3 DEF DirectEdges, GepsFrom
    <2>2. {h \in GepsFrom(n) : h.dst = d} = {}
        BY <2>1
    <2> QED BY <2>1, <2>2 DEF Gained
<1>4. <<n, n>> \notin DirectEdges(TRUE)
    BY DEF TypeOK, NoSelfGeps, DirectEdges
<1>5. ASSUME NEW d \in Nodes \ {n}, pts'[d] # pts[d]
      PROVE  <<n, d>> \in DirectEdges(TRUE) /\ d \in worklist'
    BY <1>2, <1>3, <1>5
<1>6. propa'[n] = pts[n] /\ \A d \in Nodes \ {n} : propa'[d] = propa[d]
    BY <1>2 DEF TypeOK
<1>7. pts'[n] = pts[n]
    BY <1>2, <1>3, <1>4
<1> QED BY <1>2, <1>5, <1>6, <1>7

-----------------------------------------------------------------------------
(* What the program asks for and the graph has edges for.                  *)

\* Two nodes are one, or joined by a copy edge, or are about to be.
Linked(a, b) == rep[a] = rep[b] \/ <<rep[a], rep[b]>> \in copyE \cup newCopies

WantedCopies == prog.copy \cup UNION {c.params : c \in {d \in indCalls : d.argsMatch}}

AddressesKept == \A e \in prog.addr : AddrHolds(e)
CopiesLinked == \A e \in WantedCopies : Linked(e[1], e[2])
AccessesKept ==
    /\ \A e \in prog.load : <<rep[e[1]], rep[e[2]]>> \in loadE
    /\ \A e \in prog.store : <<rep[e[1]], rep[e[2]]>> \in storeE

\* The objects whose fields are gone from the points-to sets.
Collapsed == fieldInsensitive \ toCollapse

(***************************************************************************)
(* What a node has sent through a gep edge has arrived, as far as the      *)
(* objects still have their fields, and the exclusions are recorded.       *)
(***************************************************************************)
GepsSent ==
    \A g \in gepE :
        /\ HasAll(pts[g.dst], GepTargets(g, propa[g.src], Collapsed))
        /\ {g.inst} \X ExcludedByInvariant(g, propa[g.src]) \subseteq varGepPtd

RedundantKnown == \A n \in redundantGepNodes : Base[n] \in fieldInsensitive

LinkInv ==
    /\ RedundantKnown
    /\ Solving => AddressesKept /\ CopiesLinked /\ AccessesKept /\ GepsSent

(***************************************************************************)
(* A gep treats each object on its own.                                    *)
(***************************************************************************)
LEMMA GepTargetsOne ==
    ASSUME NEW g, NEW objs, NEW insensitive, NEW t
    PROVE  t \in GepTargets(g, objs, insensitive)
               <=> \E o \in objs : t \in GepTargets(g, {o}, insensitive)
BY DEF GepTargets, VariantTargets

(***************************************************************************)
(* A set of objects excludes what one of its members excludes.             *)
(***************************************************************************)
LEMMA ExcludedOne ==
    ASSUME NEW g, NEW objs, NEW t
    PROVE  t \in ExcludedByInvariant(g, objs) <=> \E o \in objs : t \in ExcludedByInvariant(g, {o})
BY DEF ExcludedByInvariant

(***************************************************************************)
(* A gep that saw more objects without fields made their bases: they stand *)
(* for the fields.                                                         *)
(***************************************************************************)
LEMMA GepTargetsBase ==
    ASSUME NEW g \in GepEdges, NEW objs \in SUBSET ObjNodes, NEW more, NEW fewer, fewer \subseteq more,
           NEW set, GepTargets(g, objs, more) \subseteq set
    PROVE  Covers(set, GepTargets(g, objs, fewer), more)
<1> SUFFICES ASSUME NEW t \in GepTargets(g, objs, fewer)
             PROVE  t \in set \/ Base[t] \in set \cap more
    BY DEF Covers
<1>1. ASSUME NEW o \in ObjNodes, NEW k \in Offsets, t = GepObjNode(o, k, fewer),
             GepObjNode(o, k, more) \in set
      PROVE  t \in set \/ Base[t] \in set \cap more
    <2>1. Base[FieldOf[o][k]] = Base[o] /\ Base[Base[o]] = Base[o]
        BY GraphAssumption
    <2> QED BY <1>1, <2>1 DEF GepObjNode
<1>2. CASE t \in GepTargets(g, objs, more)
    BY <1>2
<1>3. CASE g.kind = "normal" /\ t \notin GepTargets(g, objs, more)
    <2>1. g.off \in Offsets
        BY DEF GepEdges
    <2>2. PICK o \in objs \ OpaqueObjs : t = GepObjNode(o, g.off, fewer)
        BY <1>3 DEF GepTargets
    <2>3. GepObjNode(o, g.off, more) \in set
        BY <1>3 DEF GepTargets
    <2> QED BY <1>1, <2>1, <2>2, <2>3
<1>4. CASE g.kind # "normal" /\ t \notin GepTargets(g, objs, more)
    <2>1. 0 \in Offsets
        BY GraphAssumption
    <2>2. PICK o \in objs \ OpaqueObjs : InvariantVGEP /\ Base[o] \in ArrayObjs \ StructObjs
                                         /\ t = GepObjNode(o, 0, fewer)
        BY <1>4 DEF GepTargets, VariantTargets
    <2>3. GepObjNode(o, 0, more) \in set
        BY <1>4, <2>2 DEF GepTargets, VariantTargets
    <2> QED BY <1>1, <2>1, <2>2, <2>3
<1> QED BY <1>2, <1>3, <1>4

(***************************************************************************)
(* What one more insensitive object changes: fields of it become itself.   *)
(***************************************************************************)
LEMMA GepTargetsNew ==
    ASSUME NEW g \in GepEdges, NEW objs \in SUBSET ObjNodes, NEW insensitive, NEW b,
           NEW t \in GepTargets(g, objs, insensitive \cup {b}),
           t \notin GepTargets(g, objs, insensitive)
    PROVE  t = b /\ \E u \in GepTargets(g, objs, insensitive) : Base[u] = b
<1>1. ASSUME NEW o \in ObjNodes, NEW k \in Offsets,
             t = GepObjNode(o, k, insensitive \cup {b}), t # GepObjNode(o, k, insensitive)
      PROVE  t = b /\ Base[GepObjNode(o, k, insensitive)] = b
    BY <1>1, GraphAssumption DEF GepObjNode
<1>2. CASE g.kind = "normal"
    <2>1. PICK o \in objs \ OpaqueObjs : t = GepObjNode(o, g.off, insensitive \cup {b})
        BY <1>2 DEF GepTargets
    <2>2. GepObjNode(o, g.off, insensitive) \in GepTargets(g, objs, insensitive)
        BY <1>2, <2>1 DEF GepTargets
    <2>3. g.off \in Offsets /\ o \in ObjNodes
        BY <2>1 DEF GepEdges
    <2> QED BY <1>1, <2>1, <2>2, <2>3
<1>3. CASE g.kind # "normal"
    <2>1. PICK o \in objs \ OpaqueObjs :
              /\ InvariantVGEP /\ Base[o] \in ArrayObjs \ StructObjs
              /\ t = GepObjNode(o, 0, insensitive \cup {b})
        BY <1>3 DEF GepTargets, VariantTargets
    <2>2. GepObjNode(o, 0, insensitive) \in GepTargets(g, objs, insensitive)
        BY <1>3, <2>1 DEF GepTargets, VariantTargets
    <2>3. 0 \in Offsets /\ o \in ObjNodes
        BY <2>1, GraphAssumption
    <2> QED BY <1>1, <2>1, <2>2, <2>3
<1> QED BY <1>2, <1>3

(***************************************************************************)
(* Steps that change neither the graph nor a points-to set.                *)
(***************************************************************************)
LEMMA LinkInvFrame ==
    ASSUME LinkInv, Solving, UNCHANGED <<graphVars, prog, ptsVars, objectVars, indCalls, varGepPtd>>,
           newCopies \subseteq newCopies', Collapsed' = Collapsed
    PROVE  LinkInv'
<1>1. RedundantKnown' /\ AddressesKept' /\ AccessesKept'
    BY DEF LinkInv, RedundantKnown, AddressesKept, AddrHolds, HasAll, Covers, AccessesKept, getPts,
           sccRepNode, graphVars, ptsVars, objectVars
<1>2. CopiesLinked'
    BY DEF LinkInv, CopiesLinked, WantedCopies, Linked, graphVars
<1>3. UNCHANGED <<gepE, pts, propa, fieldInsensitive>> /\ InvariantVGEP' = InvariantVGEP
    BY DEF graphVars, ptsVars, objectVars, InvariantVGEP
<1>4. GepsSent'
    BY <1>3 DEF LinkInv, GepsSent, GepTargets, VariantTargets, ExcludedByInvariant, HasAll, Covers
<1> QED BY <1>1, <1>2, <1>4 DEF LinkInv

(***************************************************************************)
(* The program's own constraints are the first edges.                      *)
(***************************************************************************)
LEMMA LinkInvInit ==
    ASSUME NEW first, IsProgram(prog), StartSolver(first)
    PROVE  LinkInv
<1>1. \A e \in prog.addr : e[1] \in ObjNodes /\ e[2] \in Nodes /\ e = <<e[1], e[2]>>
    BY ProgramTypes
<1>2. AddressesKept
    BY <1>1 DEF StartSolver, AddressesKept, AddrHolds, getPts, sccRepNode, HasAll, Covers
<1>3. \A e \in prog.copy \cup prog.load \cup prog.store :
          e[1] \in Nodes /\ e[2] \in Nodes /\ e = <<e[1], e[2]>>
    BY ProgramTypes DEF Edges
<1>4. \A n \in Nodes : rep[n] = n
    BY DEF StartSolver
<1>5. CopiesLinked
    BY <1>3, <1>4 DEF StartSolver, CopiesLinked, WantedCopies, Linked
<1>6. AccessesKept
    BY <1>3, <1>4 DEF StartSolver, AccessesKept
<1>7. \A g \in gepE : propa[g.src] = {}
    BY ProgramTypes DEF StartSolver, GepEdges
<1>8. GepsSent
    BY <1>7 DEF GepsSent, GepTargets, VariantTargets, ExcludedByInvariant, HasAll, Covers
<1> QED BY <1>2, <1>5, <1>6, <1>8 DEF LinkInv, RedundantKnown, StartSolver

(***************************************************************************)
(* An address constraint is a fact, and facts stay.                        *)
(***************************************************************************)
LEMMA AddressesStay ==
    ASSUME TypeOK, AddressesKept, FactsStay, prog' = prog, fieldInsensitive \subseteq fieldInsensitive'
    PROVE  AddressesKept'
<1> SUFFICES ASSUME NEW e \in prog.addr PROVE HasAfter(pts'[rep'[e[2]]], {e[1]})
    BY DEF AddressesKept, AddrHolds, getPts, sccRepNode, HasAll, HasAfter
<1>1. e[1] \in ObjNodes /\ e[2] \in Nodes /\ Base[Base[e[1]]] = Base[e[1]]
    BY ProgramTypes, GraphAssumption DEF TypeOK
<1>2. HasAfter(pts'[rep'[e[2]]], pts[rep[e[2]]])
    BY <1>1 DEF FactsStay
<1>3. HasAll(pts[rep[e[2]]], {e[1]})
    BY DEF AddressesKept, AddrHolds, getPts, sccRepNode
<1> QED BY <1>1, <1>2, <1>3 DEF HasAll, HasAfter, Covers

(***************************************************************************)
(* The copies a program may ask for are between nodes.                     *)
(***************************************************************************)
LEMMA WantedTypes ==
    ASSUME TypeOK, NEW e \in WantedCopies
    PROVE  e \in Edges /\ e[1] \in Nodes /\ e[2] \in Nodes
<1>1. prog.copy \subseteq Edges /\ \A c \in indCalls : c.params \subseteq Edges
    BY ProgramTypes DEF TypeOK
<1> QED BY <1>1 DEF WantedCopies, Edges

(***************************************************************************)
(* A merge redirects all edges alike.                                      *)
(***************************************************************************)
LEMMA LinkInvMerge ==
    ASSUME TypeOK, RepInv, DoneSettled, LinkInv,
           NEW c \in cycles, NEW node \in c.left, mergeNode(c, node)
    PROVE  LinkInv'
<1> DEFINE r == c.rep
<1>1. Solving /\ newCopies = {} /\ newCopies' = {}
    BY DEF DoneSettled, Settled, RepInv, EdgesApart, mergeNode
<1>2. /\ r \in Nodes /\ node \in Nodes /\ r # node
      /\ \A m \in Nodes : rep'[m] = Retarget(rep[m], node, r)
    BY RepInvMerge DEF Reps, Retarget
<1>3. /\ UNCHANGED <<prog, indCalls, varGepPtd, fieldInsensitive, redundantGepNodes, toCollapse, phase>>
      /\ moveEdgesToRepNode(node, r)
    BY DEF mergeNode, objectVars, invariantVars
<1>4. RedundantKnown'
    BY <1>3 DEF LinkInv, RedundantKnown
<1>5. AddressesKept'
    BY <1>1, <1>3, FactsMerge, AddressesStay DEF LinkInv
<1>6. AccessesKept'
    <2>1. ASSUME NEW e \in prog.load PROVE <<rep'[e[1]], rep'[e[2]]>> \in loadE'
        <3>1. <<rep[e[1]], rep[e[2]]>> \in loadE /\ e[1] \in Nodes /\ e[2] \in Nodes
            BY <1>1, ProgramTypes DEF LinkInv, AccessesKept, TypeOK, Edges
        <3> QED BY <1>2, <1>3, <3>1 DEF moveEdgesToRepNode, RetargetEdge
    <2>2. ASSUME NEW e \in prog.store PROVE <<rep'[e[1]], rep'[e[2]]>> \in storeE'
        <3>1. <<rep[e[1]], rep[e[2]]>> \in storeE /\ e[1] \in Nodes /\ e[2] \in Nodes
            BY <1>1, ProgramTypes DEF LinkInv, AccessesKept, TypeOK, Edges
        <3> QED BY <1>2, <1>3, <3>1 DEF moveEdgesToRepNode, RetargetEdge
    <2> QED BY <1>3, <2>1, <2>2 DEF AccessesKept
<1>7. CopiesLinked'
    <2> SUFFICES ASSUME NEW e \in WantedCopies
                 PROVE  rep'[e[1]] = rep'[e[2]] \/ <<rep'[e[1]], rep'[e[2]]>> \in copyE'
        BY <1>3 DEF CopiesLinked, WantedCopies, Linked
    <2>2. e[1] \in Nodes /\ e[2] \in Nodes
        BY WantedTypes
    <2>1. rep[e[1]] = rep[e[2]] \/ <<rep[e[1]], rep[e[2]]>> \in copyE
        BY <1>1 DEF LinkInv, CopiesLinked, Linked
    <2> QED BY <1>2, <1>3, <2>1, <2>2 DEF moveEdgesToRepNode, MovedCopies, RetargetEdge
<1>8. /\ pts' = [pts EXCEPT ![r] = pts[r] \cup pts[node]]
      /\ propa' = [propa EXCEPT ![r] = propa[r] \cap propa[node]]
    BY DEF mergeNode, unionPts, MergedPropa, updatePropaPts
<1>9. ASSUME NEW m \in Nodes
      PROVE  pts[m] \subseteq pts'[Retarget(m, node, r)] /\ propa'[Retarget(m, node, r)] \subseteq propa[m]
    BY <1>2, <1>8 DEF TypeOK, Retarget
<1>10. ASSUME NEW m \in Nodes PROVE pts[m] \subseteq pts'[m] /\ propa'[m] \subseteq propa[m]
    BY <1>2, <1>8 DEF TypeOK
<1>11. ASSUME NEW g \in gepE' 
       PROVE  \E h \in gepE : /\ g.kind = h.kind /\ g.off = h.off /\ g.inst = h.inst
                              /\ pts[h.dst] \subseteq pts'[g.dst] /\ propa'[g.src] \subseteq propa[h.src]
    <2>1. PICK h \in gepE : g = h \/ g = RetargetGep(h, node, r)
        BY <1>3 DEF moveEdgesToRepNode, MovedGeps
    <2>2. h \in GepEdges
        BY DEF TypeOK
    <2>3. CASE g = h
        BY <1>10, <2>2, <2>3 DEF GepEdges
    <2>4. CASE g = RetargetGep(h, node, r)
        <3>1. /\ g.kind = h.kind /\ g.off = h.off /\ g.inst = h.inst
              /\ g.src = Retarget(h.src, node, r) /\ g.dst = Retarget(h.dst, node, r)
            BY <2>2, <2>4 DEF RetargetGep, GepEdges
        <3> QED BY <1>9, <2>2, <3>1 DEF GepEdges
    <2> QED BY <2>1, <2>3, <2>4
<1>12. GepsSent'
    <2>1. InvariantVGEP' = InvariantVGEP /\ Collapsed' = Collapsed /\ varGepPtd' = varGepPtd
        BY <1>3 DEF InvariantVGEP, Collapsed
    <2> SUFFICES ASSUME NEW g \in gepE'
                 PROVE  /\ HasAfter(pts'[g.dst], GepTargets(g, propa'[g.src], Collapsed))
                        /\ {g.inst} \X ExcludedByInvariant(g, propa'[g.src]) \subseteq varGepPtd
        BY <2>1 DEF GepsSent, GepTargets, VariantTargets, ExcludedByInvariant, HasAll, HasAfter, Covers
    <2>2. PICK h \in gepE : /\ g.kind = h.kind /\ g.off = h.off /\ g.inst = h.inst
                            /\ pts[h.dst] \subseteq pts'[g.dst] /\ propa'[g.src] \subseteq propa[h.src]
        BY <1>11
    <2>3. GepTargets(g, propa'[g.src], Collapsed) = GepTargets(h, propa'[g.src], Collapsed)
        BY <2>2 DEF GepTargets
    <2>4. ExcludedByInvariant(g, propa'[g.src]) = ExcludedByInvariant(h, propa'[g.src])
        BY <2>2 DEF ExcludedByInvariant
    <2>5. GepTargets(h, propa'[g.src], Collapsed) \subseteq GepTargets(h, propa[h.src], Collapsed)
        BY <2>2, GepTargetsOne
    <2>6. ExcludedByInvariant(h, propa'[g.src]) \subseteq ExcludedByInvariant(h, propa[h.src])
        BY <2>2, ExcludedOne
    <2>7. /\ HasAll(pts[h.dst], GepTargets(h, propa[h.src], Collapsed))
          /\ {h.inst} \X ExcludedByInvariant(h, propa[h.src]) \subseteq varGepPtd
        BY <1>1 DEF LinkInv, GepsSent
    <2>8. HasAfter(pts'[g.dst], GepTargets(h, propa'[g.src], Collapsed))
        BY <1>3, <2>2, <2>5, <2>7, HasAfterGrows
    <2> QED BY <2>2, <2>3, <2>4, <2>6, <2>7, <2>8
<1> QED BY <1>4, <1>5, <1>6, <1>7, <1>12 DEF LinkInv

(***************************************************************************)
(* A new copy edge is one that was wanted; its source forgets what it sent.*)
(***************************************************************************)
LEMMA LinkInvAddEdge ==
    ASSUME TypeOK, LinkInv, DoneSettled, NEW e \in newCopies, insertCopy(e)
    PROVE  LinkInv'
<1>1. /\ UNCHANGED <<rep, loadE, storeE, gepE, prog, pts, objectVars, indCalls, varGepPtd, toCollapse>>
      /\ copyE' = copyE \cup {e} /\ newCopies' = newCopies \ {e}
      /\ propa' = [propa EXCEPT ![e[1]] = @ \cap propa[e[2]]]
    BY DEF insertCopy, updatePropaPts, invariantVars
<1>2. Solving
    BY DEF DoneSettled, Settled
<1>3. RedundantKnown' /\ AddressesKept' /\ AccessesKept'
    BY <1>1, <1>2 DEF LinkInv, RedundantKnown, AddressesKept, AddrHolds, HasAll, Covers, AccessesKept,
        getPts, sccRepNode, objectVars
<1>4. copyE' \cup newCopies' = copyE \cup newCopies
    BY <1>1
<1>5. CopiesLinked'
    BY <1>1, <1>2, <1>4 DEF LinkInv, CopiesLinked, WantedCopies, Linked
<1>6. InvariantVGEP' = InvariantVGEP /\ Collapsed' = Collapsed
    BY <1>1 DEF InvariantVGEP, Collapsed, objectVars
<1>7. GepsSent'
    <2> SUFFICES ASSUME NEW g \in gepE
                 PROVE  /\ HasAfter(pts[g.dst], GepTargets(g, propa'[g.src], Collapsed))
                        /\ {g.inst} \X ExcludedByInvariant(g, propa'[g.src]) \subseteq varGepPtd
        BY <1>1, <1>6 DEF GepsSent, GepTargets, VariantTargets, ExcludedByInvariant, HasAll, HasAfter, Covers
    <2>1. propa'[g.src] \subseteq propa[g.src]
        BY <1>1 DEF TypeOK, GepEdges
    <2>2. GepTargets(g, propa'[g.src], Collapsed) \subseteq GepTargets(g, propa[g.src], Collapsed)
        BY <2>1, GepTargetsOne
    <2>3. ExcludedByInvariant(g, propa'[g.src]) \subseteq ExcludedByInvariant(g, propa[g.src])
        BY <2>1, ExcludedOne
    <2>4. /\ HasAll(pts[g.dst], GepTargets(g, propa[g.src], Collapsed))
          /\ {g.inst} \X ExcludedByInvariant(g, propa[g.src]) \subseteq varGepPtd
        BY <1>2 DEF LinkInv, GepsSent
    <2> QED BY <1>1, <2>2, <2>3, <2>4, HasAfterGrows DEF objectVars
<1> QED BY <1>3, <1>5, <1>7 DEF LinkInv

(***************************************************************************)
(* Processing a node sends its difference through every gep edge, made     *)
(* with the objects insensitive that were so before or after.              *)
(***************************************************************************)
LEMMA LinkInvPropagate ==
    ASSUME TypeOK, LinkInv, Solving, toCollapse = {},
           NEW n \in Nodes, NEW queue, handleCopyGep(n, queue),
           UNCHANGED <<graphVars, prog, newCopies, indCalls, redundantGepNodes>>
    PROVE  LinkInv'
<1>1. PICK insensitive \in {fieldInsensitive, fieldInsensitive \cup NewlyInsensitive(n)} :
          LET gain == [d \in Nodes |-> Gained(n, insensitive, d)]
          IN  /\ propa' = [propa EXCEPT ![n] = pts[n]]
              /\ pts' = [d \in Nodes |-> pts[d] \cup gain[d]]
              /\ fieldInsensitive' = fieldInsensitive \cup NewlyInsensitive(n)
              /\ toCollapse' = NewlyInsensitive(n)
              /\ varGepPtd' = varGepPtd \cup
                   UNION {{g.inst} \X ExcludedByInvariant(g, diffPts(n)) : g \in GepsFrom(n)}
    BY DEF handleCopyGep
<1>2. /\ propa' = [propa EXCEPT ![n] = pts[n]]
      /\ \A d \in Nodes : pts'[d] = pts[d] \cup Gained(n, insensitive, d)
      /\ fieldInsensitive' = fieldInsensitive \cup NewlyInsensitive(n)
      /\ toCollapse' = NewlyInsensitive(n)
      /\ varGepPtd' = varGepPtd \cup
             UNION {{g.inst} \X ExcludedByInvariant(g, diffPts(n)) : g \in GepsFrom(n)}
    BY <1>1
<1>3. RedundantKnown' /\ AccessesKept'
    BY <1>2 DEF LinkInv, RedundantKnown, AccessesKept, graphVars
<1>4. CopiesLinked'
    BY DEF LinkInv, CopiesLinked, WantedCopies, Linked, graphVars
<1>5. AddressesKept'
    <2>1. FactsStay
        BY <1>2, FactsGrow DEF graphVars
    <2> QED BY <1>2, <2>1, AddressesStay DEF LinkInv
<1>6. NewlyInsensitive(n) \cap fieldInsensitive = {}
    BY ToCollapseNew
<1>7. Collapsed' = fieldInsensitive /\ Collapsed = fieldInsensitive /\ InvariantVGEP' = InvariantVGEP
    BY <1>2, <1>6 DEF Collapsed, InvariantVGEP
<1>8. GepsSent'
    <2> SUFFICES ASSUME NEW g \in gepE
                 PROVE  /\ HasAfter(pts'[g.dst], GepTargets(g, propa'[g.src], fieldInsensitive))
                        /\ {g.inst} \X ExcludedByInvariant(g, propa'[g.src]) \subseteq varGepPtd'
        BY <1>7 DEF GepsSent, GepTargets, VariantTargets, ExcludedByInvariant, HasAll, HasAfter, Covers, graphVars
    <2>1. g \in GepEdges /\ g.src \in Nodes /\ g.dst \in Nodes
        BY DEF TypeOK, GepEdges
    <2>2. /\ HasAll(pts[g.dst], GepTargets(g, propa[g.src], fieldInsensitive))
          /\ {g.inst} \X ExcludedByInvariant(g, propa[g.src]) \subseteq varGepPtd
        BY <1>7 DEF LinkInv, GepsSent
    <2>3. pts[g.dst] \subseteq pts'[g.dst]
        BY <1>2, <2>1
    <2>4. HasAfter(pts'[g.dst], GepTargets(g, propa[g.src], fieldInsensitive))
        BY <1>2, <2>2, <2>3, HasAfterGrows
    <2>5. CASE g.src # n
        <3>1. propa'[g.src] = propa[g.src]
            BY <1>2, <2>1, <2>5 DEF TypeOK
        <3> QED BY <1>2, <2>2, <2>4, <3>1
    <2>6. CASE g.src = n
        <3>1. propa'[g.src] = pts[n] /\ g \in GepsFrom(n)
            BY <1>2, <2>6 DEF TypeOK, GepsFrom
        <3>2. diffPts(n) \in SUBSET ObjNodes
            BY DEF TypeOK, PTS, diffPts
        <3>3. GepTargets(g, diffPts(n), insensitive) \subseteq pts'[g.dst]
            <4>1. GepTargets(g, diffPts(n), insensitive) \subseteq Gained(n, insensitive, g.dst)
                BY <3>1 DEF Gained
            <4> QED BY <1>2, <2>1, <4>1
        <3>4. HasAfter(pts'[g.dst], GepTargets(g, diffPts(n), fieldInsensitive))
            <4>1. Covers(pts'[g.dst], GepTargets(g, diffPts(n), fieldInsensitive), insensitive)
                BY <2>1, <3>2, <3>3, GepTargetsBase
            <4> QED BY <1>2, <4>1 DEF HasAfter, Covers
        <3>5. ASSUME NEW t \in GepTargets(g, pts[n], fieldInsensitive) PROVE HasAfter(pts'[g.dst], {t})
            <4>1. PICK o \in pts[n] : t \in GepTargets(g, {o}, fieldInsensitive)
                BY GepTargetsOne
            <4>2. CASE o \in propa[n]
                <5>1. t \in GepTargets(g, propa[g.src], fieldInsensitive)
                    BY <2>6, <4>1, <4>2, GepTargetsOne
                <5> QED BY <2>4, <5>1 DEF HasAfter, Covers
            <4>3. CASE o \notin propa[n]
                <5>1. t \in GepTargets(g, diffPts(n), fieldInsensitive)
                    BY <4>1, <4>3, GepTargetsOne DEF diffPts
                <5> QED BY <3>4, <5>1 DEF HasAfter, Covers
            <4> QED BY <4>2, <4>3
        <3>6. ASSUME NEW t \in ExcludedByInvariant(g, pts[n]) PROVE <<g.inst, t>> \in varGepPtd'
            <4>1. PICK o \in pts[n] : t \in ExcludedByInvariant(g, {o})
                BY ExcludedOne
            <4>2. CASE o \in propa[n]
                <5>1. t \in ExcludedByInvariant(g, propa[g.src])
                    BY <2>6, <4>1, <4>2, ExcludedOne
                <5> QED BY <1>2, <2>2, <5>1
            <4>3. CASE o \notin propa[n]
                <5>1. t \in ExcludedByInvariant(g, diffPts(n))
                    BY <4>1, <4>3, ExcludedOne DEF diffPts
                <5> QED BY <1>2, <3>1, <5>1
            <4> QED BY <4>2, <4>3
        <3> QED BY <3>1, <3>5, <3>6 DEF HasAfter, Covers
    <2> QED BY <2>5, <2>6
<1> QED BY <1>3, <1>4, <1>5, <1>8 DEF LinkInv

(***************************************************************************)
(* A collapse puts the base wherever a gep has put a field.                *)
(***************************************************************************)
LEMMA LinkInvCollapse ==
    ASSUME TypeOK, LinkInv, FieldInv, DoneSettled, NEW b \in toCollapse, collapseField(b)
    PROVE  LinkInv'
<1> DEFINE fs == AllFieldsObjNode(b)
<1>1. Solving /\ FieldsKnown /\ b \in ObjNodes /\ Base[b] = b /\ fields \subseteq ObjNodes
    BY DEF DoneSettled, Settled, FieldInv, BasesOnly, TypeOK
<1>2. /\ UNCHANGED <<graphVars, prog, propa, newCopies, indCalls, varGepPtd>>
      /\ toCollapse' = toCollapse \ {b} /\ fieldInsensitive' = fieldInsensitive \cup {b}
      /\ redundantGepNodes' = redundantGepNodes \cup fs
      /\ \A n \in Nodes : pts'[n] = CollapsedPts(n, fs, b)
    BY DEF collapseField, invariantVars
<1>3. \A f \in fs : Base[f] = b
    BY DEF AllFieldsObjNode
<1> HIDE DEF fs
<1>4. RedundantKnown' /\ AccessesKept'
    BY <1>1, <1>2, <1>3 DEF LinkInv, RedundantKnown, AccessesKept, graphVars
<1>5. CopiesLinked'
    BY <1>1, <1>2 DEF LinkInv, CopiesLinked, WantedCopies, Linked, graphVars
<1>6. AddressesKept'
    BY <1>1, <1>2, FactsCollapse, AddressesStay DEF LinkInv
<1>7. Collapsed' = Collapsed \cup {b} /\ InvariantVGEP' = InvariantVGEP
    BY <1>2 DEF Collapsed, InvariantVGEP
<1>8. GepsSent'
    <2> SUFFICES ASSUME NEW g \in gepE
                 PROVE  /\ HasAfter(pts'[g.dst], GepTargets(g, propa[g.src], Collapsed \cup {b}))
                        /\ {g.inst} \X ExcludedByInvariant(g, propa[g.src]) \subseteq varGepPtd
        <3>1. gepE' = gepE /\ propa' = propa /\ varGepPtd' = varGepPtd
            BY <1>2 DEF graphVars
        <3>2. ASSUME NEW g \in gepE, NEW set
              PROVE  /\ GepTargets(g, set, Collapsed)' = GepTargets(g, set, Collapsed \cup {b})
                     /\ ExcludedByInvariant(g, set)' = ExcludedByInvariant(g, set)
            BY <1>7 DEF GepTargets, VariantTargets, ExcludedByInvariant
        <3> QED BY <3>1, <3>2 DEF GepsSent, HasAll, HasAfter
    <2> DEFINE old == GepTargets(g, propa[g.src], Collapsed)
    <2>1. g \in GepEdges /\ g.src \in Nodes /\ g.dst \in Nodes /\ propa[g.src] \in SUBSET ObjNodes
        BY DEF TypeOK, GepEdges, PTS
    <2>2. old \in SUBSET ObjNodes
        BY <2>1, GepTargetsType
    <2>3. HasAll(pts[g.dst], old) /\ {g.inst} \X ExcludedByInvariant(g, propa[g.src]) \subseteq varGepPtd
        BY <1>1 DEF LinkInv, GepsSent
    <2>4. HasAfter(pts'[g.dst], old)
        <3> HIDE DEF old
        <3> QED BY <1>1, <1>2, <2>1, <2>2, <2>3, CollapseKeeps DEF fs
    <2>5. ASSUME NEW t \in GepTargets(g, propa[g.src], Collapsed \cup {b}), t \notin old
          PROVE  t = b /\ \E u \in old : Base[u] = b
        BY <1>1, <2>1, <2>5, GepTargetsNew
    <2>6. ASSUME NEW u \in old, Base[u] = b PROVE b \in pts'[g.dst]
        <3>1. u \in pts'[g.dst] \/ b \in pts'[g.dst]
            BY <2>4, <2>6 DEF HasAfter, Covers
        <3>2. FieldsGone'
            BY FieldInvCollapse DEF FieldInv
        <3> QED BY <1>2, <2>1, <2>6, <3>1, <3>2 DEF FieldsGone
    <2>7. ASSUME NEW t \in GepTargets(g, propa[g.src], Collapsed \cup {b})
          PROVE  HasAfter(pts'[g.dst], {t})
        <3>1. CASE t \in old
            BY <2>4, <3>1 DEF HasAfter, Covers
        <3>2. CASE t \notin old
            BY <2>5, <2>6, <2>7, <3>2 DEF HasAfter, Covers
        <3> QED BY <3>1, <3>2
    <2> QED BY <2>3, <2>7 DEF HasAfter, Covers
<1> QED BY <1>4, <1>5, <1>6, <1>8 DEF LinkInv

(***************************************************************************)
(* A resolved call asks for the copies between arguments and parameters.   *)
(***************************************************************************)
LEMMA LinkInvCall ==
    ASSUME TypeOK, RepInv, LinkInv, NEW c \in prog.calls, resolveIndCall(c)
    PROVE  LinkInv'
<1>1. /\ Solving /\ newCopies = {} /\ indCalls' = indCalls \cup {c}
      /\ UNCHANGED <<graphVars, prog, propa, objectVars, toCollapse, varGepPtd>>
      /\ \A n \in Nodes : pts[n] \subseteq pts'[n]
    BY DEF resolveIndCall, Solving, Settled, invariantVars
<1>2. RedundantKnown' /\ AccessesKept'
    BY <1>1 DEF LinkInv, RedundantKnown, AccessesKept, graphVars, objectVars
<1>3. AddressesKept'
    <2>1. FactsStay
        BY <1>1, FactsGrow DEF graphVars
    <2> QED BY <1>1, <2>1, AddressesStay DEF LinkInv, objectVars
<1>4. ASSUME NEW e \in WantedCopies' PROVE Linked(e[1], e[2])'
    <2>1. CASE e \in WantedCopies
        BY <1>1, <2>1 DEF LinkInv, CopiesLinked, Linked, graphVars
    <2>2. CASE e \notin WantedCopies
        <3>1. c.argsMatch /\ e \in c.params
            BY <1>1, <2>2 DEF WantedCopies
        <3>2. newCopies' = NewEdges(c.params)
            BY <3>1 DEF resolveIndCall
        <3> QED BY <1>1, <3>1, <3>2 DEF Linked, NewEdges, graphVars
    <2> QED BY <2>1, <2>2
<1>5. CopiesLinked'
    BY <1>4 DEF CopiesLinked
<1>6. InvariantVGEP' = InvariantVGEP /\ Collapsed' = Collapsed
    BY <1>1 DEF InvariantVGEP, Collapsed, objectVars
<1>7. GepsSent'
    <2> SUFFICES ASSUME NEW g \in gepE
                 PROVE  /\ HasAfter(pts'[g.dst], GepTargets(g, propa[g.src], Collapsed))
                        /\ {g.inst} \X ExcludedByInvariant(g, propa[g.src]) \subseteq varGepPtd
        BY <1>1, <1>6 DEF GepsSent, GepTargets, VariantTargets, ExcludedByInvariant, HasAll, HasAfter, Covers,
            graphVars
    <2>1. pts[g.dst] \subseteq pts'[g.dst]
        BY <1>1 DEF TypeOK, GepEdges
    <2> QED BY <1>1, <2>1, HasAfterGrows DEF LinkInv, GepsSent, objectVars
<1> QED BY <1>2, <1>3, <1>5, <1>7 DEF LinkInv

(***************************************************************************)
(* The steps that do not depend on the loop.                               *)
(***************************************************************************)
LEMMA LinkInvCommon ==
    ASSUME TypeOK, RepInv, DoneSettled, FieldInv, LinkInv, NEW first \in Phases, Common(first)
    PROVE  LinkInv'
<1>1. ASSUME NEW c \in cycles, finishScc(c) \/ finishCollapse(c) PROVE LinkInv'
    <2>1. Solving /\ UNCHANGED <<graphVars, prog, ptsVars, objectVars, indCalls, varGepPtd, newCopies>>
        BY <1>1 DEF finishScc, finishCollapse, DoneSettled, Settled, invariantVars
    <2>2. toCollapse \subseteq toCollapse' /\ toCollapse' \cap fieldInsensitive \subseteq toCollapse
        BY <1>1, ToCollapseNew DEF finishScc, finishCollapse
    <2>3. Collapsed' = Collapsed
        BY <2>1, <2>2 DEF Collapsed, objectVars
    <2> QED BY <2>1, <2>3, LinkInvFrame
<1>2. ASSUME NEW b \in toCollapse, collapseField(b) PROVE LinkInv'
    BY <1>2, LinkInvCollapse
<1>3. ASSUME NEW c \in prog.calls, resolveIndCall(c) PROVE LinkInv'
    BY <1>3, LinkInvCall
<1>4. CASE endIteration(first)
    <2>1. /\ Solving
          /\ UNCHANGED <<graphVars, prog, ptsVars, objectVars, indCalls, varGepPtd, newCopies, toCollapse>>
        BY <1>4 DEF endIteration, Solving, invariantVars
    <2> QED BY <2>1, LinkInvFrame DEF Collapsed, objectVars
<1>5. ASSUME NEW n \in redundantGepNodes, removeGepNode(n) PROVE LinkInv'
    BY <1>5 DEF removeGepNode, LinkInv, RedundantKnown, Solving
<1>6. CASE finish
    BY <1>6 DEF finish, LinkInv, RedundantKnown, Solving, objectVars
<1>7. CASE Terminated
    BY <1>7 DEF Terminated, LinkInv, RedundantKnown, Solving, vars, objectVars
<1> QED BY <1>1, <1>2, <1>3, <1>4, <1>5, <1>6, <1>7 DEF Common

-----------------------------------------------------------------------------
(* The constraints hold where nothing is left to send.                     *)

AllSent == \A e \in DirectEdges(TRUE) : diffPts(e[1]) = {}

(***************************************************************************)
(* Linked nodes satisfy the copy constraint between them.                  *)
(***************************************************************************)
LEMMA LinkedCopies ==
    ASSUME TypeOK, CopiesPropagated, AllSent, newCopies = {},
           NEW a \in Nodes, NEW b \in Nodes, Linked(a, b)
    PROVE  HasAll(getPts(b), getPts(a))
<1>1. CASE rep[a] = rep[b]
    BY <1>1 DEF getPts, sccRepNode, HasAll, Covers
<1>2. CASE <<rep[a], rep[b]>> \in copyE
    <2>1. HasAll(pts[rep[b]], propa[rep[a]])
        BY <1>2 DEF CopiesPropagated
    <2>2. pts[rep[a]] \subseteq propa[rep[a]]
        BY <1>2 DEF AllSent, DirectEdges, diffPts
    <2> QED BY <2>1, <2>2, HasAllGrows DEF getPts, sccRepNode
<1> QED BY <1>1, <1>2 DEF Linked

(***************************************************************************)
(* When the solver may stop, the graph satisfies its constraints.          *)
(***************************************************************************)
LEMMA GraphConstraints ==
    ASSUME TypeOK, RepInv, FieldInv, CopyInv, LinkInv, AtFixpoint, AllSent
    PROVE  GraphConstraintsHold
<1>1. Solving /\ Settled /\ RepMaps /\ EdgesAtReps
    BY DEF AtFixpoint, Solving, RepInv
<1>2. AddressesKept /\ CopiesLinked /\ GepsSent /\ newCopies = {} /\ Collapsed = fieldInsensitive
    BY <1>1 DEF LinkInv, Settled, Collapsed
<1>3. \A e \in prog.addr : AddrHolds(e)
    BY <1>2 DEF AddressesKept
<1>4. \A e \in WantedCopies : CopyHolds(e)
    BY <1>2, LinkedCopies, WantedTypes DEF CopiesLinked, CopyHolds, CopyInv
<1>5. ASSUME NEW c \in prog.calls PROVE Connected(c)
    <2>1. c \in indCalls /\ c.argsMatch => \A e \in c.params : CopyHolds(e)
        BY <1>4 DEF WantedCopies
    <2>2. ~Resolvable(c)
        BY DEF AtFixpoint
    <2>3. c \in indCalls \/ c.fun \notin getPts(c.fptr) \/ ~(Cardinality(indCalls) < IndirectCallLimit)
          \/ (InvariantPWC /\ ~(c.argsMatch /\ c.typesMatch))
        BY <2>2 DEF Resolvable
    <2> QED BY <2>1, <2>3 DEF Connected
<1>6. ASSUME NEW g \in prog.gep, InGraph(g) PROVE GepHolds(g)
    <2> DEFINE h == [g EXCEPT !.src = rep[g.src], !.dst = rep[g.dst]]
    <2>1. g \in GepEdges
        BY ProgramTypes DEF TypeOK
    <2>2. /\ h.src = rep[g.src] /\ h.dst = rep[g.dst]
          /\ h.kind = g.kind /\ h.off = g.off /\ h.inst = g.inst
        BY <2>1 DEF GepEdges
    <2>5. InGraph(g) <=> h \in gepE \/ (isZeroOffsettedGepCGEdge(g) /\ rep[g.src] = rep[g.dst])
        BY DEF InGraph
    <2> HIDE DEF h
    <2>3. CASE h \in gepE
        <3>1. <<h.src, h.dst>> \in DirectEdges(TRUE)
            BY <2>3 DEF DirectEdges
        <3>2. pts[h.src] \subseteq propa[h.src]
            BY <3>1 DEF AllSent, diffPts
        <3>3. /\ HasAll(pts[h.dst], GepTargets(h, propa[h.src], fieldInsensitive))
              /\ {h.inst} \X ExcludedByInvariant(h, propa[h.src]) \subseteq varGepPtd
            BY <1>2, <2>3 DEF GepsSent
        <3>4. GepTargets(h, pts[h.src], fieldInsensitive) \subseteq GepTargets(h, propa[h.src], fieldInsensitive)
            BY <3>2, GepTargetsOne
        <3>5. ExcludedByInvariant(h, pts[h.src]) \subseteq ExcludedByInvariant(h, propa[h.src])
            BY <3>2, ExcludedOne
        <3>6. HasAll(pts[h.dst], GepTargets(h, pts[h.src], fieldInsensitive))
            BY <3>3, <3>4, HasAllGrows
        <3>7. /\ GepTargets(h, pts[h.src], fieldInsensitive) = GepTargets(g, pts[h.src], fieldInsensitive)
              /\ ExcludedByInvariant(h, pts[h.src]) = ExcludedByInvariant(g, pts[h.src])
            BY <2>2 DEF GepTargets, ExcludedByInvariant
        <3> QED BY <2>2, <3>3, <3>5, <3>6, <3>7 DEF GepHolds, getPts, sccRepNode
    <2>4. CASE isZeroOffsettedGepCGEdge(g) /\ rep[g.src] = rep[g.dst]
        <3> DEFINE r == rep[g.src]
        <3>1. g.kind = "normal" /\ g.off = 0 /\ r \in Nodes
            BY <2>1, <2>4 DEF isZeroOffsettedGepCGEdge, GepEdges, TypeOK
        <3>2. ExcludedByInvariant(g, pts[r]) = {}
            BY <3>1 DEF ExcludedByInvariant
        <3>3. \A o \in pts[r] : GepObjNode(o, 0, fieldInsensitive) = o
            BY <1>2, <3>1, GraphAssumption DEF FieldInv, FieldsGone, GepObjNode, TypeOK, PTS, Collapsed
        <3>4. GepTargets(g, pts[r], fieldInsensitive) \subseteq pts[r]
            BY <3>1, <3>3 DEF GepTargets
        <3>5. HasAll(pts[r], GepTargets(g, pts[r], fieldInsensitive))
            BY <3>4 DEF HasAll, Covers
        <3> QED BY <2>4, <3>2, <3>5 DEF GepHolds, getPts, sccRepNode
    <2> QED BY <1>6, <2>3, <2>4, <2>5
<1>7. prog.copy \subseteq WantedCopies
    BY DEF WantedCopies
<1> QED BY <1>3, <1>4, <1>5, <1>6, <1>7 DEF GraphConstraintsHold

(***************************************************************************)
(* The solution does not change any more unless fields were collapsed.     *)
(***************************************************************************)
LEMMA SolutionFrame ==
    ASSUME UNCHANGED <<rep, gepE, prog, pts, fieldInsensitive, indCalls, varGepPtd>>
    PROVE  /\ GraphConstraintsHold => GraphConstraintsHold'
           /\ UnmergedHold => UnmergedHold'
           /\ AccessesHold => AccessesHold'
           /\ impacted' = impacted => \A c : Resolvable(c)' => Resolvable(c)
<1>1. \A n : getPts(n)' = getPts(n)
    BY DEF getPts, sccRepNode
<1>2. /\ InvariantVGEP' = InvariantVGEP /\ InvariantPWC' = InvariantPWC
      /\ \A m : (Unmerged(m)' <=> Unmerged(m)) /\ (InGraph(m)' <=> InGraph(m))
    BY DEF InvariantVGEP, InvariantPWC, Unmerged, InGraph
<1>3. /\ \A e : AddrHolds(e)' <=> AddrHolds(e)
      /\ \A e : CopyHolds(e)' <=> CopyHolds(e)
      /\ \A e : LoadHolds(e)' <=> LoadHolds(e)
      /\ \A e : StoreHolds(e)' <=> StoreHolds(e)
    BY <1>1 DEF AddrHolds, CopyHolds, LoadHolds, StoreHolds, HasAll, Covers
<1>4. ASSUME NEW g, GepHolds(g) PROVE GepHolds(g)'
    BY <1>1, <1>2, <1>4 DEF GepHolds, GepTargets, VariantTargets, ExcludedByInvariant, HasAll, Covers
<1>5. ASSUME NEW c, Connected(c) PROVE Connected(c)'
    BY <1>1, <1>2, <1>3, <1>5 DEF Connected
<1>6. GraphConstraintsHold => GraphConstraintsHold'
    BY <1>2, <1>3, <1>4, <1>5 DEF GraphConstraintsHold
<1>7. UnmergedHold => UnmergedHold'
    BY <1>2, <1>3 DEF UnmergedHold
<1>8. AccessesHold => AccessesHold'
    BY <1>3 DEF AccessesHold
<1>9. impacted' = impacted => \A c : Resolvable(c)' => Resolvable(c)
    BY <1>1, <1>2 DEF Resolvable
<1> QED BY <1>6, <1>7, <1>8, <1>9

(***************************************************************************)
(* Once linked, two nodes stay linked while the solver runs.               *)
(***************************************************************************)
LEMMA LinkedMerge ==
    ASSUME TypeOK, RepInv, DoneSettled, NEW c \in cycles, NEW node \in c.left, mergeNode(c, node),
           NEW a \in Nodes, NEW b \in Nodes, Linked(a, b)
    PROVE  Linked(a, b)'
<1>1. newCopies = {} /\ copyE' = MovedCopies(node, c.rep)
    BY DEF RepInv, DoneSettled, Settled, EdgesApart, mergeNode, moveEdgesToRepNode
<1>2. \A m \in Nodes : rep'[m] = Retarget(rep[m], node, c.rep)
    BY RepInvMerge DEF Retarget
<1> QED BY <1>1, <1>2 DEF Linked, MovedCopies, RetargetEdge

(***************************************************************************)
(* Two nodes stay linked when copy edges only come.                        *)
(***************************************************************************)
LEMMA LinkedFrame ==
    ASSUME UNCHANGED rep, copyE \cup newCopies \subseteq copyE' \cup newCopies',
           NEW a, NEW b, Linked(a, b)
    PROVE  Linked(a, b)'
BY DEF Linked

-----------------------------------------------------------------------------
(* With both invariants, or geps never merged, no object loses its fields. *)

KeepsFields == InvariantVGEP /\ (InvariantPWC \/ ~MergePWC)

KeptInv ==
    KeepsFields =>
        /\ fieldInsensitive = {} /\ toCollapse = {}
        /\ \A c \in cycles : c.scc
        /\ InvariantPWC => pwcNodes = {}

(***************************************************************************)
(* Nothing asks for a collapse.                                            *)
(***************************************************************************)
LEMMA KeptNeedsNone ==
    ASSUME KeptInv, KeepsFields
    PROVE  \A n : ~NeedsCollapse(n) /\ NewlyInsensitive(n) = {}
BY DEF KeptInv, KeepsFields, NeedsCollapse, NewlyInsensitive

(***************************************************************************)
(* What leaves objects and invariants alone keeps KeptInv.                 *)
(***************************************************************************)
LEMMA KeptFrame ==
    ASSUME KeptInv, UNCHANGED <<prog, fieldInsensitive, toCollapse, pwcNodes>>,
           cycles' \subseteq cycles \/ \A c \in cycles' : c.scc
    PROVE  KeptInv'
BY DEF KeptInv, KeepsFields, InvariantVGEP, InvariantPWC, MergePWC

(***************************************************************************)
(* A merge found by detection is one, and makes no node a cycle's.         *)
(***************************************************************************)
LEMMA KeptMerge ==
    ASSUME TypeOK, KeptInv, NEW c \in cycles, NEW node \in c.left, mergeNode(c, node)
    PROVE  KeptInv'
<1>1. UNCHANGED <<prog, fieldInsensitive, toCollapse>>
    BY DEF mergeNode, objectVars
<1>2. InvariantPWC => pwcNodes' = pwcNodes
    BY DEF mergeNode
<1>3. \A d \in cycles' : d \in cycles \/ d.scc = c.scc
    BY DEF mergeNode, TypeOK, Cycles
<1> QED BY <1>1, <1>2, <1>3 DEF KeptInv, KeepsFields, InvariantVGEP, InvariantPWC, MergePWC

(***************************************************************************)
(* Propagating a node collapses no object when fields are kept.            *)
(***************************************************************************)
LEMMA KeptPropagate ==
    ASSUME KeptInv, NEW n, NEW queue, handleCopyGep(n, queue), UNCHANGED <<prog, cycles, pwcNodes>>
    PROVE  KeptInv'
<1>1. fieldInsensitive' = fieldInsensitive \cup NewlyInsensitive(n) /\ toCollapse' = NewlyInsensitive(n)
    BY DEF handleCopyGep
<1> QED BY <1>1, KeptNeedsNone DEF KeptInv, KeepsFields, InvariantVGEP, InvariantPWC, MergePWC

(***************************************************************************)
(* The steps that do not depend on the loop.                               *)
(***************************************************************************)
LEMMA KeptCommon ==
    ASSUME KeptInv, NEW first, Common(first)
    PROVE  KeptInv'
<1>1. ASSUME NEW c \in cycles, finishScc(c) PROVE KeptInv'
    BY <1>1 DEF finishScc, objectVars, KeptInv, KeepsFields, InvariantVGEP, InvariantPWC, MergePWC
<1>2. ASSUME NEW c \in cycles, finishCollapse(c) PROVE KeptInv'
    BY <1>2 DEF finishCollapse, objectVars, KeptInv, KeepsFields, InvariantVGEP, InvariantPWC, MergePWC
<1>3. ASSUME NEW b \in toCollapse, collapseField(b) PROVE KeptInv'
    BY <1>3 DEF collapseField, KeptInv, KeepsFields, InvariantVGEP, InvariantPWC, MergePWC
<1>4. ASSUME \/ \E c \in prog.calls : resolveIndCall(c)
             \/ endIteration(first) \/ finish \/ Terminated
             \/ \E n \in redundantGepNodes : removeGepNode(n)
      PROVE  KeptInv'
    <2>1. UNCHANGED <<prog, fieldInsensitive, toCollapse, pwcNodes, cycles>>
        BY <1>4 DEF resolveIndCall, endIteration, finish, Terminated, removeGepNode, objectVars, vars
    <2> QED BY <2>1, KeptFrame
<1> QED BY <1>1, <1>2, <1>3, <1>4 DEF Common

(***************************************************************************)
(* At first no object is collapsed and no cycle is found.                  *)
(***************************************************************************)
LEMMA KeptInvInit ==
    ASSUME NEW first, StartSolver(first)
    PROVE  KeptInv
BY DEF StartSolver, KeptInv

-----------------------------------------------------------------------------
(* The least solution of the inclusion constraints.                        *)

AllFacts == ObjNodes \X Nodes
Pointees(n) == Inclusion!PointeesIn(Inclusion!Least, n)

(***************************************************************************)
(* What the inclusions and the inferences from a set of facts are.         *)
(***************************************************************************)
LEMMA InclusionOf ==
    ASSUME NEW s, NEW e
    PROVE  e \in Inclusion!Inclusions(s) <=>
               \/ e \in prog.copy
               \/ \E g \in prog.gep : e = <<g.src, g.dst>>
               \/ \E x \in prog.load : \E o \in Inclusion!Through(s, x[1]) : e = <<o, x[2]>>
               \/ \E x \in prog.store : \E o \in Inclusion!Through(s, x[2]) : e = <<x[1], o>>
               \/ \E c \in Inclusion!Called(s) : e \in c.params
<1> DEFINE gepPart == {<<g.src, g.dst>> : g \in prog.gep}
           loadPart == UNION {{<<o, x[2]>> : o \in Inclusion!Through(s, x[1])} : x \in prog.load}
           storePart == UNION {{<<x[1], o>> : o \in Inclusion!Through(s, x[2])} : x \in prog.store}
           callPart == UNION {c.params : c \in Inclusion!Called(s)}
<1>1. e \in gepPart <=> \E g \in prog.gep : e = <<g.src, g.dst>>
    OBVIOUS
<1>2. e \in loadPart <=>
          \E x \in prog.load : \E o \in Inclusion!Through(s, x[1]) : e = <<o, x[2]>>
    OBVIOUS
<1>3. e \in storePart <=>
          \E x \in prog.store : \E o \in Inclusion!Through(s, x[2]) : e = <<x[1], o>>
    OBVIOUS
<1>4. e \in callPart <=> \E c \in Inclusion!Called(s) : e \in c.params
    OBVIOUS
<1>5. Inclusion!Inclusions(s)
          = prog.copy \cup gepPart \cup loadPart \cup storePart \cup callPart
    BY DEF Inclusion!Inclusions
<1> HIDE DEF gepPart, loadPart, storePart, callPart
<1>6. e \in Inclusion!Inclusions(s) <=>
          e \in prog.copy \/ e \in gepPart \/ e \in loadPart \/ e \in storePart \/ e \in callPart
    BY <1>5
<1> QED BY <1>1, <1>2, <1>3, <1>4, <1>6

(***************************************************************************)
(* One round infers what flows along the inclusions and what is allocated. *)
(***************************************************************************)
LEMMA InferenceOf ==
    ASSUME NEW s, NEW f
    PROVE  f \in Inclusion!Infer(s) <=>
               \/ f \in s
               \/ \E e \in Inclusion!Inclusions(s) :
                      \E o \in Inclusion!PointeesIn(s, e[1]) : f = <<o, e[2]>>
               \/ \E c \in Inclusion!Called(s) : \E h \in c.heap : f = <<h[2], h[1]>>
<1> DEFINE flowing == UNION {{<<o, e[2]>> : o \in Inclusion!PointeesIn(s, e[1])} :
                                 e \in Inclusion!Inclusions(s)}
           allocated == UNION {{<<h[2], h[1]>> : h \in c.heap} : c \in Inclusion!Called(s)}
<1>1. f \in flowing <=>
          \E e \in Inclusion!Inclusions(s) :
              \E o \in Inclusion!PointeesIn(s, e[1]) : f = <<o, e[2]>>
    OBVIOUS
<1>2. f \in allocated <=>
          \E c \in Inclusion!Called(s) : \E h \in c.heap : f = <<h[2], h[1]>>
    OBVIOUS
<1>3. Inclusion!Infer(s) = s \cup flowing \cup allocated
    BY DEF Inclusion!Infer
<1> HIDE DEF flowing, allocated
<1>4. f \in Inclusion!Infer(s) <=> f \in s \/ f \in flowing \/ f \in allocated
    BY <1>3
<1> QED BY <1>1, <1>2, <1>4

(***************************************************************************)
(* Inference stays within the universe, grows, and is monotonic.           *)
(***************************************************************************)
LEMMA InclusionTypes ==
    ASSUME IsProgram(prog), NEW s \in SUBSET AllFacts, NEW e \in Inclusion!Inclusions(s)
    PROVE  e[1] \in Nodes /\ e[2] \in Nodes
<1>1. \A n : Inclusion!Through(s, n) \subseteq Nodes
    BY GraphAssumption DEF AllFacts, Inclusion!Through, Inclusion!PointeesIn
<1>2. CASE e \in prog.copy
    BY <1>2, ProgramTypes DEF Edges
<1>3. CASE \E g \in prog.gep : e = <<g.src, g.dst>>
    <2>1. \A g \in prog.gep : g.src \in Nodes /\ g.dst \in Nodes
        BY ProgramTypes DEF GepEdges
    <2> QED BY <1>3, <2>1
<1>4. CASE \E x \in prog.load : \E o \in Inclusion!Through(s, x[1]) : e = <<o, x[2]>>
    BY <1>1, <1>4, ProgramTypes DEF Edges
<1>5. CASE \E x \in prog.store : \E o \in Inclusion!Through(s, x[2]) : e = <<x[1], o>>
    BY <1>1, <1>5, ProgramTypes DEF Edges
<1>6. CASE \E c \in prog.calls : e \in c.params
    <2>1. \A c \in prog.calls : c.params \subseteq Edges
        BY ProgramTypes
    <2> QED BY <1>6, <2>1 DEF Edges
<1>7. \A c \in Inclusion!Called(s) : c \in prog.calls
    BY DEF Inclusion!Called
<1> QED BY <1>2, <1>3, <1>4, <1>5, <1>6, <1>7, InclusionOf

(***************************************************************************)
(* Inference yields facts, and keeps the facts it is given.                *)
(***************************************************************************)
LEMMA InferTypes ==
    ASSUME IsProgram(prog), NEW s \in SUBSET AllFacts
    PROVE  s \subseteq Inclusion!Infer(s) /\ Inclusion!Infer(s) \subseteq AllFacts
<1>1. ASSUME NEW e \in Inclusion!Inclusions(s), NEW o \in Inclusion!PointeesIn(s, e[1])
      PROVE  <<o, e[2]>> \in AllFacts
    <2>1. e[2] \in Nodes
        BY InclusionTypes
    <2>2. o \in ObjNodes
        BY DEF Inclusion!PointeesIn, AllFacts
    <2> QED BY <2>1, <2>2 DEF AllFacts
<1>2. \A c \in Inclusion!Called(s) : \A h \in c.heap : <<h[2], h[1]>> \in AllFacts
    <2>1. \A c \in prog.calls : \A h \in c.heap : h[1] \in Nodes /\ h[2] \in ObjNodes
        BY ProgramTypes
    <2> QED BY <2>1 DEF Inclusion!Called, AllFacts
<1>3. \A f \in Inclusion!Infer(s) : f \in AllFacts
    BY <1>1, <1>2, InferenceOf
<1>4. \A f \in s : f \in Inclusion!Infer(s)
    BY InferenceOf
<1> QED BY <1>3, <1>4

(***************************************************************************)
(* More facts give more inferences.                                        *)
(***************************************************************************)
LEMMA InferMonotonic ==
    ASSUME NEW s, NEW t, s \subseteq t
    PROVE  Inclusion!Infer(s) \subseteq Inclusion!Infer(t)
<1>1. \A n : Inclusion!PointeesIn(s, n) \subseteq Inclusion!PointeesIn(t, n)
    BY DEF Inclusion!PointeesIn
<1>2. \A n : Inclusion!Through(s, n) \subseteq Inclusion!Through(t, n)
    BY <1>1 DEF Inclusion!Through
<1>3. Inclusion!Called(s) \subseteq Inclusion!Called(t)
    BY DEF Inclusion!Called
<1>4. Inclusion!Inclusions(s) \subseteq Inclusion!Inclusions(t)
    <2> SUFFICES ASSUME NEW e \in Inclusion!Inclusions(s) PROVE e \in Inclusion!Inclusions(t)
        OBVIOUS
    <2> QED BY <1>2, <1>3, InclusionOf
<1> SUFFICES ASSUME NEW f \in Inclusion!Infer(s) PROVE f \in Inclusion!Infer(t)
    OBVIOUS
<1>5. CASE f \in s
    BY <1>5, InferenceOf
<1>6. CASE \E e \in Inclusion!Inclusions(s) :
               \E o \in Inclusion!PointeesIn(s, e[1]) : f = <<o, e[2]>>
    <2>1. \E e \in Inclusion!Inclusions(t) :
              \E o \in Inclusion!PointeesIn(t, e[1]) : f = <<o, e[2]>>
        BY <1>1, <1>4, <1>6
    <2> QED BY <2>1, InferenceOf
<1>7. CASE \E c \in Inclusion!Called(s) : \E h \in c.heap : f = <<h[2], h[1]>>
    <2>1. \E c \in Inclusion!Called(t) : \E h \in c.heap : f = <<h[2], h[1]>>
        BY <1>3, <1>7
    <2> QED BY <2>1, InferenceOf
<1> QED BY <1>5, <1>6, <1>7, InferenceOf

(***************************************************************************)
(* Least is an iteration of Infer, often enough for a solution.            *)
(***************************************************************************)
LEMMA LeastIsIteration ==
    ASSUME IsProgram(prog)
    PROVE  \E times \in Nat : \E f :
               /\ IsIteration(f, AllFacts, prog.addr,
                              [s \in SUBSET AllFacts |-> Inclusion!Infer(s)], times)
               /\ IsFiniteSet(AllFacts) /\ Cardinality(AllFacts) <= times
               /\ Inclusion!Least = f[times]
<1> DEFINE last == Cardinality(AllFacts)
           grow == [s \in SUBSET AllFacts |-> Inclusion!Infer(s)]
           IsClosure(f) == f = [s \in SUBSET AllFacts |->
                                   IF Inclusion!Infer(s) = s THEN s ELSE f[Inclusion!Infer(s)]]
           closure == CHOOSE f : IsClosure(f)
<1>1. IsFiniteSet(AllFacts) /\ last \in Nat
    <2>1. IsFiniteSet(ObjNodes) /\ IsFiniteSet(Nodes)
        BY GraphAssumption, FS_Subset
    <2> QED BY <2>1, FS_Product, FS_CardinalityType DEF AllFacts
<1>2. Inclusion!Least = closure[prog.addr]
    BY DEF Inclusion!Least, AllFacts
<1>3. \A s \in SUBSET AllFacts : Inclusion!Infer(s) \in SUBSET AllFacts /\ s \subseteq Inclusion!Infer(s)
    BY InferTypes
<1>4. /\ grow \in [SUBSET AllFacts -> SUBSET AllFacts]
      /\ \A s \in SUBSET AllFacts :
             grow[s] = Inclusion!Infer(s) /\ s \subseteq grow[s] /\ grow[s] \subseteq AllFacts
    BY <1>3
<1>5. prog.addr \in SUBSET AllFacts
    BY ProgramTypes DEF AllFacts
<1> HIDE DEF last, grow
<1>6. \E f : IsClosure(f)
    <2> DEFINE IsBound(c, s) == s \subseteq c /\ Inclusion!Infer(c) \subseteq c
               closed(s) == {x \in AllFacts : \A c \in SUBSET AllFacts : IsBound(c, s) => x \in c}
               h == [s \in SUBSET AllFacts |-> closed(s)]
    <2>1. ASSUME NEW s \in SUBSET AllFacts, Inclusion!Infer(s) = s PROVE closed(s) = s
        BY <2>1
    <2>2. ASSUME NEW s \in SUBSET AllFacts PROVE closed(s) = closed(Inclusion!Infer(s))
        <3>1. ASSUME NEW c \in SUBSET AllFacts, s \subseteq c, Inclusion!Infer(c) \subseteq c
              PROVE  Inclusion!Infer(s) \subseteq c
            BY <3>1, InferMonotonic
        <3>2. \A c \in SUBSET AllFacts : IsBound(c, s) <=> IsBound(c, Inclusion!Infer(s))
            BY <1>3, <3>1
        <3> QED BY <3>2
    <2> HIDE DEF closed
    <2>3. ASSUME NEW s \in SUBSET AllFacts
          PROVE  h[s] = IF Inclusion!Infer(s) = s THEN s ELSE h[Inclusion!Infer(s)]
        <3>1. h[s] = closed(s) /\ h[Inclusion!Infer(s)] = closed(Inclusion!Infer(s))
            BY <1>3
        <3> QED BY <2>1, <2>2, <3>1
    <2>4. DOMAIN h = SUBSET AllFacts /\ h = [s \in SUBSET AllFacts |-> h[s]]
        OBVIOUS
    <2> HIDE DEF h
    <2>5. IsClosure(h)
        BY <2>3, <2>4
    <2> QED BY <2>5
<1>7. IsClosure(closure)
    BY <1>6
<1>8. \A s \in SUBSET AllFacts :
          closure[s] = IF Inclusion!Infer(s) = s THEN s ELSE closure[Inclusion!Infer(s)]
    BY <1>7
<1> HIDE DEF closure
<1>9. PICK f : IsIteration(f, AllFacts, prog.addr, grow, last)
    BY <1>1, <1>4, <1>5, IterationExists
<1>10. grow[f[last]] = f[last]
    <2>1. Cardinality(AllFacts) <= last
        BY <1>1 DEF last
    <2> QED BY <1>1, <1>4, <1>9, <2>1, IterationStops
<1>11. \A k \in 0..last : f[k] \in SUBSET AllFacts
    BY <1>9 DEF IsIteration
<1> DEFINE good == {i \in Nat : i <= last => closure[f[i]] = closure[prog.addr]}
<1>12. 0 \in good
    BY <1>9 DEF IsIteration
<1>13. ASSUME NEW i \in Nat, i \in good PROVE i + 1 \in good
    <2> SUFFICES ASSUME i + 1 <= last PROVE closure[f[i + 1]] = closure[prog.addr]
        OBVIOUS
    <2>1. i + 1 \in 1..last /\ (i + 1) - 1 = i /\ i \in 0..last /\ i <= last
        BY <1>1
    <2>2. f[i + 1] = Inclusion!Infer(f[i])
        BY <1>4, <1>9, <1>11, <2>1 DEF IsIteration
    <2>3. closure[f[i]] = closure[f[i + 1]]
        BY <1>8, <1>11, <2>1, <2>2
    <2> QED BY <1>13, <2>1, <2>3
<1> HIDE DEF good
<1>14. Nat \subseteq good
    BY <1>12, <1>13, SetInduction
<1>15. closure[f[last]] = closure[prog.addr]
    BY <1>1, <1>14 DEF good
<1>16. last \in 0..last
    BY <1>1
<1>17. closure[f[last]] = f[last]
    BY <1>4, <1>8, <1>10, <1>11, <1>16
<1>18. \E times \in Nat : \E it :
           /\ IsIteration(it, AllFacts, prog.addr, grow, times)
           /\ IsFiniteSet(AllFacts) /\ Cardinality(AllFacts) <= times
           /\ Inclusion!Least = it[times]
    <2>1. Cardinality(AllFacts) <= last
        BY <1>1 DEF last
    <2> QED BY <1>1, <1>2, <1>9, <1>15, <1>17, <2>1
<1> QED BY <1>18 DEF grow

(***************************************************************************)
(* Least holds the addresses, is closed under inference, and is within     *)
(* every set of facts that does and is.                                    *)
(***************************************************************************)
LEMMA LeastIsLeast ==
    ASSUME IsProgram(prog)
    PROVE  /\ prog.addr \subseteq Inclusion!Least /\ Inclusion!Least \subseteq AllFacts
           /\ Inclusion!Infer(Inclusion!Least) = Inclusion!Least
           /\ \A s : prog.addr \subseteq s /\ Inclusion!Infer(s) \subseteq s
                         => Inclusion!Least \subseteq s
<1> DEFINE grow == [s \in SUBSET AllFacts |-> Inclusion!Infer(s)]
<1>1. PICK times \in Nat : \E f :
          /\ IsIteration(f, AllFacts, prog.addr, grow, times)
          /\ IsFiniteSet(AllFacts) /\ Cardinality(AllFacts) <= times
          /\ Inclusion!Least = f[times]
    BY LeastIsIteration
<1>0. PICK f :
          /\ IsIteration(f, AllFacts, prog.addr, grow, times)
          /\ IsFiniteSet(AllFacts) /\ Cardinality(AllFacts) <= times
          /\ Inclusion!Least = f[times]
    BY <1>1
<1>2. \A s \in SUBSET AllFacts :
          grow[s] = Inclusion!Infer(s) /\ s \subseteq grow[s] /\ grow[s] \subseteq AllFacts
    BY InferTypes
<1> HIDE DEF grow
<1>3. f[times] \in SUBSET AllFacts
    BY <1>0 DEF IsIteration
<1>4. prog.addr \subseteq f[times]
    BY <1>0, <1>2, IterationKeeps
<1>5. grow[f[times]] = f[times]
    BY <1>0, <1>2, IterationStops
<1>6. ASSUME NEW s, prog.addr \subseteq s, Inclusion!Infer(s) \subseteq s
      PROVE  f[times] \subseteq s
    <2>1. \A r \in SUBSET AllFacts : r \subseteq s => grow[r] \subseteq s
        BY <1>2, <1>6, InferMonotonic
    <2> QED BY <1>0, <1>6, <2>1, IterationBelow
<1> QED BY <1>0, <1>2, <1>3, <1>4, <1>5, <1>6

-----------------------------------------------------------------------------
(* Precision: every fact the solver derives is within every set of facts   *)
(* that satisfies the constraints, so within the least one.                *)

\* m's pointees are pointees of n, and conversely, as far as L knows.
Below(L, m, n) == \A b \in ObjNodes : <<b, Whole(m)>> \in L => <<b, Whole(n)>> \in L
Alike(L, m, n) == Below(L, m, n) /\ Below(L, n, m)

\* L satisfies the constraints of the program.
Closed(L) ==
    /\ prog.addr \subseteq L
    /\ \A e \in prog.copy : Below(L, e[1], e[2])
    /\ \A g \in prog.gep : Below(L, g.src, g.dst)
    /\ \A e \in prog.load : \A o \in WholeObjs \ PointerlessObjs :
           <<o, e[1]>> \in L => Below(L, o, e[2])
    /\ \A e \in prog.store : \A o \in WholeObjs \ PointerlessObjs :
           <<o, e[2]>> \in L => Below(L, e[1], o)
    /\ \A c \in prog.calls : (c.argsMatch /\ <<c.fun, c.fptr>> \in L) =>
           /\ \A e \in c.params : Below(L, e[1], e[2])
           /\ \A h \in c.heap : <<h[2], h[1]>> \in L

PtsWithin(L) == \A n \in Nodes : \A o \in pts[n] : <<Base[o], Whole(n)>> \in L
RepsWithin(L) ==
    /\ \A n \in Nodes : Alike(L, n, rep[n])
    /\ \A c \in cycles : \A m \in c.left : Alike(L, m, c.rep)
CopiesWithin(L) == \A e \in copyE \cup newCopies : Below(L, e[1], e[2])
GepsWithin(L) == \A g \in gepE : Below(L, g.src, g.dst)
AccessesWithin(L) ==
    /\ \A e \in loadE : \A o \in ObjNodes \ PointerlessObjs :
           <<Base[o], Whole(e[1])>> \in L => Below(L, o, e[2])
    /\ \A e \in storeE : \A o \in ObjNodes \ PointerlessObjs :
           <<Base[o], Whole(e[2])>> \in L => Below(L, e[1], o)

Within(L) ==
    PtsWithin(L) /\ RepsWithin(L) /\ CopiesWithin(L) /\ GepsWithin(L) /\ AccessesWithin(L)

PreciseInv == \A L : Closed(L) => Within(L)

(***************************************************************************)
(* What a program's constraints are about, as whole nodes.                 *)
(***************************************************************************)
LEMMA WholeNodes ==
    ASSUME NEW p, IsProgram(p)
    PROVE  /\ \A e \in p.addr : Base[e[1]] = e[1] /\ Whole(e[2]) = e[2]
           /\ \A e \in p.copy \cup p.load \cup p.store : Whole(e[1]) = e[1] /\ Whole(e[2]) = e[2]
           /\ \A g \in p.gep : Whole(g.src) = g.src /\ Whole(g.dst) = g.dst
           /\ \A c \in p.calls :
                  /\ Whole(c.fptr) = c.fptr /\ Base[c.fun] = c.fun
                  /\ \A e \in c.params : Whole(e[1]) = e[1] /\ Whole(e[2]) = e[2]
                  /\ \A h \in c.heap : Whole(h[1]) = h[1] /\ Base[h[2]] = h[2]
<1>1. \A n \in Pointers : Whole(n) = n
    BY DEF Pointers, Whole
<1>2. \A o \in WholeObjs : Base[o] = o
    BY DEF WholeObjs
<1>3. \A c \in p.calls :
          /\ c.fptr \in Pointers /\ c.fun \in WholeObjs /\ c.params \subseteq Pointers \X Pointers
          /\ c.heap \subseteq Pointers \X WholeObjs
    BY DEF IsProgram, Calls
<1>4. \A g \in p.gep : g.src \in Pointers /\ g.dst \in Pointers
    BY DEF IsProgram
<1> QED BY <1>1, <1>2, <1>3, <1>4 DEF IsProgram

(***************************************************************************)
(* A gep yields objects with the bases it was given.                       *)
(***************************************************************************)
LEMMA GepTargetsBases ==
    ASSUME NEW g \in GepEdges, NEW objs \in SUBSET ObjNodes, NEW insensitive,
           NEW t \in GepTargets(g, objs, insensitive)
    PROVE  \E o \in objs : Base[t] = Base[o]
<1>1. \A o \in ObjNodes, k \in Offsets :
          Base[GepObjNode(o, k, insensitive)] = Base[o] /\ Base[Base[o]] = Base[o]
    BY GraphAssumption DEF GepObjNode
<1>2. g.off \in Offsets /\ 0 \in Offsets
    BY GraphAssumption DEF GepEdges
<1>3. CASE t \in objs
    BY <1>3
<1>4. CASE t \notin objs /\ g.kind = "normal"
    <2>1. PICK o \in objs \ OpaqueObjs : t = GepObjNode(o, g.off, insensitive)
        BY <1>4 DEF GepTargets
    <2> QED BY <1>1, <1>2, <2>1
<1>5. CASE t \notin objs /\ g.kind # "normal"
    <2>1. t \in VariantTargets(objs \ OpaqueObjs, insensitive)
        BY <1>5 DEF GepTargets
    <2>2. PICK o \in objs : t = Base[o] \/ t = GepObjNode(o, 0, insensitive)
        BY <2>1 DEF VariantTargets
    <2> QED BY <1>1, <1>2, <2>2
<1> QED BY <1>3, <1>4, <1>5

(***************************************************************************)
(* Being below is transitive, so it holds along a path.                    *)
(***************************************************************************)
LEMMA BelowReach ==
    ASSUME NEW L, NEW edges \in SUBSET Edges, \A e \in edges : Below(L, e[1], e[2]),
           NEW n \in Nodes
    PROVE  \A m \in ReachableFrom(n, edges) : Below(L, n, m)
<1> DEFINE bound == {m \in Nodes : Below(L, n, m)}
<1>1. n \in bound
    BY DEF Below
<1>2. ASSUME NEW e \in edges, e[1] \in bound PROVE e[2] \in bound
    <2>1. e[2] \in Nodes
        BY DEF Edges
    <2> QED BY <1>2, <2>1 DEF Below
<1> HIDE DEF bound
<1>3. ReachableFrom(n, edges) \subseteq bound
    BY <1>1, <1>2, Reach
<1> QED BY <1>3 DEF bound

(***************************************************************************)
(* The nodes of a component are alike.                                     *)
(***************************************************************************)
LEMMA ComponentsAlike ==
    ASSUME TypeOK, NEW L, CopiesWithin(L), GepsWithin(L), NEW withGeps \in BOOLEAN,
           NEW c \in Components(DirectEdges(withGeps)), NEW m \in c, NEW n \in c
    PROVE  Alike(L, m, n)
<1> DEFINE edges == DirectEdges(withGeps)
           reach == [x \in Reps |-> ReachableFrom(x, edges)]
<1>1. edges \in SUBSET Edges
    <2>1. copyE \subseteq Edges /\ \A g \in gepE : <<g.src, g.dst>> \in Edges
        BY DEF TypeOK, GepEdges, Edges
    <2> QED BY <2>1 DEF DirectEdges
<1>2. \A e \in edges : Below(L, e[1], e[2])
    BY DEF CopiesWithin, GepsWithin, DirectEdges
<1>3. PICK x \in Reps : c = {y \in Reps : reach[y] = reach[x]}
    BY DEF Components
<1>4. m \in Reps /\ n \in Reps /\ ReachableFrom(m, edges) = ReachableFrom(n, edges)
    BY <1>3
<1>5. m \in Nodes /\ n \in Nodes
    BY <1>4 DEF Reps
<1> HIDE DEF edges
<1>6. m \in ReachableFrom(n, edges) /\ n \in ReachableFrom(m, edges)
    BY <1>1, <1>4, <1>5, Reach
<1> QED BY <1>1, <1>2, <1>5, <1>6, BelowReach DEF Alike

(***************************************************************************)
(* Steps that neither derive a fact nor add an edge.                       *)
(***************************************************************************)
LEMMA WithinFrame ==
    ASSUME NEW L, Within(L), UNCHANGED <<graphVars, pts>>,
           newCopies' \subseteq newCopies, cycles' \subseteq cycles
    PROVE  Within(L)'
<1>1. PtsWithin(L)' /\ GepsWithin(L)' /\ AccessesWithin(L)'
    BY DEF Within, PtsWithin, GepsWithin, AccessesWithin, graphVars
<1>2. RepsWithin(L)' /\ CopiesWithin(L)'
    BY DEF Within, RepsWithin, CopiesWithin, graphVars
<1> QED BY <1>1, <1>2 DEF Within

(***************************************************************************)
(* A search starts to merge nodes that are alike.                          *)
(***************************************************************************)
LEMMA WithinFound ==
    ASSUME TypeOK, NEW L, Within(L), UNCHANGED <<graphVars, pts, newCopies>>,
           NEW found, found \subseteq BigComponents,
           NEW root, \A c \in found : root[c] \in c,
           cycles' = {[rep |-> root[c], left |-> c \ {root[c]}, members |-> c,
                       geps |-> {}, scc |-> TRUE] : c \in found}
    PROVE  Within(L)'
<1>1. MergePWC \in BOOLEAN
    BY DEF MergePWC, TypeOK, IsProgram
<1>2. ASSUME NEW d \in cycles', NEW m \in d.left PROVE Alike(L, m, d.rep)
    <2>1. PICK c \in found : d = [rep |-> root[c], left |-> c \ {root[c]}, members |-> c,
                                  geps |-> {}, scc |-> TRUE]
        OBVIOUS
    <2>2. d.rep = root[c] /\ d.left = c \ {root[c]}
        BY <2>1
    <2>3. m \in c /\ d.rep \in c /\ c \in Components(DirectEdges(MergePWC))
        BY <2>2 DEF BigComponents
    <2> QED BY <1>1, <2>3, ComponentsAlike DEF Within
<1>3. PtsWithin(L)' /\ GepsWithin(L)' /\ AccessesWithin(L)' /\ CopiesWithin(L)'
    BY DEF Within, PtsWithin, GepsWithin, AccessesWithin, CopiesWithin, graphVars
<1>4. RepsWithin(L)'
    BY <1>2 DEF Within, RepsWithin, graphVars
<1> QED BY <1>3, <1>4 DEF Within

(***************************************************************************)
(* Merging alike nodes derives nothing new: their facts and edges are      *)
(* those of either.                                                        *)
(***************************************************************************)
LEMMA WithinMerge ==
    ASSUME TypeOK, RepInv, DoneSettled, NEW L, Within(L),
           NEW c \in cycles, NEW node \in c.left, mergeNode(c, node)
    PROVE  Within(L)'
<1> DEFINE r == c.rep
<1>1. /\ Alike(L, node, r) /\ node \in Nodes /\ r \in Nodes
      /\ newCopies' = {} /\ newCopies = {}
    BY DEF Within, RepsWithin, TypeOK, Cycles, RepInv, DoneSettled, Settled, EdgesApart, mergeNode
<1>2. \A x : Alike(L, x, Retarget(x, node, r)) /\ Alike(L, Retarget(x, node, r), x)
    BY <1>1 DEF Retarget, Alike, Below
<1>3. ASSUME NEW x, NEW y, Below(L, x, y)
      PROVE  Below(L, Retarget(x, node, r), Retarget(y, node, r))
    BY <1>2, <1>3 DEF Alike, Below
<1>4. PtsWithin(L)'
    <2> SUFFICES ASSUME NEW n \in Nodes, NEW o \in pts'[n] PROVE <<Base[o], Whole(n)>> \in L
        BY DEF PtsWithin
    <2>1. pts' = [pts EXCEPT ![r] = @ \cup pts[node]]
        BY DEF mergeNode, unionPts
    <2>2. CASE o \in pts[n]
        BY <2>2 DEF Within, PtsWithin
    <2>3. CASE o \notin pts[n]
        <3>1. n = r /\ o \in pts[node]
            BY <1>1, <2>1, <2>3 DEF TypeOK
        <3>2. <<Base[o], Whole(node)>> \in L /\ Base[o] \in ObjNodes
            BY <1>1, <3>1, GraphAssumption DEF Within, PtsWithin, TypeOK, PTS
        <3> QED BY <1>1, <3>1, <3>2 DEF Alike, Below
    <2> QED BY <2>2, <2>3
<1>5. RepsWithin(L)'
    <2>1. ASSUME NEW n \in Nodes PROVE Alike(L, n, rep'[n])
        <3>1. rep'[n] = Retarget(rep[n], node, r)
            BY RepInvMerge DEF Retarget
        <3>2. Alike(L, n, rep[n])
            BY DEF Within, RepsWithin
        <3> QED BY <1>2, <3>1, <3>2 DEF Alike, Below
    <2>2. ASSUME NEW d \in cycles', NEW m \in d.left PROVE Alike(L, m, d.rep)
        <3> DEFINE smaller == [c EXCEPT !.left = @ \ {node}, !.geps = @ \cup CriticalGeps(node, r)]
        <3>1. cycles' = (cycles \ {c}) \cup {smaller}
            BY DEF mergeNode
        <3>2. smaller.rep = r /\ smaller.left = c.left \ {node}
            BY DEF TypeOK, Cycles
        <3> HIDE DEF smaller
        <3>3. (m \in c.left /\ d.rep = r) \/ d \in cycles
            BY <2>2, <3>1, <3>2
        <3> QED BY <2>2, <3>3 DEF Within, RepsWithin
    <2> QED BY <2>1, <2>2 DEF RepsWithin
<1>6. CopiesWithin(L)'
    <2> SUFFICES ASSUME NEW f \in copyE' PROVE Below(L, f[1], f[2])
        BY <1>1 DEF CopiesWithin
    <2>1. PICK e \in copyE : f = RetargetEdge(e, node, r)
        BY DEF mergeNode, moveEdgesToRepNode, MovedCopies
    <2>2. Below(L, e[1], e[2])
        BY DEF Within, CopiesWithin
    <2> QED BY <1>3, <2>1, <2>2 DEF RetargetEdge
<1>7. GepsWithin(L)'
    <2> SUFFICES ASSUME NEW g \in gepE' PROVE Below(L, g.src, g.dst)
        BY DEF GepsWithin
    <2>1. CASE g \in gepE
        BY <2>1 DEF Within, GepsWithin
    <2>2. CASE g \notin gepE
        <3>1. PICK h \in gepE : g = RetargetGep(h, node, r)
            BY <2>2 DEF mergeNode, moveEdgesToRepNode, MovedGeps
        <3>2. g.src = Retarget(h.src, node, r) /\ g.dst = Retarget(h.dst, node, r)
            BY <3>1 DEF RetargetGep, TypeOK, GepEdges
        <3>3. Below(L, h.src, h.dst)
            BY DEF Within, GepsWithin
        <3> QED BY <1>3, <3>2, <3>3
    <2> QED BY <2>1, <2>2
<1>8. ASSUME NEW f \in loadE', NEW o \in ObjNodes \ PointerlessObjs, <<Base[o], Whole(f[1])>> \in L
      PROVE  Below(L, o, f[2])
    <2>1. PICK e \in loadE : f = RetargetEdge(e, node, r)
        BY DEF mergeNode, moveEdgesToRepNode
    <2>2. f[1] = Retarget(e[1], node, r) /\ f[2] = Retarget(e[2], node, r) /\ Base[o] \in ObjNodes
        BY <2>1, GraphAssumption DEF RetargetEdge
    <2>3. <<Base[o], Whole(e[1])>> \in L
        BY <1>2, <1>8, <2>2 DEF Alike, Below
    <2>4. Below(L, o, e[2])
        BY <2>3 DEF Within, AccessesWithin
    <2> QED BY <1>2, <2>2, <2>4 DEF Alike, Below
<1>9. ASSUME NEW f \in storeE', NEW o \in ObjNodes \ PointerlessObjs, <<Base[o], Whole(f[2])>> \in L
      PROVE  Below(L, f[1], o)
    <2>1. PICK e \in storeE : f = RetargetEdge(e, node, r)
        BY DEF mergeNode, moveEdgesToRepNode
    <2>2. f[1] = Retarget(e[1], node, r) /\ f[2] = Retarget(e[2], node, r) /\ Base[o] \in ObjNodes
        BY <2>1, GraphAssumption DEF RetargetEdge
    <2>3. <<Base[o], Whole(e[2])>> \in L
        BY <1>2, <1>9, <2>2 DEF Alike, Below
    <2>4. Below(L, e[1], o)
        BY <2>3 DEF Within, AccessesWithin
    <2> QED BY <1>2, <2>2, <2>4 DEF Alike, Below
<1>10. AccessesWithin(L)'
    BY <1>8, <1>9 DEF AccessesWithin
<1> QED BY <1>4, <1>5, <1>6, <1>7, <1>10 DEF Within

(***************************************************************************)
(* Sending a difference along copy and gep edges stays within.             *)
(***************************************************************************)
LEMMA WithinPropagate ==
    ASSUME TypeOK, NEW L, Within(L), NEW n \in Nodes, NEW queue, handleCopyGep(n, queue),
           UNCHANGED <<graphVars, newCopies, cycles>>
    PROVE  Within(L)'
<1>1. PICK insensitive \in {fieldInsensitive, fieldInsensitive \cup NewlyInsensitive(n)} :
          \A d \in Nodes : pts'[d] = pts[d] \cup Gained(n, insensitive, d)
    BY DEF handleCopyGep
<1>2. ASSUME NEW d \in Nodes, NEW o \in Gained(n, insensitive, d)
      PROVE  <<Base[o], Whole(d)>> \in L
    <2>1. diffPts(n) \subseteq pts[n] /\ diffPts(n) \in SUBSET ObjNodes
        BY DEF diffPts, TypeOK, PTS
    <2>2. \A x \in pts[n] : <<Base[x], Whole(n)>> \in L /\ Base[x] \in ObjNodes
        BY GraphAssumption DEF Within, PtsWithin, TypeOK, PTS
    <2>3. CASE <<n, d>> \in copyE /\ o \in diffPts(n)
        <3>1. Below(L, n, d)
            BY <2>3 DEF Within, CopiesWithin
        <3> QED BY <2>1, <2>2, <2>3, <3>1 DEF Below
    <2>4. CASE \E g \in GepsFrom(n) : g.dst = d /\ o \in GepTargets(g, diffPts(n), insensitive)
        <3>1. PICK g \in gepE : /\ g.src = n /\ g.dst = d
                                /\ o \in GepTargets(g, diffPts(n), insensitive)
            BY <2>4 DEF GepsFrom
        <3>2. g \in GepEdges /\ Below(L, n, d)
            BY <3>1 DEF TypeOK, Within, GepsWithin
        <3>3. PICK x \in diffPts(n) : Base[o] = Base[x]
            BY <2>1, <3>1, <3>2, GepTargetsBases
        <3> QED BY <2>1, <2>2, <3>2, <3>3 DEF Below
    <2> QED BY <2>3, <2>4 DEF Gained
<1>3. PtsWithin(L)'
    BY <1>1, <1>2 DEF PtsWithin, Within
<1>4. GepsWithin(L)' /\ AccessesWithin(L)' /\ CopiesWithin(L)' /\ RepsWithin(L)'
    BY DEF Within, GepsWithin, AccessesWithin, CopiesWithin, RepsWithin, graphVars
<1> QED BY <1>3, <1>4 DEF Within

(***************************************************************************)
(* New copy edges join the representatives of nodes one of which is below  *)
(* the other.                                                              *)
(***************************************************************************)
LEMMA WithinNewEdges ==
    ASSUME NEW L, Within(L), NEW pairs \in SUBSET Edges, \A x \in pairs : Below(L, x[1], x[2])
    PROVE  \A e \in NewEdges(pairs) : Below(L, e[1], e[2])
<1> SUFFICES ASSUME NEW x \in pairs PROVE Below(L, rep[x[1]], rep[x[2]])
    BY DEF NewEdges
<1>1. x[1] \in Nodes /\ x[2] \in Nodes
    BY DEF Edges
<1>2. Below(L, rep[x[1]], x[1]) /\ Below(L, x[2], rep[x[2]])
    BY <1>1 DEF Within, RepsWithin, Alike
<1> QED BY <1>2 DEF Below

(***************************************************************************)
(* The copies that loads and stores ask for are within a closed set.       *)
(***************************************************************************)
LEMMA WithinAsk ==
    ASSUME TypeOK, NEW L, Within(L), NEW n \in Nodes, UNCHANGED <<graphVars, pts, cycles>>,
           newCopies' = NewEdges(LoadCopies(n) \cup StoreCopies(n))
    PROVE  Within(L)'
<1>1. \A o \in pts[n] : o \in ObjNodes /\ o \in Nodes /\ <<Base[o], Whole(n)>> \in L
    BY GraphAssumption DEF TypeOK, PTS, Within, PtsWithin
<1>2. LoadCopies(n) \cup StoreCopies(n) \in SUBSET Edges
    BY GraphAssumption DEF TypeOK, PTS, LoadCopies, StoreCopies, Edges
<1>3. ASSUME NEW x \in LoadCopies(n) PROVE Below(L, x[1], x[2])
    <2>1. PICK o \in pts[n] \ PointerlessObjs, e \in loadE : e[1] = n /\ x = <<o, e[2]>>
        BY DEF LoadCopies
    <2> QED BY <1>1, <2>1 DEF Within, AccessesWithin
<1>4. ASSUME NEW x \in StoreCopies(n) PROVE Below(L, x[1], x[2])
    <2>1. PICK o \in pts[n] \ PointerlessObjs, e \in storeE : e[2] = n /\ x = <<e[1], o>>
        BY DEF StoreCopies
    <2> QED BY <1>1, <2>1 DEF Within, AccessesWithin
<1>5. \A e \in newCopies' : Below(L, e[1], e[2])
    BY <1>2, <1>3, <1>4, WithinNewEdges
<1>6. CopiesWithin(L)'
    BY <1>5 DEF Within, CopiesWithin, graphVars
<1>7. PtsWithin(L)' /\ GepsWithin(L)' /\ AccessesWithin(L)' /\ RepsWithin(L)'
    BY DEF Within, PtsWithin, GepsWithin, AccessesWithin, RepsWithin, graphVars
<1> QED BY <1>6, <1>7 DEF Within

(***************************************************************************)
(* Inserting a copy edge that is within a closed set keeps all within.     *)
(***************************************************************************)
LEMMA WithinAddEdge ==
    ASSUME NEW L, Within(L), NEW e \in newCopies, insertCopy(e)
    PROVE  Within(L)'
<1>1. /\ copyE' \cup newCopies' \subseteq copyE \cup newCopies
      /\ UNCHANGED <<gepE, loadE, storeE, rep, pts, cycles>>
    BY DEF insertCopy
<1>2. CopiesWithin(L)'
    BY <1>1 DEF Within, CopiesWithin
<1>3. PtsWithin(L)' /\ GepsWithin(L)' /\ AccessesWithin(L)' /\ RepsWithin(L)'
    BY <1>1 DEF Within, PtsWithin, GepsWithin, AccessesWithin, RepsWithin
<1> QED BY <1>2, <1>3 DEF Within

(***************************************************************************)
(* A collapsed object and its fields are one whole node.                   *)
(***************************************************************************)
LEMMA WithinCollapse ==
    ASSUME TypeOK, NEW L, Within(L), NEW b \in toCollapse, collapseField(b)
    PROVE  Within(L)'
<1> DEFINE fs == AllFieldsObjNode(b)
<1>1. \A f \in fs : f \in ObjNodes /\ f \in Nodes /\ Base[f] = b /\ Base[b] = b
    BY GraphAssumption DEF AllFieldsObjNode, TypeOK
<1>2. b \in ObjNodes /\ b \in Nodes
    BY GraphAssumption DEF TypeOK
<1>3. UNCHANGED <<graphVars, newCopies>>
    BY DEF collapseField
<1>4. PtsWithin(L)'
    <2> SUFFICES ASSUME NEW n \in Nodes, NEW o \in pts'[n] PROVE <<Base[o], Whole(n)>> \in L
        BY DEF PtsWithin
    <2>1. pts'[n] = CollapsedPts(n, fs, b)
        BY DEF collapseField
    <2>2. CASE o \in pts[n]
        BY <2>2 DEF Within, PtsWithin
    <2>3. CASE o \notin pts[n]
        <3>1. PICK f \in fs : f \in pts[n] /\ o = b
            BY <2>1, <2>3 DEF CollapsedPts
        <3> QED BY <1>1, <3>1 DEF Within, PtsWithin
    <2> QED BY <2>2, <2>3
<1>5. ASSUME NEW f \in fs PROVE Alike(L, rep[f], rep[b])
    <2>1. Alike(L, f, rep[f]) /\ Alike(L, b, rep[b])
        BY <1>1, <1>2, <1>5 DEF Within, RepsWithin
    <2>2. Whole(f) = Whole(b)
        BY <1>1, <1>2, <1>5 DEF Whole
    <2> QED BY <2>1, <2>2 DEF Alike, Below
<1>6. \A c \in cycles' : \A m \in c.left : Alike(L, m, c.rep)
    <2>1. cycles' = {[rep |-> rep[b], left |-> {rep[f] : f \in fs} \ {rep[b]},
                      members |-> {}, geps |-> {}, scc |-> FALSE]}
        BY DEF collapseField
    <2> QED BY <1>5, <2>1
<1>7. RepsWithin(L)'
    BY <1>3, <1>6 DEF Within, RepsWithin, graphVars
<1>8. GepsWithin(L)' /\ AccessesWithin(L)' /\ CopiesWithin(L)'
    BY <1>3 DEF Within, GepsWithin, AccessesWithin, CopiesWithin, graphVars
<1> QED BY <1>4, <1>7, <1>8 DEF Within

(***************************************************************************)
(* A call that is resolved is one the constraints call.                    *)
(***************************************************************************)
LEMMA WithinCall ==
    ASSUME TypeOK, NEW L, Closed(L), Within(L), NEW c \in prog.calls, resolveIndCall(c)
    PROVE  Within(L)'
<1>1. c.fun \in pts[rep[c.fptr]] /\ UNCHANGED <<graphVars, cycles>> /\ newCopies = {}
    BY DEF resolveIndCall, Resolvable, getPts, sccRepNode, Settled
<1>2. /\ c.fptr \in Nodes /\ c.fun \in ObjNodes /\ rep[c.fptr] \in Nodes
      /\ c.params \in SUBSET Edges /\ \A h \in c.heap : h[1] \in Nodes /\ h[2] \in ObjNodes
    BY ProgramTypes DEF TypeOK
<1>3. /\ Whole(c.fptr) = c.fptr /\ Base[c.fun] = c.fun
      /\ \A e \in c.params : Whole(e[1]) = e[1] /\ Whole(e[2]) = e[2]
      /\ \A h \in c.heap : Whole(h[1]) = h[1] /\ Base[h[2]] = h[2]
    BY WholeNodes DEF TypeOK
<1>4. <<c.fun, c.fptr>> \in L
    <2>1. <<c.fun, Whole(rep[c.fptr])>> \in L
        BY <1>1, <1>2, <1>3 DEF Within, PtsWithin
    <2>2. Below(L, rep[c.fptr], c.fptr)
        BY <1>2 DEF Within, RepsWithin, Alike
    <2> QED BY <1>2, <1>3, <2>1, <2>2 DEF Below
<1>5. c.argsMatch => \A e \in newCopies' : Below(L, e[1], e[2])
    <2>1. c.argsMatch => \A e \in c.params : Below(L, e[1], e[2])
        BY <1>4 DEF Closed
    <2> QED BY <1>2, <2>1, WithinNewEdges DEF resolveIndCall
<1>6. CopiesWithin(L)'
    BY <1>1, <1>5 DEF Within, CopiesWithin, graphVars, resolveIndCall
<1>7. PtsWithin(L)'
    <2> SUFFICES ASSUME NEW n \in Nodes, NEW o \in pts'[n] PROVE <<Base[o], Whole(n)>> \in L
        BY DEF PtsWithin
    <2>1. CASE o \in pts[n]
        BY <2>1 DEF Within, PtsWithin
    <2>2. CASE o \notin pts[n]
        <3>1. c.argsMatch /\ <<n, o>> \in c.heap
            BY <2>2 DEF resolveIndCall
        <3>2. <<o, n>> \in L
            BY <1>4, <3>1 DEF Closed
        <3>3. Whole(n) = n /\ Base[o] = o
            BY <1>3, <3>1
        <3> QED BY <3>2, <3>3
    <2> QED BY <2>1, <2>2
<1>8. GepsWithin(L)' /\ AccessesWithin(L)' /\ RepsWithin(L)'
    BY <1>1 DEF Within, GepsWithin, AccessesWithin, RepsWithin, graphVars
<1> QED BY <1>6, <1>7, <1>8 DEF Within

(***************************************************************************)
(* The steps that do not depend on the loop.  To forget a representative   *)
(* is to stand for oneself.                                                *)
(***************************************************************************)
LEMMA WithinCommon ==
    ASSUME TypeOK, NEW L, Closed(L), Within(L), NEW first, Common(first)
    PROVE  Within(L)'
<1>1. ASSUME NEW c \in cycles, finishScc(c) \/ finishCollapse(c) PROVE Within(L)'
    <2>1. UNCHANGED <<graphVars, pts, newCopies>> /\ cycles' \subseteq cycles
        BY <1>1 DEF finishScc, finishCollapse, ptsVars
    <2> QED BY <2>1, WithinFrame
<1>2. ASSUME NEW b \in toCollapse, collapseField(b) PROVE Within(L)'
    BY <1>2, WithinCollapse
<1>3. ASSUME NEW c \in prog.calls, resolveIndCall(c) PROVE Within(L)'
    BY <1>3, WithinCall
<1>4. CASE endIteration(first) \/ finish \/ Terminated
    <2>1. UNCHANGED <<graphVars, pts, newCopies, cycles>>
        BY <1>4 DEF endIteration, finish, Terminated, vars, ptsVars
    <2> QED BY <2>1, WithinFrame
<1>5. ASSUME NEW n \in redundantGepNodes, removeGepNode(n) PROVE Within(L)'
    <2>1. /\ UNCHANGED <<copyE, gepE, loadE, storeE, pts, cycles, newCopies>>
          /\ \A m \in Nodes : rep'[m] \in {m, rep[m]}
        BY <1>5 DEF removeGepNode, cleanConsCG, ptsVars
    <2>2. RepsWithin(L)'
        BY <2>1 DEF Within, RepsWithin, Alike, Below
    <2>3. PtsWithin(L)' /\ GepsWithin(L)' /\ AccessesWithin(L)' /\ CopiesWithin(L)'
        BY <2>1 DEF Within, PtsWithin, GepsWithin, AccessesWithin, CopiesWithin
    <2> QED BY <2>2, <2>3 DEF Within
<1> QED BY <1>1, <1>2, <1>3, <1>4, <1>5 DEF Common

(***************************************************************************)
(* The graph of the program is within every closed set.                    *)
(***************************************************************************)
LEMMA WithinInit ==
    ASSUME NEW first, IsProgram(prog), StartSolver(first)
    PROVE  PreciseInv
<1> SUFFICES ASSUME NEW L, Closed(L) PROVE Within(L)
    BY DEF PreciseInv
<1>1. PtsWithin(L)
    <2> SUFFICES ASSUME NEW n \in Nodes, NEW o \in ObjNodes, <<o, n>> \in prog.addr
                 PROVE  <<Base[o], Whole(n)>> \in L
        BY DEF StartSolver, PtsWithin
    <2>1. Base[o] = o /\ Whole(n) = n
        BY WholeNodes
    <2> QED BY <2>1 DEF Closed
<1>2. RepsWithin(L)
    BY DEF StartSolver, RepsWithin, Alike, Below
<1>3. CopiesWithin(L) /\ GepsWithin(L)
    BY DEF StartSolver, CopiesWithin, GepsWithin, Closed
<1>4. ASSUME NEW o \in ObjNodes \ PointerlessObjs
      PROVE  Base[o] \in WholeObjs \ PointerlessObjs /\ Whole(o) = Whole(Base[o])
    BY GraphAssumption DEF WholeObjs, Whole
<1>5. \A e \in prog.load \cup prog.store : Whole(e[1]) = e[1] /\ Whole(e[2]) = e[2]
    BY WholeNodes
<1>6. AccessesWithin(L)
    <2>1. ASSUME NEW e \in loadE, NEW o \in ObjNodes \ PointerlessObjs,
                 <<Base[o], Whole(e[1])>> \in L
          PROVE  Below(L, o, e[2])
        <3>1. e \in prog.load /\ Whole(e[1]) = e[1]
            BY <1>5 DEF StartSolver
        <3>2. Below(L, Base[o], e[2])
            BY <1>4, <2>1, <3>1 DEF Closed
        <3> QED BY <1>4, <3>2 DEF Below
    <2>2. ASSUME NEW e \in storeE, NEW o \in ObjNodes \ PointerlessObjs,
                 <<Base[o], Whole(e[2])>> \in L
          PROVE  Below(L, e[1], o)
        <3>1. e \in prog.store /\ Whole(e[2]) = e[2]
            BY <1>5 DEF StartSolver
        <3>2. Below(L, e[1], Base[o])
            BY <1>4, <2>2, <3>1 DEF Closed
        <3> QED BY <1>4, <3>2 DEF Below
    <2> QED BY <2>1, <2>2 DEF AccessesWithin
<1> QED BY <1>1, <1>2, <1>3, <1>6 DEF Within

(***************************************************************************)
(* The least solution satisfies the constraints, so the facts are in it.   *)
(***************************************************************************)
LEMMA LeastClosed ==
    ASSUME IsProgram(prog)
    PROVE  Closed(Inclusion!Least)
<1> DEFINE L == Inclusion!Least
<1>1. prog.addr \subseteq L /\ L \subseteq AllFacts /\ Inclusion!Infer(L) = L
    BY LeastIsLeast
<1> HIDE DEF L
<1>2. ASSUME NEW e \in Inclusion!Inclusions(L), NEW o, <<o, e[1]>> \in L PROVE <<o, e[2]>> \in L
    <2>1. o \in Inclusion!PointeesIn(L, e[1])
        BY <1>2 DEF Inclusion!PointeesIn
    <2> QED BY <1>1, <2>1, InferenceOf
<1>3. /\ \A e \in prog.copy \cup prog.load \cup prog.store : Whole(e[1]) = e[1] /\ Whole(e[2]) = e[2]
      /\ \A g \in prog.gep : Whole(g.src) = g.src /\ Whole(g.dst) = g.dst
      /\ \A c \in prog.calls : \A e \in c.params : Whole(e[1]) = e[1] /\ Whole(e[2]) = e[2]
      /\ \A o \in WholeObjs : Whole(o) = o
    BY WholeNodes DEF Whole, WholeObjs
<1>4. \A e \in Inclusion!Inclusions(L) :
          Whole(e[1]) = e[1] /\ Whole(e[2]) = e[2] => Below(L, e[1], e[2])
    BY <1>2 DEF Below
<1>5. \A e \in prog.copy : Below(L, e[1], e[2])
    BY <1>3, <1>4, InclusionOf
<1>6. ASSUME NEW g \in prog.gep PROVE Below(L, g.src, g.dst)
    <2> DEFINE e == <<g.src, g.dst>>
    <2>1. e \in Inclusion!Inclusions(L)
        BY InclusionOf
    <2>2. e[1] = g.src /\ e[2] = g.dst
        OBVIOUS
    <2> HIDE DEF e
    <2> QED BY <1>3, <1>4, <2>1, <2>2
<1>7. ASSUME NEW x \in prog.load, NEW o \in WholeObjs \ PointerlessObjs, <<o, x[1]>> \in L
      PROVE  Below(L, o, x[2])
    <2> DEFINE e == <<o, x[2]>>
    <2>1. o \in Inclusion!Through(L, x[1])
        BY <1>7 DEF Inclusion!Through, Inclusion!PointeesIn
    <2>2. e \in Inclusion!Inclusions(L)
        BY <2>1, InclusionOf
    <2>3. e[1] = o /\ e[2] = x[2]
        OBVIOUS
    <2> HIDE DEF e
    <2> QED BY <1>3, <1>4, <2>2, <2>3
<1>8. ASSUME NEW x \in prog.store, NEW o \in WholeObjs \ PointerlessObjs, <<o, x[2]>> \in L
      PROVE  Below(L, x[1], o)
    <2> DEFINE e == <<x[1], o>>
    <2>1. o \in Inclusion!Through(L, x[2])
        BY <1>8 DEF Inclusion!Through, Inclusion!PointeesIn
    <2>2. e \in Inclusion!Inclusions(L)
        BY <2>1, InclusionOf
    <2>3. e[1] = x[1] /\ e[2] = o
        OBVIOUS
    <2> HIDE DEF e
    <2> QED BY <1>3, <1>4, <2>2, <2>3
<1>9. ASSUME NEW c \in prog.calls, c.argsMatch, <<c.fun, c.fptr>> \in L
      PROVE  /\ \A e \in c.params : Below(L, e[1], e[2])
             /\ \A h \in c.heap : <<h[2], h[1]>> \in L
    <2>1. c \in Inclusion!Called(L)
        BY <1>9 DEF Inclusion!Called
    <2>2. \A e \in c.params : e \in Inclusion!Inclusions(L)
        BY <2>1, InclusionOf
    <2>3. \A h \in c.heap : <<h[2], h[1]>> \in L
        BY <1>1, <2>1, InferenceOf
    <2> QED BY <1>3, <1>4, <2>2, <2>3
<1> QED BY <1>1, <1>5, <1>6, <1>7, <1>8, <1>9 DEF Closed, L

(***************************************************************************)
(* What the solver holds within the least solution is facts of it.         *)
(***************************************************************************)
LEMMA FactsWithin ==
    ASSUME TypeOK, PreciseInv
    PROVE  Precise
<1>1. Closed(Inclusion!Least)
    BY LeastClosed DEF TypeOK
<1>2. Within(Inclusion!Least)
    BY <1>1 DEF PreciseInv
<1> SUFFICES ASSUME NEW n \in Nodes, NEW o \in pts[rep[n]] PROVE <<Base[o], Whole(n)>> \in Inclusion!Least
    BY DEF Precise, Facts, getPts, sccRepNode
<1>3. rep[n] \in Nodes /\ Base[o] \in ObjNodes
    BY GraphAssumption DEF TypeOK, PTS
<1>4. <<Base[o], Whole(rep[n])>> \in Inclusion!Least
    BY <1>2, <1>3 DEF Within, PtsWithin
<1> QED BY <1>2, <1>3, <1>4 DEF Within, RepsWithin, Alike, Below

-----------------------------------------------------------------------------
(* The solvers implement the inclusion constraints.                        *)

(***************************************************************************)
(* Both start from the address constraints.                                *)
(***************************************************************************)
LEMMA FactsInit ==
    ASSUME NEW first, first \notin {"finalize", "done"}, IsProgram(prog), StartSolver(first)
    PROVE  Inclusion!AbsInit
<1>1. \A n \in Nodes : getPts(n) = {o \in ObjNodes : <<o, n>> \in prog.addr}
    BY DEF StartSolver, getPts, sccRepNode
<1>2. \A e \in prog.addr : /\ e[1] \in ObjNodes /\ e[2] \in Nodes /\ e = <<e[1], e[2]>>
                           /\ Base[e[1]] = e[1] /\ Whole(e[2]) = e[2]
    BY ProgramTypes, WholeNodes
<1>3. ASSUME NEW e \in prog.addr PROVE e \in Facts
    <2>1. e[1] \in getPts(e[2]) /\ e = <<Base[e[1]], Whole(e[2])>> /\ e[2] \in Nodes
        BY <1>1, <1>2
    <2> QED BY <2>1 DEF Facts
<1>4. ASSUME NEW f \in Facts PROVE f \in prog.addr
    <2>1. PICK n \in Nodes : \E o \in getPts(n) : f = <<Base[o], Whole(n)>>
        BY DEF Facts
    <2>2. PICK o \in getPts(n) : f = <<Base[o], Whole(n)>>
        BY <2>1
    <2>3. <<o, n>> \in prog.addr
        BY <1>1
    <2>4. Base[o] = o /\ Whole(n) = n
        BY <1>2, <2>3
    <2> QED BY <2>2, <2>3, <2>4
<1>5. Facts = prog.addr
    BY <1>3, <1>4
<1>6. (phase \in {"finalize", "done"}) = FALSE
    BY DEF StartSolver
<1> QED BY <1>5, <1>6 DEF Inclusion!AbsInit

(***************************************************************************)
(* Steps that lose no fact under a node's representative lose none of the  *)
(* solution.                                                               *)
(***************************************************************************)
LEMMA FactsGrowing ==
    ASSUME TypeOK, TypeOK', FactsStay
    PROVE  Facts \subseteq Facts'
<1> SUFFICES ASSUME NEW n \in Nodes, NEW o \in pts[rep[n]] PROVE <<Base[o], Whole(n)>> \in Facts'
    BY DEF Facts, getPts, sccRepNode
<1>1. rep[n] \in Nodes /\ o \in ObjNodes /\ Base[Base[o]] = Base[o]
    BY GraphAssumption DEF TypeOK, PTS
<1>2. o \in pts'[rep'[n]] \/ Base[o] \in pts'[rep'[n]]
    BY DEF FactsStay, HasAfter, Covers
<1>3. PICK u \in pts'[rep'[n]] : Base[u] = Base[o]
    BY <1>1, <1>2
<1>4. <<Base[u], Whole(n)>> \in Facts'
    BY <1>3 DEF Facts, getPts, sccRepNode
<1> QED BY <1>3, <1>4

(***************************************************************************)
(* A fact about a pointer is in the points-to set of its representative.   *)
(***************************************************************************)
LEMMA PointerFacts ==
    ASSUME NEW p \in Pointers, NEW b
    PROVE  <<b, p>> \in Facts <=> \E o \in getPts(p) : b = Base[o]
<1>1. p \in Nodes /\ Whole(p) = p
    BY DEF Pointers, Whole
<1>2. ASSUME NEW n \in Nodes, Whole(n) = p PROVE n = p
    BY <1>2, GraphAssumption DEF Whole, Pointers
<1>3. ASSUME <<b, p>> \in Facts PROVE \E o \in getPts(p) : b = Base[o]
    <2>1. PICK n \in Nodes : \E o \in getPts(n) : <<b, p>> = <<Base[o], Whole(n)>>
        BY <1>3 DEF Facts
    <2> QED BY <1>2, <2>1
<1>4. ASSUME NEW o \in getPts(p), b = Base[o] PROVE <<b, p>> \in Facts
    BY <1>1, <1>4 DEF Facts
<1> QED BY <1>3, <1>4

(***************************************************************************)
(* The solver stops where the copy constraints are satisfied.              *)
(***************************************************************************)
LEMMA FactsFinish ==
    ASSUME TypeOK, GraphConstraintsHold, Solving, ~Solving', UNCHANGED <<prog, pts, rep>>
    PROVE  Inclusion!Finish
<1>1. ASSUME NEW e \in prog.copy, NEW b \in Inclusion!PointeesIn(Facts, e[1])
      PROVE  b \in Inclusion!PointeesIn(Facts, e[2])
    <2>1. e[1] \in Pointers /\ e[2] \in Pointers
        BY DEF TypeOK, IsProgram
    <2>2. <<b, e[1]>> \in Facts
        <3>1. PICK f \in Facts : f[2] = e[1] /\ b = f[1]
            BY DEF Inclusion!PointeesIn
        <3>2. f = <<f[1], f[2]>>
            BY DEF Facts
        <3> QED BY <3>1, <3>2
    <2>3. PICK o \in getPts(e[1]) : b = Base[o]
        BY <2>1, <2>2, PointerFacts
    <2>4. o \in ObjNodes /\ Base[Base[o]] = Base[o]
        BY <2>1, GraphAssumption DEF TypeOK, getPts, sccRepNode, PTS, Pointers
    <2>5. o \in getPts(e[2]) \/ Base[o] \in getPts(e[2])
        BY DEF GraphConstraintsHold, CopyHolds, HasAll, Covers
    <2>6. \E u \in getPts(e[2]) : b = Base[u]
        BY <2>3, <2>4, <2>5
    <2>7. <<b, e[2]>> \in Facts
        BY <2>1, <2>6, PointerFacts
    <2> QED BY <2>7 DEF Inclusion!PointeesIn
<1>2. Facts' = Facts
    BY DEF Facts, getPts, sccRepNode
<1>3. /\ (phase \in {"finalize", "done"}) = FALSE
      /\ (phase \in {"finalize", "done"})' = TRUE
    BY DEF Solving
<1> QED BY <1>1, <1>2, <1>3 DEF Inclusion!Finish

(***************************************************************************)
(* A step of the solver is an inference of facts that the least solution   *)
(* has, or changes none.                                                   *)
(***************************************************************************)
LEMMA FactsDerived ==
    ASSUME TypeOK, TypeOK', PreciseInv', FactsStay, Solving, Solving', prog' = prog
    PROVE  Inclusion!Derive \/ UNCHANGED Inclusion!absVars
<1>1. Facts \subseteq Facts'
    BY FactsGrowing
<1>2. PICK L : L = Inclusion!Least
    OBVIOUS
<1>3. Closed(L)
    BY <1>2, LeastClosed DEF TypeOK
<1>4. Within(L)'
    BY <1>3 DEF PreciseInv, Closed
<1>5. Facts' \subseteq L
    <2> SUFFICES ASSUME NEW n \in Nodes, NEW o \in pts'[rep'[n]] PROVE <<Base[o], Whole(n)>> \in L
        BY DEF Facts, getPts, sccRepNode
    <2>1. rep'[n] \in Nodes /\ Base[o] \in ObjNodes
        BY GraphAssumption DEF TypeOK, PTS
    <2>2. <<Base[o], Whole(rep'[n])>> \in L
        BY <1>4, <2>1 DEF Within, PtsWithin
    <2> QED BY <1>4, <2>1, <2>2 DEF Within, RepsWithin, Alike, Below
<1>6. (phase \in {"finalize", "done"}) = FALSE /\ (phase \in {"finalize", "done"})' = FALSE
    BY DEF Solving
<1> QED BY <1>1, <1>2, <1>5, <1>6 DEF Inclusion!Derive, Inclusion!absVars

-----------------------------------------------------------------------------
(* A node without incoming edges is in no component: it is never merged.   *)

Alone(v) ==
    /\ \A m \in Nodes : rep[m] = v <=> m = v
    /\ \A c \in cycles : v \notin Block(c)
    /\ \A e \in copyE \cup newCopies : e[2] # v
    /\ \A g \in gepE : g.src # v /\ g.dst # v
    /\ \A e \in loadE \cup storeE : e[1] # v /\ e[2] # v

(***************************************************************************)
(* A component that has a node with one edge into it has the edge's other  *)
(* end as well; without any edge into it the node is in no component.      *)
(***************************************************************************)
LEMMA ComponentsClosed ==
    ASSUME NEW edges \in SUBSET Edges, NEW c \in Components(edges), Cardinality(c) > 1,
           NEW v \in c, NEW from, \A e \in edges : e[2] = v => e[1] = from
    PROVE  <<from, v>> \in edges /\ (from \in Reps => from \in c)
<1> DEFINE reach == [x \in Reps |-> ReachableFrom(x, edges)]
<1>1. PICK x \in Reps : c = {y \in Reps : reach[y] = reach[x]}
    BY DEF Components
<1>2. PICK n \in c : n # v
    <2>1. CASE c = {v}
        <3>1. Cardinality({v}) = 1
            BY FS_Singleton
        <3> QED BY <2>1, <3>1
    <2> QED BY <2>1
<1>3. n \in Reps /\ v \in Reps /\ reach[n] = reach[v]
    BY <1>1
<1>4. ReachableFrom(n, edges) = ReachableFrom(v, edges)
    BY <1>3
<1>5. n \in Nodes /\ v \in Nodes
    BY <1>3 DEF Reps
<1>6. /\ n \in ReachableFrom(n, edges) /\ v \in ReachableFrom(n, edges)
      /\ \A e \in edges : e[1] \in ReachableFrom(n, edges) => e[2] \in ReachableFrom(n, edges)
    BY <1>4, <1>5, Reach
<1>7. from \in ReachableFrom(n, edges) /\ <<from, v>> \in edges
    <2> SUFFICES ASSUME ~(from \in ReachableFrom(n, edges) /\ <<from, v>> \in edges)
                 PROVE  FALSE
        OBVIOUS
    <2> DEFINE bound == ReachableFrom(n, edges) \ {v}
    <2>1. n \in bound
        BY <1>2, <1>6
    <2>2. ASSUME NEW e \in edges, e[1] \in bound PROVE e[2] \in bound
        <3>1. CASE e[2] = v
            <4>1. e[1] = from /\ e = <<e[1], e[2]>>
                BY <3>1 DEF Edges
            <4> QED BY <2>2, <3>1, <4>1
        <3>2. CASE e[2] # v
            BY <1>6, <2>2, <3>2
        <3> QED BY <3>1, <3>2
    <2> HIDE DEF bound
    <2>3. ReachableFrom(n, edges) \subseteq bound
        BY <1>5, <2>1, <2>2, Reach
    <2> QED BY <1>6, <2>3 DEF bound
<1>8. from \in Nodes
    BY <1>7 DEF Edges
<1>9. ReachableFrom(from, edges) \subseteq ReachableFrom(n, edges)
    <2> DEFINE bound == ReachableFrom(n, edges)
    <2>1. from \in bound /\ \A e \in edges : e[1] \in bound => e[2] \in bound
        BY <1>6, <1>7
    <2> HIDE DEF bound
    <2>2. ReachableFrom(from, edges) \subseteq bound
        BY <1>8, <2>1, Reach
    <2> QED BY <2>2 DEF bound
<1>10. ReachableFrom(v, edges) \subseteq ReachableFrom(from, edges)
    <2> DEFINE bound == ReachableFrom(from, edges)
    <2>1. v \in bound /\ \A e \in edges : e[1] \in bound => e[2] \in bound
        BY <1>7, <1>8, Reach
    <2> HIDE DEF bound
    <2>2. ReachableFrom(v, edges) \subseteq bound
        BY <1>5, <2>1, Reach
    <2> QED BY <2>2 DEF bound
<1>11. from \in Reps => reach[from] = reach[v]
    <2>1. ReachableFrom(from, edges) = ReachableFrom(v, edges)
        BY <1>4, <1>9, <1>10
    <2> QED BY <1>3, <2>1
<1> QED BY <1>1, <1>3, <1>7, <1>11


(***************************************************************************)
(* What leaves the graph alone keeps a node alone, unless a cycle has it.  *)
(***************************************************************************)
LEMMA AloneFrame ==
    ASSUME NEW v, Alone(v), UNCHANGED <<graphVars, newCopies>>,
           \A c \in cycles' : v \notin Block(c)
    PROVE  Alone(v)'
BY DEF Alone, graphVars, Block

(***************************************************************************)
(* The search for components leaves out a node nothing leads to.           *)
(***************************************************************************)
LEMMA AloneFound ==
    ASSUME TypeOK, NEW v, Alone(v), UNCHANGED <<graphVars, newCopies>>,
           NEW found, found \subseteq BigComponents,
           NEW root, \A c \in found : root[c] \in c,
           cycles' = {[rep |-> root[c], left |-> c \ {root[c]}, members |-> c,
                       geps |-> {}, scc |-> TRUE] : c \in found}
    PROVE  Alone(v)'
<1>1. PICK edges \in {DirectEdges(MergePWC)} : TRUE
    OBVIOUS
<1>2. ASSUME NEW c \in found PROVE v \notin c
    <2>1. copyE \subseteq Edges /\ \A g \in gepE : <<g.src, g.dst>> \in Edges
        BY DEF TypeOK, GepEdges, Edges
    <2>2. edges \in SUBSET Edges /\ \A e \in edges : e[2] # v
        BY <1>1, <2>1 DEF DirectEdges, Alone
    <2>3. c \in Components(edges) /\ Cardinality(c) > 1
        BY <1>1 DEF BigComponents
    <2>4. v \in c => <<v, v>> \in edges
        BY <2>2, <2>3, ComponentsClosed
    <2> QED BY <2>2, <2>4
<1>3. ASSUME NEW d \in cycles' PROVE v \notin Block(d)
    <2>1. PICK c \in found : d = [rep |-> root[c], left |-> c \ {root[c]}, members |-> c,
                                  geps |-> {}, scc |-> TRUE]
        OBVIOUS
    <2>2. d.rep = root[c] /\ d.left = c \ {root[c]}
        BY <2>1
    <2> QED BY <1>2, <2>2 DEF Block
<1> QED BY <1>3, AloneFrame

(***************************************************************************)
(* Merging other nodes gives it no incoming edge.                          *)
(***************************************************************************)
LEMMA AloneMerge ==
    ASSUME TypeOK, RepInv, DoneSettled, NEW v, Alone(v),
           NEW c \in cycles, NEW node \in c.left, mergeNode(c, node)
    PROVE  Alone(v)'
<1> DEFINE r == c.rep
<1>1. v # r /\ v # node /\ newCopies = {} /\ newCopies' = {}
    BY DEF Alone, Block, RepInv, DoneSettled, Settled, EdgesApart, mergeNode
<1>2. \A x : Retarget(x, node, r) = v => x = v
    BY <1>1 DEF Retarget
<1>3. \A m \in Nodes : rep'[m] = v <=> m = v
    BY <1>1, RepInvMerge DEF Alone
<1>4. \A d \in cycles' : v \notin Block(d)
    <2> DEFINE smaller == [c EXCEPT !.left = @ \ {node}, !.geps = @ \cup CriticalGeps(node, r)]
    <2>1. cycles' = (cycles \ {c}) \cup {smaller}
        BY DEF mergeNode
    <2>2. smaller.rep = r /\ smaller.left = c.left \ {node}
        BY DEF TypeOK, Cycles
    <2> HIDE DEF smaller
    <2> QED BY <2>1, <2>2 DEF Alone, Block
<1>5. \A e \in copyE' : e[2] # v
    BY <1>2 DEF Alone, mergeNode, moveEdgesToRepNode, MovedCopies, RetargetEdge
<1>6. ASSUME NEW g \in gepE' PROVE g.src # v /\ g.dst # v
    <2>1. CASE g \in gepE
        BY <2>1 DEF Alone
    <2>2. CASE g \notin gepE
        <3>1. PICK h \in gepE : g = RetargetGep(h, node, r)
            BY <2>2 DEF mergeNode, moveEdgesToRepNode, MovedGeps
        <3>2. g.src = Retarget(h.src, node, r) /\ g.dst = Retarget(h.dst, node, r)
            BY <3>1 DEF RetargetGep, TypeOK, GepEdges
        <3> QED BY <1>2, <3>2 DEF Alone
    <2> QED BY <2>1, <2>2
<1>7. \A e \in loadE' \cup storeE' : e[1] # v /\ e[2] # v
    BY <1>2 DEF Alone, mergeNode, moveEdgesToRepNode, RetargetEdge
<1> QED BY <1>1, <1>3, <1>4, <1>5, <1>6, <1>7 DEF Alone, Block

(***************************************************************************)
(* No load or store asks for an edge into it, if nothing points to it.     *)
(***************************************************************************)
LEMMA AloneAsk ==
    ASSUME TypeOK, NEW v, Alone(v), NEW n \in Nodes, v \notin pts[n],
           UNCHANGED <<graphVars, cycles>>,
           newCopies' = NewEdges(LoadCopies(n) \cup StoreCopies(n))
    PROVE  Alone(v)'
<1>1. \A x \in LoadCopies(n) \cup StoreCopies(n) : x[2] # v
    BY DEF LoadCopies, StoreCopies, Alone
<1>2. LoadCopies(n) \cup StoreCopies(n) \in SUBSET Edges
    BY GraphAssumption DEF TypeOK, PTS, LoadCopies, StoreCopies, Edges
<1>3. \A e \in newCopies' : e[2] # v
    BY <1>1, <1>2 DEF NewEdges, Alone, Edges
<1> QED BY <1>3 DEF Alone, graphVars, Block

(***************************************************************************)
(* Nor does inserting a copy edge that was asked for.                      *)
(***************************************************************************)
LEMMA AloneAddEdge ==
    ASSUME NEW v, Alone(v), NEW e \in newCopies, insertCopy(e)
    PROVE  Alone(v)'
<1>1. /\ copyE' \cup newCopies' \subseteq copyE \cup newCopies
      /\ UNCHANGED <<gepE, loadE, storeE, rep, cycles>>
    BY DEF insertCopy
<1> QED BY <1>1 DEF Alone, Block

(***************************************************************************)
(* Nor does a call that does not copy to it.                               *)
(***************************************************************************)
LEMMA AloneCall ==
    ASSUME TypeOK, NEW v, Alone(v), NEW c \in prog.calls, resolveIndCall(c),
           \A e \in c.params : e[2] # v
    PROVE  Alone(v)'
<1>1. UNCHANGED <<graphVars, cycles>> /\ newCopies = {}
    BY DEF resolveIndCall, Settled
<1>2. c.params \subseteq Edges
    BY ProgramTypes DEF TypeOK
<1>3. \A e \in newCopies' : e[2] # v
    BY <1>1, <1>2 DEF resolveIndCall, NewEdges, Alone, Edges
<1> QED BY <1>1, <1>3 DEF Alone, graphVars, Block

(***************************************************************************)
(* Nor does removing a redundant field.                                    *)
(***************************************************************************)
LEMMA AloneRemove ==
    ASSUME NEW v, Alone(v), NEW n \in redundantGepNodes, removeGepNode(n)
    PROVE  Alone(v)'
<1>1. /\ UNCHANGED <<copyE, gepE, loadE, storeE, cycles, newCopies>>
      /\ \A m \in Nodes : rep'[m] \in {m, rep[m]}
      /\ \A m \in Nodes : rep[m] = m => rep'[m] = m
    BY DEF removeGepNode, cleanConsCG
<1> QED BY <1>1 DEF Alone, Block

(***************************************************************************)
(* Nor do the other steps that do not depend on the loop: a collapse only  *)
(* merges field nodes, and those of other objects are not concerned.       *)
(***************************************************************************)
LEMMA AloneCommon ==
    ASSUME TypeOK, NEW v, Alone(v), v \notin ObjNodes \/ toCollapse = {},
           NEW first, Common(first),
           \A c \in prog.calls : \A e \in c.params : e[2] # v
    PROVE  Alone(v)'
<1>1. ASSUME NEW c \in prog.calls, resolveIndCall(c) PROVE Alone(v)'
    BY <1>1, AloneCall
<1>2. ASSUME NEW n \in redundantGepNodes, removeGepNode(n) PROVE Alone(v)'
    BY <1>2, AloneRemove
<1>3. ASSUME NEW b \in toCollapse, collapseField(b) PROVE Alone(v)'
    <2>1. /\ UNCHANGED <<graphVars, newCopies>>
          /\ cycles' = {[rep |-> rep[b], left |-> {rep[f] : f \in AllFieldsObjNode(b)} \ {rep[b]},
                         members |-> {}, geps |-> {}, scc |-> FALSE]}
        BY <1>3 DEF collapseField
    <2>2. b \in ObjNodes /\ AllFieldsObjNode(b) \subseteq ObjNodes /\ ObjNodes \subseteq Nodes
        BY GraphAssumption DEF TypeOK, AllFieldsObjNode
    <2>3. rep[b] # v /\ \A f \in AllFieldsObjNode(b) : rep[f] # v
        BY <1>3, <2>2 DEF Alone
    <2>4. \A c \in cycles' : v \notin Block(c)
        BY <2>1, <2>3 DEF Block
    <2> QED BY <2>1, <2>4, AloneFrame
<1>4. ASSUME \/ \E c \in cycles : finishScc(c) \/ finishCollapse(c)
             \/ endIteration(first) \/ finish \/ Terminated
      PROVE  Alone(v)'
    <2>1. UNCHANGED <<graphVars, newCopies>> /\ cycles' \subseteq cycles
        BY <1>4 DEF finishScc, finishCollapse, endIteration, finish, Terminated, vars
    <2> QED BY <2>1, AloneFrame DEF Alone
<1> QED BY <1>1, <1>2, <1>3, <1>4 DEF Common

(***************************************************************************)
(* A node the program does not copy, load or compute to starts alone.      *)
(***************************************************************************)
LEMMA AloneInit ==
    ASSUME NEW first, StartSolver(first), NEW v,
           \A e \in prog.copy : e[2] # v,
           \A g \in prog.gep : g.src # v /\ g.dst # v,
           \A e \in prog.load \cup prog.store : e[1] # v /\ e[2] # v
    PROVE  Alone(v)
BY DEF StartSolver, Alone

(***************************************************************************)
(* An allocation wrapper's dummy node is no object, only its own call      *)
(* copies into or out of it, and no constraint of the program mentions it. *)
(***************************************************************************)
LEMMA DummyTypes ==
    ASSUME TypeOK, NEW c \in prog.calls, NEW h \in c.heap
    PROVE  /\ h[1] \in Nodes \ ObjNodes /\ h[2] \in ObjNodes /\ Base[h[2]] = h[2]
           /\ \A d \in prog.calls : \A e \in d.params :
                  e[2] # h[1] /\ (e[1] = h[1] => h \in d.heap)
           /\ \A e \in prog.copy \cup prog.load \cup prog.store : e[1] # h[1] /\ e[2] # h[1]
           /\ \A g \in prog.gep : g.src # h[1] /\ g.dst # h[1]
<1>1. prog.calls \subseteq Calls /\ FreshDummies(prog)
    BY DEF TypeOK, IsProgram
<1>2. h \in Pointers \X WholeObjs
    BY <1>1 DEF Calls
<1>3. \A e \in prog.copy \cup prog.load \cup prog.store \cup {<<g.src, g.dst>> : g \in prog.gep} :
          h[1] \notin {e[1], e[2]}
    BY <1>1 DEF FreshDummies
<1>4. \A d \in prog.calls : \A e \in d.params : e[2] # h[1] /\ (e[1] = h[1] => h \in d.heap)
    BY <1>1 DEF FreshDummies
<1>5. ASSUME NEW g \in prog.gep PROVE g.src # h[1] /\ g.dst # h[1]
    <2>1. h[1] \notin {<<g.src, g.dst>>[1], <<g.src, g.dst>>[2]}
        BY <1>3
    <2> QED BY <2>1
<1>6. \A e \in prog.copy \cup prog.load \cup prog.store : e[1] # h[1] /\ e[2] # h[1]
    BY <1>3
<1>7. h[1] \in Nodes \ ObjNodes /\ h[2] \in ObjNodes /\ Base[h[2]] = h[2]
    BY <1>2 DEF Pointers, WholeObjs
<1> QED BY <1>4, <1>5, <1>6, <1>7

-----------------------------------------------------------------------------
(* Finalisation after a collapse.  Merging leaves a node what it had, and  *)
(* puts its representative's facts before it.                              *)

\* The dummy values of allocator calls are never merged.
DummiesAlone == \A c \in prog.calls : \A h \in c.heap : Alone(h[1])

SetsBelow == \A n \in Nodes : pts[n] \subseteq pts[rep[n]]

(***************************************************************************)
(* A merge gives the representative all that the node had.                 *)
(***************************************************************************)
LEMMA SetsBelowMerge ==
    ASSUME TypeOK, RepInv, DoneSettled, SetsBelow,
           NEW c \in cycles, NEW n \in c.left, mergeNode(c, n)
    PROVE  SetsBelow'
<1> SUFFICES ASSUME NEW m \in Nodes PROVE pts'[m] \subseteq pts'[rep'[m]]
    BY DEF SetsBelow
<1>1. /\ RepInv' /\ c.rep \in Reps /\ n \in Reps /\ c.rep # n
      /\ rep'[m] = IF rep[m] = n THEN c.rep ELSE rep[m]
    BY RepInvMerge
<1>2. \A x \in Nodes : pts'[x] = IF x = c.rep THEN pts[x] \cup pts[n] ELSE pts[x]
    BY DEF mergeNode, unionPts, TypeOK
<1>3. m = c.rep => rep[m] = m
    BY <1>1 DEF Reps
<1>4. rep[m] \in Nodes /\ pts[m] \subseteq pts[rep[m]]
    BY DEF TypeOK, SetsBelow
<1> QED BY <1>1, <1>2, <1>3, <1>4 DEF Reps

(***************************************************************************)
(* Edges end at representatives, so only these gain by propagation.        *)
(***************************************************************************)
LEMMA SetsBelowPropagate ==
    ASSUME TypeOK, EdgesAtReps, SetsBelow, NEW n, NEW queue, handleCopyGep(n, queue), rep' = rep
    PROVE  SetsBelow'
<1> SUFFICES ASSUME NEW m \in Nodes PROVE pts'[m] \subseteq pts'[rep[m]]
    BY DEF SetsBelow
<1>1. rep[m] \in Nodes /\ pts[m] \subseteq pts[rep[m]]
    BY DEF TypeOK, SetsBelow
<1>2. PICK insensitive : pts' = [d \in Nodes |-> pts[d] \cup [x \in Nodes |-> Gained(n, insensitive, x)][d]]
    BY DEF handleCopyGep
<1>3. CASE Gained(n, insensitive, m) = {}
    BY <1>1, <1>2, <1>3
<1>4. CASE Gained(n, insensitive, m) # {}
    <2>1. <<n, m>> \in copyE \/ \E g \in gepE : g.dst = m
        BY <1>4 DEF Gained, GepsFrom
    <2>2. <<n, m>> \in copyE => m \in Reps
        BY DEF EdgesAtReps
    <2>3. ASSUME NEW g \in gepE, g.dst = m PROVE m \in Reps
        <3>1. <<g.src, g.dst>> \in Reps \X Reps
            BY DEF EdgesAtReps, DirectEdges
        <3> QED BY <2>3, <3>1
    <2> QED BY <2>1, <2>2, <2>3 DEF Reps
<1> QED BY <1>3, <1>4

(***************************************************************************)
(* A collapse rewrites all sets alike, a call's new objects are for        *)
(* dummies, which are not merged, and finalisation makes nodes their own   *)
(* representatives.                                                        *)
(***************************************************************************)
LEMMA SetsBelowCommon ==
    ASSUME TypeOK, SetsBelow, DummiesAlone, NEW first, Common(first)
    PROVE  SetsBelow'
<1> SUFFICES ASSUME NEW m \in Nodes PROVE pts'[m] \subseteq pts'[rep'[m]]
    BY DEF SetsBelow
<1>1. rep[m] \in Nodes /\ pts[m] \subseteq pts[rep[m]]
    BY DEF TypeOK, SetsBelow
<1>2. ASSUME NEW b \in toCollapse, collapseField(b) PROVE pts'[m] \subseteq pts'[rep'[m]]
    <2>1. rep' = rep /\ \A n \in Nodes : pts'[n] = CollapsedPts(n, AllFieldsObjNode(b), b)
        BY <1>2 DEF collapseField, graphVars
    <2> QED BY <1>1, <2>1 DEF CollapsedPts
<1>3. ASSUME NEW c \in prog.calls, resolveIndCall(c) PROVE pts'[m] \subseteq pts'[rep'[m]]
    <2>1. rep' = rep /\ \A n \in Nodes : pts[n] \subseteq pts'[n]
        BY <1>3 DEF resolveIndCall, graphVars
    <2>2. CASE pts'[m] = pts[m]
        BY <1>1, <2>1, <2>2
    <2>3. CASE pts'[m] # pts[m]
        <3>1. PICK o \in ObjNodes : <<m, o>> \in c.heap
            BY <1>3, <2>3 DEF resolveIndCall
        <3>2. rep[m] = m
            BY <3>1 DEF DummiesAlone, Alone
        <3> QED BY <2>1, <3>2
    <2> QED BY <2>2, <2>3
<1>4. ASSUME NEW n \in redundantGepNodes, removeGepNode(n) PROVE pts'[m] \subseteq pts'[rep'[m]]
    <2>1. pts' = pts /\ rep'[m] \in {m, rep[m]}
        BY <1>4 DEF removeGepNode, cleanConsCG, ptsVars
    <2> QED BY <1>1, <2>1
<1>5. ASSUME (\E c \in cycles : finishScc(c) \/ finishCollapse(c))
             \/ endIteration(first) \/ finish \/ Terminated
      PROVE  UNCHANGED <<pts, rep>>
    BY <1>5 DEF finishScc, finishCollapse, endIteration, finish, Terminated, vars, graphVars, ptsVars
<1> QED BY <1>1, <1>2, <1>3, <1>4, <1>5 DEF Common

(***************************************************************************)
(* Finalisation removes the fields of collapsed objects.  A field that     *)
(* represents another node loses it then, whatever that node is; one that  *)
(* stands alone was merged into its object and only leaves it.             *)
(***************************************************************************)
FieldsStandAlone == phase = "finalize" => \A f \in redundantGepNodes : subs[f] = {}

\* Two nodes have one representative, or a merge under way gives them one.
Joined(a, b) == rep[a] = rep[b] \/ \E c \in cycles : {rep[a], rep[b]} \subseteq Block(c)

FieldsJoined == \A f \in redundantGepNodes : Base[f] # f /\ Joined(f, Base[f])

(***************************************************************************)
(* A merge parts no nodes.                                                 *)
(***************************************************************************)
LEMMA JoinedMerge ==
    ASSUME TypeOK, RepInv, DoneSettled, FieldsJoined,
           NEW c \in cycles, NEW n \in c.left, mergeNode(c, n)
    PROVE  FieldsJoined'
<1>1. /\ MergesApart /\ c.rep # n
      /\ \A m \in Nodes : rep'[m] = IF rep[m] = n THEN c.rep ELSE rep[m]
    BY RepInvMerge DEF RepInv, DoneSettled, Settled
<1>2. PICK smaller \in cycles' :
          /\ cycles' = (cycles \ {c}) \cup {smaller}
          /\ smaller.rep = c.rep /\ smaller.left = c.left \ {n}
    <2> DEFINE small == [c EXCEPT !.left = @ \ {n}, !.geps = @ \cup CriticalGeps(n, c.rep)]
    <2>1. cycles' = (cycles \ {c}) \cup {small}
        BY DEF mergeNode
    <2>2. small.rep = c.rep /\ small.left = c.left \ {n}
        BY DEF TypeOK, Cycles
    <2> QED BY <2>1, <2>2
<1>3. redundantGepNodes' = redundantGepNodes
    BY DEF mergeNode, objectVars
<1>4. ASSUME NEW f \in redundantGepNodes PROVE Joined(f, Base[f])'
    <2>1. f \in Nodes /\ Base[f] \in Nodes /\ Joined(f, Base[f])
        BY GraphAssumption DEF TypeOK, FieldsJoined
    <2>2. CASE rep[f] = rep[Base[f]]
        BY <1>1, <2>1, <2>2 DEF Joined
    <2>3. ASSUME {rep[f], rep[Base[f]]} \subseteq Block(c) PROVE Joined(f, Base[f])'
        <3>1. {rep'[f], rep'[Base[f]]} \subseteq {smaller.rep} \cup smaller.left
            BY <1>1, <1>2, <2>1, <2>3 DEF Block
        <3> QED BY <1>2, <3>1 DEF Joined, Block
    <2>4. ASSUME NEW d \in cycles, d # c, {rep[f], rep[Base[f]]} \subseteq Block(d)
          PROVE  Joined(f, Base[f])'
        <3>1. n \notin Block(d)
            BY <1>1, <2>4 DEF MergesApart, Block
        <3>2. rep'[f] = rep[f] /\ rep'[Base[f]] = rep[Base[f]]
            BY <1>1, <2>1, <2>4, <3>1
        <3> QED BY <1>2, <2>4, <3>2 DEF Joined, Block
    <2> QED BY <2>1, <2>2, <2>3, <2>4 DEF Joined
<1> QED BY <1>3, <1>4 DEF FieldsJoined

(***************************************************************************)
(* Nor does anything that leaves representatives and merges alone.         *)
(***************************************************************************)
LEMMA JoinedFrame ==
    ASSUME FieldsJoined, UNCHANGED <<rep, redundantGepNodes>>, cycles = {} \/ cycles' = cycles
    PROVE  FieldsJoined'
BY DEF FieldsJoined, Joined, Block

(***************************************************************************)
(* Removing a field that stands alone changes no representative but its    *)
(* own.                                                                    *)
(***************************************************************************)
LEMMA RemovedAlone ==
    ASSUME TypeOK, NEW n \in redundantGepNodes, subs[n] = {}, removeGepNode(n)
    PROVE  rep'[n] = n /\ \A m \in Nodes \ {n} : rep'[m] = rep[m]
<1>1. SubsAfterRepReset(n)[n] = {}
    BY DEF SubsAfterRepReset, TypeOK
<1>2. n \in Nodes
    BY GraphAssumption DEF TypeOK
<1> QED BY <1>1, <1>2 DEF removeGepNode, cleanConsCG

(***************************************************************************)
(* Of the steps both loops share, a collapse merges the fields it makes    *)
(* redundant into their object; a merge ends when all are in.              *)
(***************************************************************************)
LEMMA JoinedCommon ==
    ASSUME TypeOK, DoneSettled, FieldsJoined, FieldsStandAlone, NEW first, Common(first)
    PROVE  FieldsJoined'
<1>1. ASSUME NEW c \in cycles, finishScc(c) \/ finishCollapse(c) PROVE FieldsJoined'
    <2>1. /\ UNCHANGED <<rep, redundantGepNodes>> /\ cycles' = cycles \ {c}
          /\ Block(c) = {c.rep}
        BY <1>1 DEF finishScc, finishCollapse, graphVars, objectVars, Block
    <2> QED BY <2>1 DEF FieldsJoined, Joined, Block
<1>2. ASSUME NEW b \in toCollapse, collapseField(b) PROVE FieldsJoined'
    <2> DEFINE fs == AllFieldsObjNode(b)
               block == [rep |-> rep[b], left |-> {rep[f] : f \in fs} \ {rep[b]},
                         members |-> {}, geps |-> {}, scc |-> FALSE]
    <2>1. /\ cycles = {} /\ cycles' = {block} /\ rep' = rep
          /\ redundantGepNodes' = redundantGepNodes \cup fs
        BY <1>2 DEF collapseField, graphVars
    <2>2. block.rep = rep[b] /\ block.left = {rep[f] : f \in fs} \ {rep[b]}
        OBVIOUS
    <2> HIDE DEF block
    <2>3. \A f \in fs : Base[f] = b /\ Base[f] # f /\ {rep[f], rep[b]} \subseteq {block.rep} \cup block.left
        BY <2>2 DEF AllFieldsObjNode
    <2>4. \A f \in fs : Base[f] # f /\ Joined(f, Base[f])'
        BY <2>1, <2>3 DEF Joined, Block
    <2>5. \A f \in redundantGepNodes : Base[f] # f /\ Joined(f, Base[f])'
        BY <2>1 DEF FieldsJoined, Joined
    <2> QED BY <2>1, <2>4, <2>5 DEF FieldsJoined
<1>3. ASSUME NEW c \in prog.calls, resolveIndCall(c) PROVE FieldsJoined'
    BY <1>3, JoinedFrame DEF resolveIndCall, graphVars, objectVars
<1>4. ASSUME NEW n \in redundantGepNodes, removeGepNode(n) PROVE FieldsJoined'
    <2>1. cycles = {} /\ phase = "finalize" /\ redundantGepNodes' = redundantGepNodes \ {n}
        BY <1>4 DEF DoneSettled, Settled, Solving, removeGepNode
    <2>2. \A m \in Nodes \ {n} : rep'[m] = rep[m]
        BY <1>4, <2>1, RemovedAlone DEF FieldsStandAlone
    <2>3. ASSUME NEW f \in redundantGepNodes \ {n} PROVE Base[f] # f /\ Joined(f, Base[f])'
        <3>1. f \in Nodes /\ Base[f] \in Nodes /\ Base[Base[f]] = Base[f]
            BY GraphAssumption DEF TypeOK
        <3>2. Base[f] # n /\ Base[f] # f /\ rep[f] = rep[Base[f]]
            BY <2>1, <3>1 DEF FieldsJoined, Joined
        <3> QED BY <2>2, <3>1, <3>2 DEF Joined
    <2> QED BY <2>1, <2>3 DEF FieldsJoined
<1>5. CASE endIteration(first) \/ finish \/ Terminated
    BY <1>5, JoinedFrame DEF endIteration, finish, Terminated, graphVars, objectVars, vars
<1> QED BY <1>1, <1>2, <1>3, <1>4, <1>5 DEF Common

(***************************************************************************)
(* Removing such a field changes no answer: pointers keep their            *)
(* representatives and no points-to set holds the field.                   *)
(***************************************************************************)
LEMMA RemovalFrame ==
    ASSUME TypeOK, FieldInv, DoneSettled, RedundantKnown, FieldsJoined, SetsBelow, FieldsStandAlone,
           NEW n \in redundantGepNodes, removeGepNode(n)
    PROVE  /\ GraphConstraintsHold => GraphConstraintsHold'
           /\ UnmergedHold => UnmergedHold'
           /\ AccessesHold => AccessesHold'
           /\ Facts' = Facts
<1>1. /\ UNCHANGED <<gepE, prog, pts, fieldInsensitive, indCalls, varGepPtd>>
      /\ phase = "finalize" /\ cycles = {} /\ toCollapse = {}
    BY DEF removeGepNode, DoneSettled, Settled, Solving, ptsVars, invariantVars
<1>2. /\ n \in ObjNodes /\ Base[n] \in ObjNodes /\ ObjNodes \subseteq Nodes
      /\ Base[Base[n]] = Base[n] /\ Base[n] # n /\ Base[n] \in fieldInsensitive
    BY GraphAssumption DEF TypeOK, FieldsJoined, RedundantKnown
<1>3. rep[n] = rep[Base[n]]
    BY <1>1 DEF FieldsJoined, Joined
<1>4. rep'[n] = n /\ \A m \in Nodes \ {n} : rep'[m] = rep[m]
    BY <1>1, RemovedAlone DEF FieldsStandAlone
<1>5. \A m \in Nodes \ {n} : getPts(m)' = getPts(m)
    BY <1>1, <1>4 DEF getPts, sccRepNode
<1>6. \A m \in Nodes : n \notin pts[m]
    BY <1>1, <1>2 DEF FieldInv, FieldsGone
<1>7. \A m \in Nodes : getPts(m) \in SUBSET (Nodes \ {n})
    BY <1>2, <1>6 DEF TypeOK, PTS, getPts, sccRepNode
<1>8. Pointers \subseteq Nodes \ {n}
    BY <1>2 DEF Pointers
<1>9. /\ \A e \in prog.addr : e[2] \in Pointers
      /\ \A e \in prog.copy \cup prog.load \cup prog.store : e[1] \in Pointers /\ e[2] \in Pointers
      /\ \A c \in prog.calls : c.fptr \in Pointers
      /\ \A c \in prog.calls : \A e \in c.params : e[1] \in Pointers /\ e[2] \in Pointers
      /\ \A g \in prog.gep : g.src \in Pointers /\ g.dst \in Pointers
    BY DEF TypeOK, IsProgram, Calls
<1>10. \A p \in Pointers : getPts(p)' = getPts(p) /\ rep'[p] = rep[p]
    BY <1>4, <1>5, <1>8
<1>11. InvariantVGEP' = InvariantVGEP /\ InvariantPWC' = InvariantPWC
    BY <1>1 DEF InvariantVGEP, InvariantPWC
<1>12. GraphConstraintsHold => GraphConstraintsHold'
    <2>1. \A e \in prog.addr : AddrHolds(e) => AddrHolds(e)'
        BY <1>1, <1>9, <1>10 DEF AddrHolds, HasAll, Covers
    <2>2. \A e : e[1] \in Pointers /\ e[2] \in Pointers /\ CopyHolds(e) => CopyHolds(e)'
        BY <1>1, <1>10 DEF CopyHolds, HasAll, Covers
    <2>3. \A c \in prog.calls : Connected(c) => Connected(c)'
        BY <1>1, <1>9, <1>10, <1>11, <2>2 DEF Connected
    <2>4. \A g \in prog.gep : InGraph(g)' => InGraph(g)
        BY <1>1, <1>9, <1>10 DEF InGraph
    <2>5. \A g \in prog.gep : GepHolds(g) => GepHolds(g)'
        BY <1>1, <1>9, <1>10, <1>11
        DEF GepHolds, GepTargets, VariantTargets, ExcludedByInvariant, HasAll, Covers
    <2> QED BY <1>1, <1>9, <2>1, <2>2, <2>3, <2>4, <2>5 DEF GraphConstraintsHold
<1>13. \A e : e[1] \in Pointers /\ e[2] \in Pointers =>
           (LoadHolds(e) => LoadHolds(e)') /\ (StoreHolds(e) => StoreHolds(e)')
    <2> SUFFICES ASSUME NEW e, e[1] \in Pointers, e[2] \in Pointers
                 PROVE  (LoadHolds(e) => LoadHolds(e)') /\ (StoreHolds(e) => StoreHolds(e)')
        OBVIOUS
    <2>1. getPts(e[1])' = getPts(e[1]) /\ getPts(e[2])' = getPts(e[2])
        BY <1>10
    <2>2. \A o \in getPts(e[1]) \cup getPts(e[2]) : getPts(o)' = getPts(o)
        BY <1>5, <1>7, <1>8
    <2>3. LoadHolds(e) => LoadHolds(e)'
        BY <1>1, <2>1, <2>2 DEF LoadHolds, HasAll, Covers
    <2>4. StoreHolds(e) => StoreHolds(e)'
        BY <1>1, <2>1, <2>2 DEF StoreHolds, HasAll, Covers
    <2> QED BY <2>3, <2>4
<1>14. AccessesHold => AccessesHold'
    BY <1>1, <1>9, <1>13 DEF AccessesHold
<1>15. ASSUME NEW p \in Pointers, Unmerged(p)' PROVE Unmerged(p)
    <2>1. rep[n] # rep[p]
        BY <1>2, <1>3, <1>4, <1>8, <1>10, <1>15 DEF Unmerged, Pointers
    <2> QED BY <1>4, <1>10, <1>15, <2>1 DEF Unmerged
<1>16. UnmergedHold => UnmergedHold'
    BY <1>1, <1>9, <1>13, <1>15 DEF UnmergedHold
<1>17. Facts' = Facts
    <2>1. Whole(n) = Base[n] /\ Whole(Base[n]) = Base[n]
        BY <1>2 DEF Whole
    <2>2. getPts(n) = getPts(Base[n]) /\ getPts(n)' \subseteq getPts(n)
        BY <1>1, <1>2, <1>3, <1>4 DEF getPts, sccRepNode, SetsBelow
    <2>3. getPts(Base[n])' = getPts(Base[n])
        BY <1>2, <1>5
    <2> DEFINE F(m) == {<<Base[o], Whole(m)>> : o \in getPts(m)}
               G(m) == {<<Base[o], Whole(m)>> : o \in getPts(m)'}
    <2>4. Facts = UNION {F(m) : m \in Nodes} /\ Facts' = UNION {G(m) : m \in Nodes}
        BY DEF Facts, Whole
    <2>5. F(n) = F(Base[n]) /\ G(n) \subseteq F(Base[n]) /\ G(Base[n]) = F(Base[n])
        BY <2>1, <2>2, <2>3
    <2>6. \A m \in Nodes \ {n} : G(m) = F(m)
        BY <1>5
    <2> HIDE DEF F, G
    <2>7. \A t : (\E m \in Nodes : t \in F(m)) <=> (\E m \in Nodes : t \in G(m))
        BY <1>2, <2>5, <2>6
    <2> QED BY <2>4, <2>7
<1> QED BY <1>12, <1>14, <1>16, <1>17

-----------------------------------------------------------------------------
(***************************************************************************)
(* Geps that merging takes out of the graph.                               *)
(*                                                                         *)
(* In SSA form a gep is the one definition of the pointer it is named by.  *)
(***************************************************************************)
SingleDefs(p) ==
    \A g \in p.gep :
        /\ g.inst = g.dst
        /\ \A e \in p.copy \cup p.load : e[2] # g.dst
        /\ \A h \in p.gep : h.dst = g.dst => h = g
        /\ \A c \in p.calls : \A e \in c.params : e[2] # g.dst

\* The edge that stands for a gep of the program.
Stands(h, g) ==
    /\ h.src = rep[g.src] /\ h.dst = rep[g.dst]
    /\ h.kind = g.kind /\ h.off = g.off /\ h.inst = g.inst

\* The gep is still the only way into the pointer it defines.
FreeGep(g) ==
    /\ \A m \in Nodes : rep[m] = g.dst <=> m = g.dst
    /\ \A c \in cycles : g.dst \notin Block(c)
    /\ \A e \in copyE \cup newCopies \cup loadE : e[2] # g.dst
    /\ \E h \in gepE : Stands(h, g) /\ \A x \in gepE : x.dst = g.dst => x = h

\* A gep without an offset lies within these nodes, and g has its kind.
ZeroWithin(g, nodes) ==
    /\ g.kind = "normal"
    /\ \E p \in prog.gep : isZeroOffsettedGepCGEdge(p) /\ {rep[p.src], rep[p.dst]} \subseteq nodes

\* An edge with an offset between the ends of a gep, of its kind: it will be critical.
CriticalAhead(g) ==
    \E h \in gepE : /\ h.src = rep[g.src] /\ h.dst = rep[g.dst] /\ h.kind = g.kind
                   /\ ~isZeroOffsettedGepCGEdge(h)

\* The merge under way takes the gep in, and has or will have a critical edge for it.
Gathering(g, c) ==
    /\ c.scc /\ g.dst \in c.members /\ {rep[g.src], rep[g.dst]} \subseteq Block(c)
    /\ isZeroOffsettedGepCGEdge(g) \/ MergePWC
    /\ isZeroOffsettedGepCGEdge(g) \/ c.geps # {} \/ CriticalAhead(g) \/ ZeroWithin(g, Block(c))

\* It lies within a node, and is accounted for.
Gathered(g) ==
    /\ rep[g.src] = rep[g.dst]
    /\ \/ isZeroOffsettedGepCGEdge(g)
       \/ Monitored(g)
       \/ ~InvariantPWC /\ MergePWC /\ rep[g.src] \in pwcNodes
       \/ ZeroWithin(g, {rep[g.src]})

GepState(g) == FreeGep(g) \/ (\E c \in cycles : Gathering(g, c)) \/ Gathered(g)
GepsStand == \A h \in gepE : \E p \in prog.gep : Stands(h, p)
GepsTraced == GepsStand /\ \A g \in prog.gep : GepState(g)

(***************************************************************************)
(* At the start every gep of the program is its own edge.                  *)
(***************************************************************************)
LEMMA GepsInit ==
    ASSUME NEW first, IsProgram(prog), StartSolver(first), SingleDefs(prog)
    PROVE  GepsTraced
<1>1. \A g \in prog.gep : g \in GepEdges
    BY DEF IsProgram
<1>2. /\ rep = [n \in Nodes |-> n] /\ cycles = {} /\ newCopies = {}
      /\ gepE = prog.gep /\ copyE = prog.copy /\ loadE = prog.load
    BY DEF StartSolver
<1>3. ASSUME NEW g \in prog.gep PROVE Stands(g, g)
    BY <1>1, <1>2 DEF Stands, GepEdges
<1>4. ASSUME NEW g \in prog.gep PROVE FreeGep(g)
    BY <1>2, <1>3 DEF FreeGep, SingleDefs
<1> QED BY <1>2, <1>3, <1>4 DEF GepsTraced, GepsStand, GepState

(***************************************************************************)
(* What adds no way into a gep's pointer, and merges it with nothing,      *)
(* leaves the gep free.                                                    *)
(***************************************************************************)
LEMMA FreeFrame ==
    ASSUME NEW g, FreeGep(g), UNCHANGED <<gepE, rep, loadE>>,
           \A c \in cycles' : g.dst \notin Block(c),
           \A e \in copyE' \cup newCopies' : e[2] # g.dst
    PROVE  FreeGep(g)'
<1>1. \E h \in gepE' : Stands(h, g)' /\ \A x \in gepE' : x.dst = g.dst => x = h
    BY DEF FreeGep, Stands
<1> QED BY <1>1 DEF FreeGep, Block

(***************************************************************************)
(* Steps that leave the graph alone leave every gep where it is, if they   *)
(* leave the free ones free and end no merge that has gathered one.        *)
(***************************************************************************)
LEMMA GepsFrame ==
    ASSUME GepsTraced, UNCHANGED <<gepE, rep, prog>>,
           pwcNodes \subseteq pwcNodes', pwcInvariants \subseteq pwcInvariants',
           \A g \in prog.gep : FreeGep(g) => FreeGep(g)',
           \A g \in prog.gep : \A c \in cycles : Gathering(g, c) => c \in cycles' \/ Gathered(g)'
    PROVE  GepsTraced'
<1>1. GepsStand'
    BY DEF GepsTraced, GepsStand, Stands
<1>2. ASSUME NEW g \in prog.gep PROVE GepState(g)'
    <2>1. CASE FreeGep(g)
        BY <2>1 DEF GepState
    <2>2. CASE \E c \in cycles : Gathering(g, c)
        <3>1. PICK c \in cycles : Gathering(g, c)
            BY <2>2
        <3>2. CASE c \in cycles'
            <4>1. Gathering(g, c)'
                BY <3>1 DEF Gathering, CriticalAhead, ZeroWithin, Block, MergePWC
            <4> QED BY <3>2, <4>1 DEF GepState
        <3> QED BY <3>1, <3>2 DEF GepState
    <2>3. CASE Gathered(g)
        BY <2>3 DEF Gathered, GepState, Monitored, ZeroWithin, InvariantPWC, MergePWC
    <2> QED BY <2>1, <2>2, <2>3 DEF GepsTraced, GepState
<1> QED BY <1>1, <1>2 DEF GepsTraced

(***************************************************************************)
(* So do those that change neither the graph nor a merge.                  *)
(***************************************************************************)
LEMMA GepsStay ==
    ASSUME GepsTraced, UNCHANGED <<graphVars, newCopies, cycles, prog, pwcNodes, pwcInvariants>>
    PROVE  GepsTraced'
<1>1. \A g \in prog.gep : FreeGep(g) => FreeGep(g)'
    BY FreeFrame DEF FreeGep, graphVars
<1> QED BY <1>1, GepsFrame DEF graphVars

(***************************************************************************)
(* A component that takes a gep's pointer in takes in the gep too.         *)
(***************************************************************************)
LEMMA GepsFound ==
    ASSUME TypeOK, GepsTraced, SingleDefs(prog), EdgesAtReps, RepMaps,
           UNCHANGED <<graphVars, newCopies, prog, pwcNodes, pwcInvariants>>, cycles = {},
           NEW found, found \subseteq BigComponents,
           NEW root, \A c \in found : root[c] \in c,
           cycles' = {[rep |-> root[c], left |-> c \ {root[c]}, members |-> c,
                       geps |-> {}, scc |-> TRUE] : c \in found}
    PROVE  GepsTraced'
<1>1. GepsStand'
    BY DEF GepsTraced, GepsStand, Stands, graphVars
<1>2. ASSUME NEW g \in prog.gep, FreeGep(g) PROVE GepState(g)'
    <2>1. PICK h \in gepE : Stands(h, g) /\ \A x \in gepE : x.dst = g.dst => x = h
        BY <1>2 DEF FreeGep
    <2>2. g.dst \in Nodes /\ rep[g.dst] = g.dst /\ rep[g.src] \in Reps
        BY <1>2, ProgramTypes DEF TypeOK, FreeGep, RepMaps, GepEdges
    <2>3. CASE \E c \in found : g.dst \in c
        <3>1. PICK c \in found : g.dst \in c
            BY <2>3
        <3>2. PICK edges \in {DirectEdges(MergePWC)} : TRUE
            OBVIOUS
        <3>3. edges \in SUBSET Edges
            BY <3>2 DEF TypeOK, DirectEdges, GepEdges, Edges
        <3>4. \A e \in edges : e[2] = g.dst => e[1] = rep[g.src]
            BY <1>2, <2>1, <3>2 DEF DirectEdges, FreeGep, Stands
        <3>5. c \in Components(edges) /\ Cardinality(c) > 1
            BY <3>2 DEF BigComponents
        <3>6. rep[g.src] \in c /\ <<rep[g.src], g.dst>> \in edges
            BY <2>2, <3>1, <3>3, <3>4, <3>5, ComponentsClosed
        <3>7. PICK d \in cycles' : d = [rep |-> root[c], left |-> c \ {root[c]}, members |-> c,
                                        geps |-> {}, scc |-> TRUE]
            BY <3>1
        <3>8. d.scc /\ d.members = c /\ d.rep = root[c] /\ d.left = c \ {root[c]}
            BY <3>7
        <3>9. Block(d) = c
            BY <3>1, <3>8 DEF Block
        <3>10. isZeroOffsettedGepCGEdge(g) \/ CriticalAhead(g)
            BY <2>1 DEF CriticalAhead, Stands, isZeroOffsettedGepCGEdge
        <3>11. CriticalAhead(g) => CriticalAhead(g)'
            BY DEF CriticalAhead, graphVars
        <3>12. {rep'[g.src], rep'[g.dst]} \subseteq c
            BY <2>2, <3>1, <3>6 DEF graphVars
        <3>13. MergePWC /\ MergePWC' = MergePWC
            <4>1. edges # copyE
                BY <1>2, <3>6 DEF FreeGep
            <4> QED BY <3>2, <4>1 DEF DirectEdges, MergePWC
        <3>14. Gathering(g, d)'
            BY <3>1, <3>8, <3>9, <3>10, <3>11, <3>12, <3>13 DEF Gathering, Block
        <3> QED BY <3>7, <3>14 DEF GepState
    <2>4. CASE \A c \in found : g.dst \notin c
        <3>1. ASSUME NEW d \in cycles' PROVE g.dst \notin Block(d)
            <4>1. PICK c \in found : d = [rep |-> root[c], left |-> c \ {root[c]}, members |-> c,
                                          geps |-> {}, scc |-> TRUE]
                OBVIOUS
            <4>2. d.rep = root[c] /\ d.left = c \ {root[c]}
                BY <4>1
            <4> QED BY <2>4, <4>2 DEF Block
        <3> QED BY <1>2, <3>1, FreeFrame DEF FreeGep, GepState, graphVars
    <2> QED BY <2>3, <2>4
<1>3. ASSUME NEW g \in prog.gep, Gathered(g) PROVE GepState(g)'
    BY <1>3 DEF Gathered, GepState, Monitored, ZeroWithin, InvariantPWC, MergePWC, graphVars
<1>4. prog' = prog
    OBVIOUS
<1> QED BY <1>1, <1>2, <1>3, <1>4 DEF GepsTraced, GepState


(***************************************************************************)
(* Merging a node moves the edge that stands for a gep with its ends, or   *)
(* drops it inside the component, where it is critical, or for an edge of  *)
(* its kind between the same nodes.                                        *)
(***************************************************************************)
LEMMA GepsMoved ==
    ASSUME TypeOK, GepsStand, NEW node, NEW r, gepE' = MovedGeps(node, r), prog' = prog,
           \A m \in Nodes : rep'[m] = IF rep[m] = node THEN r ELSE rep[m]
    PROVE  GepsStand'
<1> SUFFICES ASSUME NEW k \in gepE' PROVE \E p \in prog.gep : Stands(k, p)'
    BY DEF GepsStand
<1>1. PICK h \in gepE : (k = h /\ ~Touches(h, node)) \/ k = RetargetGep(h, node, r)
    BY DEF MovedGeps
<1>2. PICK p \in prog.gep : Stands(h, p)
    BY DEF GepsStand
<1>3. h \in GepEdges /\ p \in GepEdges
    BY ProgramTypes DEF TypeOK
<1>4. /\ k.src = Retarget(h.src, node, r) /\ k.dst = Retarget(h.dst, node, r)
      /\ k.kind = h.kind /\ k.off = h.off /\ k.inst = h.inst
    BY <1>1, <1>3 DEF RetargetGep, GepEdges, Touches, Retarget
<1>5. rep'[p.src] = Retarget(rep[p.src], node, r) /\ rep'[p.dst] = Retarget(rep[p.dst], node, r)
    BY <1>3 DEF GepEdges, Retarget
<1> QED BY <1>2, <1>4, <1>5 DEF Stands

(***************************************************************************)
(* A gep that is free stays free: no merge is of the pointer it defines.   *)
(***************************************************************************)
LEMMA FreeMerge ==
    ASSUME TypeOK, RepInv, DoneSettled, NEW g \in prog.gep, FreeGep(g),
           NEW c \in cycles, NEW node \in c.left, mergeNode(c, node)
    PROVE  FreeGep(g)'
<1> DEFINE r == c.rep
           d == g.dst
<1>1. d # r /\ d # node /\ newCopies = {} /\ newCopies' = {}
    BY DEF FreeGep, Block, RepInv, DoneSettled, Settled, EdgesApart, mergeNode
<1>2. \A x : Retarget(x, node, r) = d => x = d
    BY <1>1 DEF Retarget
<1>3. \A m \in Nodes : rep'[m] = IF rep[m] = node THEN r ELSE rep[m]
    BY RepInvMerge
<1>4. \A m \in Nodes : rep'[m] = d <=> m = d
    BY <1>1, <1>3 DEF FreeGep
<1>5. \A b \in cycles' : d \notin Block(b)
    <2> DEFINE smaller == [c EXCEPT !.left = @ \ {node}, !.geps = @ \cup CriticalGeps(node, r)]
    <2>1. cycles' = (cycles \ {c}) \cup {smaller}
        BY DEF mergeNode
    <2>2. smaller.rep = r /\ smaller.left = c.left \ {node}
        BY DEF TypeOK, Cycles
    <2> HIDE DEF smaller
    <2> QED BY <2>1, <2>2 DEF FreeGep, Block
<1>6. \A e \in copyE' \cup loadE' : e[2] # d
    BY <1>2 DEF FreeGep, mergeNode, moveEdgesToRepNode, MovedCopies, RetargetEdge
<1>7. PICK h \in gepE : Stands(h, g) /\ \A x \in gepE : x.dst = d => x = h
    BY DEF FreeGep
<1>8. g \in GepEdges /\ gepE \subseteq GepEdges /\ h.dst = d
    BY <1>4, <1>7, ProgramTypes DEF TypeOK, Stands, FreeGep, GepEdges
<1>9. gepE' = MovedGeps(node, r) /\ prog' = prog
    BY DEF mergeNode, moveEdgesToRepNode
<1>10. \A x \in gepE : /\ RetargetGep(x, node, r).src = Retarget(x.src, node, r)
                       /\ RetargetGep(x, node, r).dst = Retarget(x.dst, node, r)
                       /\ RetargetGep(x, node, r).kind = x.kind
                       /\ RetargetGep(x, node, r).off = x.off
                       /\ RetargetGep(x, node, r).inst = x.inst
    BY <1>8 DEF RetargetGep, GepEdges
<1>11. \A k \in gepE' : k.dst = d => k = RetargetGep(h, node, r) \/ (k = h /\ ~Touches(h, node))
    BY <1>2, <1>7, <1>9, <1>10 DEF MovedGeps
<1>12. rep'[g.src] = Retarget(rep[g.src], node, r) /\ rep'[d] = d
    BY <1>3, <1>4, <1>8 DEF GepEdges, Retarget
<1>13. CASE ~Touches(h, node)
    <2>1. h \in gepE' /\ h = RetargetGep(h, node, r)
        BY <1>8, <1>9, <1>13 DEF MovedGeps, Touches, RetargetGep, Retarget, GepEdges
    <2>2. Stands(h, g)'
        BY <1>7, <1>8, <1>12, <1>13 DEF Stands, Touches, Retarget
    <2> QED BY <1>4, <1>5, <1>1, <1>6, <1>11, <2>1, <2>2 DEF FreeGep, Block
<1>14. CASE Touches(h, node)
    <2> DEFINE k == RetargetGep(h, node, r)
    <2>1. h \notin InsideScc(node, r)
        BY <1>1, <1>8 DEF InsideScc
    <2>2. \A x \in gepE : ~Touches(x, node) => ~SameKey(k, x)
        BY <1>1, <1>7, <1>8, <1>10, <1>14 DEF SameKey, Retarget
    <2>3. k \in gepE'
        BY <1>9, <1>14, <2>1, <2>2 DEF MovedGeps
    <2>4. k.dst = d /\ Stands(k, g)'
        BY <1>1, <1>7, <1>8, <1>10, <1>12 DEF Stands, Retarget
    <2>5. \A x \in gepE' : x.dst = d => x = k
        BY <1>11, <1>14
    <2> HIDE DEF k
    <2> QED BY <1>4, <1>5, <1>1, <1>6, <2>3, <2>4, <2>5 DEF FreeGep, Block
<1> QED BY <1>13, <1>14


(***************************************************************************)
(* A gep within the component being merged stays within it, and the edge   *)
(* that accounts for it is kept, moved, or found critical.                 *)
(***************************************************************************)
LEMMA GatheringMerge ==
    ASSUME TypeOK, RepInv, DoneSettled, GepsStand, NEW g \in prog.gep,
           NEW c \in cycles, NEW node \in c.left, mergeNode(c, node),
           NEW b \in cycles, Gathering(g, b)
    PROVE  \E d \in cycles' : Gathering(g, d)'
<1> DEFINE r == c.rep
<1>1. /\ \A m \in Nodes : rep'[m] = IF rep[m] = node THEN r ELSE rep[m]
      /\ MergesApart
    BY RepInvMerge DEF RepInv, DoneSettled, Settled
<1>2. gepE' = MovedGeps(node, r) /\ prog' = prog
    BY DEF mergeNode, moveEdgesToRepNode
<1>3. PICK smaller \in {[c EXCEPT !.left = @ \ {node}, !.geps = @ \cup CriticalGeps(node, r)]} :
          cycles' = (cycles \ {c}) \cup {smaller}
    BY DEF mergeNode
<1>4. /\ smaller.rep = r /\ smaller.left = c.left \ {node} /\ smaller.scc = c.scc
      /\ smaller.members = c.members /\ smaller.geps = c.geps \cup CriticalGeps(node, r)
    BY <1>3 DEF TypeOK, Cycles
<1>5. /\ g.src \in Nodes /\ g.dst \in Nodes /\ gepE \subseteq GepEdges
      /\ \A p \in prog.gep : p.src \in Nodes /\ p.dst \in Nodes
    BY ProgramTypes DEF TypeOK, GepEdges
<1>6. CASE b # c
    <2>1. node \notin Block(b) /\ b \in cycles'
        BY <1>1, <1>3, <1>6 DEF MergesApart, Block
    <2>2. ASSUME NEW m \in Nodes, rep[m] \in Block(b) PROVE rep'[m] = rep[m]
        BY <1>1, <2>1, <2>2
    <2>3. CriticalAhead(g) => CriticalAhead(g)'
        <3> SUFFICES ASSUME CriticalAhead(g) PROVE CriticalAhead(g)'
            OBVIOUS
        <3>1. PICK h \in gepE : /\ h.src = rep[g.src] /\ h.dst = rep[g.dst] /\ h.kind = g.kind
                                /\ ~isZeroOffsettedGepCGEdge(h)
            BY DEF CriticalAhead
        <3>2. rep'[g.src] = rep[g.src] /\ rep'[g.dst] = rep[g.dst] /\ ~Touches(h, node)
            BY <1>5, <2>1, <2>2, <3>1 DEF Gathering, Touches
        <3>3. h \in gepE'
            BY <1>2, <3>2 DEF MovedGeps
        <3> QED BY <3>1, <3>2, <3>3 DEF CriticalAhead
    <2>4. ZeroWithin(g, Block(b)) => ZeroWithin(g, Block(b))'
        BY <1>2, <1>5, <2>2 DEF ZeroWithin, Block
    <2>5. {rep'[g.src], rep'[g.dst]} \subseteq Block(b)
        BY <1>5, <2>2 DEF Gathering
    <2> QED BY <1>2, <2>1, <2>3, <2>4, <2>5 DEF Gathering, Block, MergePWC
<1>7. CASE b = c
    <2>1. Block(smaller) = Block(c) \ {node} /\ r \in Block(smaller)
        BY <1>1, <1>3, <1>4 DEF Block, MergesApart
    <2>2. ASSUME NEW m \in Nodes, rep[m] \in Block(c) PROVE rep'[m] \in Block(smaller)
        BY <1>1, <2>1, <2>2
    <2>3. ZeroWithin(g, Block(c)) => ZeroWithin(g, Block(smaller))'
        BY <1>2, <1>5, <2>2 DEF ZeroWithin, Block
    <2>4. {rep'[g.src], rep'[g.dst]} \subseteq Block(smaller)
        BY <1>5, <1>7, <2>2 DEF Gathering
    <2>5. CASE CriticalAhead(g)
        <3>1. PICK h \in gepE : /\ h.src = rep[g.src] /\ h.dst = rep[g.dst] /\ h.kind = g.kind
                                /\ ~isZeroOffsettedGepCGEdge(h)
            BY <2>5 DEF CriticalAhead
        <3> DEFINE k == RetargetGep(h, node, r)
        <3>2. /\ k.src = rep'[g.src] /\ k.dst = rep'[g.dst] /\ k.kind = g.kind
              /\ ~isZeroOffsettedGepCGEdge(k)
            BY <1>1, <1>5, <3>1 DEF RetargetGep, GepEdges, Retarget, isZeroOffsettedGepCGEdge
        <3>3. CASE h \in InsideScc(node, r)
            <4>1. smaller.geps # {}
                BY <1>3, <1>4, <3>1, <3>3 DEF CriticalGeps
            <4> QED BY <1>2, <1>3, <1>4, <1>7, <2>4, <4>1 DEF Gathering, Block, MergePWC
        <3>4. CASE ~Touches(h, node)
            <4>1. h \in gepE' /\ h.src = rep'[g.src] /\ h.dst = rep'[g.dst]
                BY <1>1, <1>2, <1>5, <3>1, <3>4 DEF MovedGeps, Touches
            <4>2. CriticalAhead(g)'
                BY <3>1, <4>1 DEF CriticalAhead
            <4> QED BY <1>2, <1>3, <1>4, <1>7, <2>4, <4>2 DEF Gathering, Block, MergePWC
        <3>5. CASE Touches(h, node) /\ h \notin InsideScc(node, r) /\ k \in gepE'
            <4>1. CriticalAhead(g)'
                BY <3>2, <3>5 DEF CriticalAhead
            <4> QED BY <1>2, <1>3, <1>4, <1>7, <2>4, <4>1 DEF Gathering, Block, MergePWC
        <3>6. CASE Touches(h, node) /\ h \notin InsideScc(node, r) /\ k \notin gepE'
            <4>1. PICK x \in gepE : ~Touches(x, node) /\ SameKey(k, x)
                BY <1>2, <3>6 DEF MovedGeps
            <4>2. x \in gepE' /\ x.src = rep'[g.src] /\ x.dst = rep'[g.dst] /\ x.kind = g.kind
                BY <1>2, <3>2, <4>1 DEF MovedGeps, SameKey
            <4>3. CASE ~isZeroOffsettedGepCGEdge(x)
                <5>1. CriticalAhead(g)'
                    BY <4>2, <4>3 DEF CriticalAhead
                <5> QED BY <1>2, <1>3, <1>4, <1>7, <2>4, <5>1 DEF Gathering, Block, MergePWC
            <4>4. CASE isZeroOffsettedGepCGEdge(x)
                <5>1. GepsStand'
                    BY <1>1, <1>2, GepsMoved
                <5>2. PICK p \in prog.gep : Stands(x, p)'
                    BY <1>2, <4>2, <5>1 DEF GepsStand
                <5>3. isZeroOffsettedGepCGEdge(p) /\ {rep'[p.src], rep'[p.dst]} \subseteq Block(smaller)
                    BY <2>4, <4>2, <4>4, <5>2 DEF Stands, isZeroOffsettedGepCGEdge
                <5>4. g.kind = "normal"
                    BY <4>2, <4>4 DEF isZeroOffsettedGepCGEdge
                <5>5. ZeroWithin(g, Block(smaller))'
                    BY <1>2, <5>3, <5>4 DEF ZeroWithin, Block
                <5> QED BY <1>2, <1>3, <1>4, <1>7, <2>4, <5>5 DEF Gathering, Block, MergePWC
            <4> QED BY <4>3, <4>4
        <3> QED BY <3>3, <3>4, <3>5, <3>6
    <2>6. CASE isZeroOffsettedGepCGEdge(g) \/ c.geps # {} \/ ZeroWithin(g, Block(c))
        <3>1. isZeroOffsettedGepCGEdge(g) \/ smaller.geps # {} \/ ZeroWithin(g, Block(smaller))'
            BY <1>3, <1>4, <2>3, <2>6
        <3> QED BY <1>2, <1>3, <1>4, <1>7, <2>4, <3>1 DEF Gathering, Block, MergePWC
    <2> QED BY <1>7, <2>5, <2>6 DEF Gathering
<1> QED BY <1>6, <1>7

(***************************************************************************)
(* Merging a node traces the geps on.                                      *)
(***************************************************************************)
LEMMA GepsMerge ==
    ASSUME TypeOK, RepInv, DoneSettled, GepsTraced,
           NEW c \in cycles, NEW node \in c.left, mergeNode(c, node)
    PROVE  GepsTraced'
<1>1. /\ \A m \in Nodes : rep'[m] = IF rep[m] = node THEN c.rep ELSE rep[m]
      /\ gepE' = MovedGeps(node, c.rep) /\ prog' = prog
    BY RepInvMerge DEF mergeNode, moveEdgesToRepNode
<1>2. GepsStand'
    BY <1>1, GepsMoved DEF GepsTraced
<1>3. ASSUME NEW g \in prog.gep PROVE GepState(g)'
    <2>1. CASE FreeGep(g)
        BY <2>1, FreeMerge DEF GepState
    <2>2. CASE \E b \in cycles : Gathering(g, b)
        BY <2>2, GatheringMerge DEF GepsTraced, GepState
    <2>3. CASE Gathered(g)
        <3>1. /\ rep'[g.src] = rep'[g.dst]
              /\ rep'[g.src] = IF rep[g.src] = node THEN c.rep ELSE rep[g.src]
              /\ \A p \in prog.gep : /\ rep'[p.src] = IF rep[p.src] = node THEN c.rep ELSE rep[p.src]
                                     /\ rep'[p.dst] = IF rep[p.dst] = node THEN c.rep ELSE rep[p.dst]
            BY <1>1, <2>3, ProgramTypes DEF TypeOK, GepEdges, Gathered
        <3>2. ZeroWithin(g, {rep[g.src]}) => ZeroWithin(g, {rep[g.src]})'
            BY <1>1, <3>1 DEF ZeroWithin
        <3>3. ~InvariantPWC /\ MergePWC /\ rep[g.src] \in pwcNodes
                  => ~InvariantPWC' /\ MergePWC' /\ rep'[g.src] \in pwcNodes'
            BY <1>1, <3>1 DEF mergeNode, InvariantPWC, MergePWC
        <3>4. Monitored(g) => Monitored(g)'
            BY DEF mergeNode, Monitored, invariantVars
        <3> QED BY <2>3, <3>1, <3>2, <3>3, <3>4 DEF Gathered, GepState
    <2> QED BY <2>1, <2>2, <2>3 DEF GepsTraced, GepState
<1> QED BY <1>1, <1>2, <1>3 DEF GepsTraced


(***************************************************************************)
(* When a component is merged, the geps in it are recorded with the cycle  *)
(* or run inside a node whose objects will be collapsed.                   *)
(***************************************************************************)
LEMMA GepsFinish ==
    ASSUME TypeOK, GepsTraced, SingleDefs(prog), NoSelfGeps,
           NEW c \in cycles, finishScc(c) \/ finishCollapse(c)
    PROVE  GepsTraced'
<1>1. /\ UNCHANGED <<graphVars, newCopies, prog>> /\ cycles' = cycles \ {c} /\ c.left = {}
      /\ pwcNodes \subseteq pwcNodes' /\ pwcInvariants \subseteq pwcInvariants'
    BY DEF finishScc, finishCollapse, invariantVars
<1>2. ASSUME NEW g \in prog.gep, Gathering(g, c) PROVE Gathered(g)'
    <2>1. finishScc(c)
        BY <1>2 DEF Gathering, finishCollapse
    <2>2. rep[g.src] = c.rep /\ rep[g.dst] = c.rep /\ Block(c) = {c.rep}
        BY <1>1, <1>2 DEF Gathering, Block
    <2>3. ~CriticalAhead(g)
        BY <2>2 DEF CriticalAhead, NoSelfGeps
    <2>4. ASSUME c.geps # {}, InvariantPWC PROVE Monitored(g)'
        <3>1. GepsOf(c.members) \in pwcInvariants'
            BY <2>1, <2>4 DEF finishScc
        <3>2. g.dst \in GepsOf(c.members) /\ g.inst = g.dst
            BY <1>2 DEF Gathering, GepsOf, SingleDefs
        <3> QED BY <3>1, <3>2 DEF Monitored
    <2>8. MergePWC' = MergePWC
        BY <1>1 DEF MergePWC
    <2>5. ASSUME c.geps # {}, ~InvariantPWC PROVE ~InvariantPWC' /\ rep'[g.src] \in pwcNodes'
        BY <1>1, <2>1, <2>2, <2>5 DEF finishScc, InvariantPWC, graphVars
    <2>6. ZeroWithin(g, Block(c)) => ZeroWithin(g, {rep[g.src]})'
        BY <1>1, <2>2 DEF ZeroWithin, graphVars
    <2>7. rep'[g.src] = rep'[g.dst]
        BY <1>1, <2>2 DEF graphVars
    <2> QED BY <1>2, <2>3, <2>4, <2>5, <2>6, <2>7, <2>8 DEF Gathering, Gathered
<1>3. \A g \in prog.gep : \A d \in cycles : Gathering(g, d) => d \in cycles' \/ Gathered(g)'
    BY <1>1, <1>2
<1>4. \A g \in prog.gep : FreeGep(g) => FreeGep(g)'
    BY <1>1, FreeFrame DEF FreeGep, graphVars
<1> QED BY <1>1, <1>3, <1>4, GepsFrame DEF graphVars

(***************************************************************************)
(* Collapsing an object merges fields, not pointers.                       *)
(***************************************************************************)
LEMMA GepsCollapse ==
    ASSUME TypeOK, GepsTraced, NEW b \in toCollapse, collapseField(b)
    PROVE  GepsTraced'
<1>1. /\ UNCHANGED <<graphVars, newCopies, prog, pwcNodes, pwcInvariants>> /\ cycles = {}
      /\ cycles' = {[rep |-> rep[b], left |-> {rep[f] : f \in AllFieldsObjNode(b)} \ {rep[b]},
                     members |-> {}, geps |-> {}, scc |-> FALSE]}
    BY DEF collapseField, invariantVars
<1>2. b \in ObjNodes /\ AllFieldsObjNode(b) \subseteq ObjNodes /\ ObjNodes \subseteq Nodes
    BY GraphAssumption DEF TypeOK, AllFieldsObjNode
<1>3. ASSUME NEW g \in prog.gep, FreeGep(g) PROVE FreeGep(g)'
    <2>1. g.dst \notin ObjNodes
        BY DEF TypeOK, IsProgram, Pointers
    <2>2. rep[b] # g.dst /\ \A f \in AllFieldsObjNode(b) : rep[f] # g.dst
        BY <1>2, <1>3, <2>1 DEF FreeGep
    <2>3. \A c \in cycles' : g.dst \notin Block(c)
        BY <1>1, <2>2 DEF Block
    <2> QED BY <1>1, <1>3, <2>3, FreeFrame DEF FreeGep, graphVars
<1> QED BY <1>1, <1>3, GepsFrame DEF graphVars

(***************************************************************************)
(* Loads and stores ask for no edge into the pointer of a gep.             *)
(***************************************************************************)
LEMMA GepsAsk ==
    ASSUME TypeOK, GepsTraced, NEW n \in Nodes,
           UNCHANGED <<graphVars, cycles, prog, pwcNodes, pwcInvariants>>,
           newCopies' = NewEdges(LoadCopies(n) \cup StoreCopies(n))
    PROVE  GepsTraced'
<1>1. LoadCopies(n) \cup StoreCopies(n) \in SUBSET Edges
    BY GraphAssumption DEF TypeOK, PTS, LoadCopies, StoreCopies, Edges
<1>2. ASSUME NEW g \in prog.gep, FreeGep(g) PROVE FreeGep(g)'
    <2>1. g.dst \notin ObjNodes
        BY DEF TypeOK, IsProgram, Pointers
    <2>2. \A x \in LoadCopies(n) \cup StoreCopies(n) : x[2] # g.dst
        BY <1>2, <2>1 DEF LoadCopies, StoreCopies, FreeGep, TypeOK, PTS
    <2>3. \A e \in newCopies' : e[2] # g.dst
        BY <1>1, <1>2, <2>2 DEF NewEdges, FreeGep, Edges
    <2> QED BY <1>2, <2>3, FreeFrame DEF FreeGep, graphVars
<1> QED BY <1>2, GepsFrame DEF graphVars

(***************************************************************************)
(* Inserting a copy edge that was asked for changes nothing for them.      *)
(***************************************************************************)
LEMMA GepsAddEdge ==
    ASSUME GepsTraced, NEW e \in newCopies, insertCopy(e)
    PROVE  GepsTraced'
<1>1. /\ copyE' \cup newCopies' \subseteq copyE \cup newCopies
      /\ UNCHANGED <<gepE, loadE, rep, cycles, prog, pwcNodes, pwcInvariants>>
    BY DEF insertCopy, invariantVars
<1>2. \A g \in prog.gep : FreeGep(g) => FreeGep(g)'
    BY <1>1, FreeFrame DEF FreeGep
<1> QED BY <1>1, <1>2, GepsFrame

(***************************************************************************)
(* Nor does a resolved call, whose parameters no gep defines.              *)
(***************************************************************************)
LEMMA GepsCall ==
    ASSUME TypeOK, GepsTraced, SingleDefs(prog), NEW c \in prog.calls, resolveIndCall(c)
    PROVE  GepsTraced'
<1>1. /\ UNCHANGED <<graphVars, cycles, prog, pwcNodes, pwcInvariants>> /\ newCopies = {}
      /\ newCopies' = {} \/ newCopies' = NewEdges(c.params)
    BY DEF resolveIndCall, Settled, invariantVars
<1>2. c.params \subseteq Edges
    BY ProgramTypes DEF TypeOK
<1>3. ASSUME NEW g \in prog.gep, FreeGep(g) PROVE FreeGep(g)'
    <2>1. \A e \in newCopies' : e[2] # g.dst
        BY <1>1, <1>2, <1>3 DEF NewEdges, FreeGep, Edges, SingleDefs
    <2> QED BY <1>1, <1>3, <2>1, FreeFrame DEF FreeGep, graphVars
<1> QED BY <1>1, <1>3, GepsFrame DEF graphVars

(***************************************************************************)
(* The steps of both loops that keep the geps traced.  Finalisation takes  *)
(* no node apart while no object has been collapsed.                       *)
(***************************************************************************)
LEMMA GepsCommon ==
    ASSUME TypeOK, DoneSettled, RedundantKnown, Solving \/ fieldInsensitive = {},
           Solving => NoSelfGeps, GepsTraced, SingleDefs(prog), NEW first, Common(first)
    PROVE  GepsTraced'
<1>1. ASSUME NEW c \in cycles, finishScc(c) \/ finishCollapse(c) PROVE GepsTraced'
    BY <1>1, GepsFinish DEF DoneSettled, Settled
<1>2. ASSUME NEW b \in toCollapse, collapseField(b) PROVE GepsTraced'
    BY <1>2, GepsCollapse
<1>3. ASSUME NEW c \in prog.calls, resolveIndCall(c) PROVE GepsTraced'
    BY <1>3, GepsCall
<1>4. ASSUME NEW n \in redundantGepNodes, removeGepNode(n) PROVE GepsTraced'
    BY <1>4 DEF removeGepNode, Solving, RedundantKnown
<1>5. CASE endIteration(first) \/ finish \/ Terminated
    <2>1. UNCHANGED <<graphVars, newCopies, cycles, prog, pwcNodes, pwcInvariants>>
        BY <1>5 DEF endIteration, finish, Terminated, vars, invariantVars
    <2> QED BY <2>1, GepsStay
<1> QED BY <1>1, <1>2, <1>3, <1>4, <1>5 DEF Common

(***************************************************************************)
(* The invariant: until finalisation takes collapsed objects apart, every  *)
(* gep is free, being gathered, or gathered.                               *)
(***************************************************************************)
GepInv == SingleDefs(prog) /\ (Solving \/ fieldInsensitive = {}) => GepsTraced

\* A gep with an offset was merged into one node with a gep that adds none.
Swallowed(g) ==
    /\ rep[g.src] = rep[g.dst]
    /\ ~isZeroOffsettedGepCGEdge(g) /\ ZeroWithin(g, {rep[g.src]})

(***************************************************************************)
(* Between merges every gep that was not swallowed is accounted for.       *)
(***************************************************************************)
LEMMA TracedGeps ==
    ASSUME TypeOK, GepsTraced, cycles = {}, NEW g \in prog.gep, ~Swallowed(g)
    PROVE  /\ \/ isZeroOffsettedGepCGEdge(g)
              \/ \E h \in gepE : h.inst = g.inst /\ h.off = g.off
              \/ Monitored(g)
              \/ rep[g.src] = rep[g.dst] /\ rep[g.src] \in pwcNodes
           /\ \/ Monitored(g) \/ InGraph(g)
              \/ ~InvariantPWC /\ MergePWC /\ rep[g.src] = rep[g.dst] /\ rep[g.src] \in pwcNodes
<1>1. CASE FreeGep(g)
    <2>1. PICK h \in gepE : Stands(h, g)
        BY <1>1 DEF FreeGep
    <2>2. h \in GepEdges /\ g \in GepEdges
        BY ProgramTypes DEF TypeOK
    <2>3. h = [g EXCEPT !.src = rep[g.src], !.dst = rep[g.dst]]
        BY <2>1, <2>2 DEF Stands, GepEdges
    <2> QED BY <2>1, <2>3 DEF Stands, InGraph
<1>2. CASE Gathered(g)
    BY <1>2 DEF Gathered, Swallowed, InGraph
<1> QED BY <1>1, <1>2 DEF GepsTraced, GepState

(***************************************************************************)
(* In these words, the property the runs check.                            *)
(***************************************************************************)
LEMMA TracedLost ==
    ASSUME TypeOK, SingleDefs(prog), GepInv, \A g \in prog.gep : ~Swallowed(g)
    PROVE  LostGepsAccounted
BY TracedGeps DEF GepInv, LostGepsAccounted, isZeroOffsettedGepCGEdge, Monitored


(***************************************************************************)
(* Where the graph's constraints hold and the cycles are monitored, those  *)
(* of the program hold.                                                    *)
(***************************************************************************)
LEMMA TracedDirect ==
    ASSUME TypeOK, SingleDefs(prog), GepInv, \A g \in prog.gep : ~Swallowed(g),
           InvariantPWC, fieldInsensitive = {}, cycles = {}, GraphConstraintsHold
    PROVE  DirectConstraintsHold
<1>1. \A g \in prog.gep : Monitored(g) \/ InGraph(g)
    BY TracedGeps DEF GepInv
<1> QED BY <1>1 DEF DirectConstraintsHold, GraphConstraintsHold

(***************************************************************************)
(* Within a node all of whose objects have been collapsed a gep asks for   *)
(* nothing: whatever it adds to an object gives the object.                *)
(***************************************************************************)
LEMMA CollapsedGepHolds ==
    ASSUME TypeOK, FieldsGone, toCollapse = {}, NEW g \in prog.gep,
           rep[g.src] = rep[g.dst], ToCollapse(g.src) = {}, ~InvariantVGEP
    PROVE  GepHolds(g)
<1>1. g.src \in Nodes /\ rep[g.src] \in Nodes
    BY ProgramTypes DEF TypeOK, GepEdges
<1>2. \A o \in getPts(g.src) : o \notin OpaqueObjs => Base[o] \in fieldInsensitive /\ Base[o] = o
    BY <1>1 DEF ToCollapse, FieldsGone, getPts, sccRepNode
<1>3. GepTargets(g, getPts(g.src), fieldInsensitive) \subseteq getPts(g.src)
    <2> SUFFICES ASSUME NEW o \in getPts(g.src) \ OpaqueObjs,
                        NEW t, t = GepObjNode(o, g.off, fieldInsensitive) \/ t = Base[o]
                 PROVE  t = o
        BY DEF GepTargets, VariantTargets
    <2> QED BY <1>2 DEF GepObjNode
<1> QED BY <1>3 DEF GepHolds, HasAll, Covers, ExcludedByInvariant, getPts, sccRepNode

\* What the geps of the program are proved for.
GepsTraceable ==
    /\ SingleDefs(prog) /\ \A g \in prog.gep : ~Swallowed(g)
    /\ InvariantPWC \/ ~InvariantVGEP

GepsHold == GepsTraceable => \A g \in prog.gep : Monitored(g) \/ GepHolds(g)

(***************************************************************************)
(* When nothing is left to collapse in a positive weight cycle, every gep  *)
(* is monitored or satisfied, in the graph or not.                         *)
(***************************************************************************)
LEMMA TracedGepsHold ==
    ASSUME TypeOK, RepMaps, GepInv, FieldsGone, Solving, cycles = {}, toCollapse = {},
           GraphConstraintsHold, MergePWC => \A n \in Reps \cap pwcNodes : ToCollapse(n) = {}
    PROVE  GepsHold
<1> SUFFICES ASSUME GepsTraceable, NEW g \in prog.gep, ~Monitored(g) PROVE GepHolds(g)
    BY DEF GepsHold
<1>1. \/ InGraph(g)
      \/ ~InvariantPWC /\ MergePWC /\ rep[g.src] = rep[g.dst] /\ rep[g.src] \in pwcNodes
    BY TracedGeps DEF GepInv, GepsTraceable
<1>2. CASE InGraph(g)
    BY <1>2 DEF GraphConstraintsHold
<1>3. CASE ~InvariantPWC /\ MergePWC /\ rep[g.src] = rep[g.dst] /\ rep[g.src] \in pwcNodes
    <2>1. g.src \in Nodes /\ rep[g.src] \in Reps
        BY ProgramTypes DEF TypeOK, GepEdges, RepMaps
    <2>2. ToCollapse(rep[g.src]) = {}
        BY <1>3, <2>1
    <2>3. ToCollapse(g.src) = {}
        BY <2>1, <2>2 DEF ToCollapse, getPts, sccRepNode, Reps
    <2> QED BY <1>3, <2>3, CollapsedGepHolds DEF GepsTraceable
<1> QED BY <1>1, <1>2, <1>3

(***************************************************************************)
(* They stay so while the representatives of pointers do.                  *)
(***************************************************************************)
LEMMA GepsHoldFrame ==
    ASSUME TypeOK, GepsHold, UNCHANGED <<prog, pts, fieldInsensitive, varGepPtd, pwcInvariants>>,
           \A m \in Pointers : rep'[m] = rep[m]
    PROVE  GepsHold'
<1>1. \A g \in prog.gep : g.src \in Pointers /\ g.dst \in Pointers
    BY DEF TypeOK, IsProgram
<1>2. \A g \in prog.gep : Swallowed(g) => Swallowed(g)'
    BY <1>1 DEF Swallowed, ZeroWithin
<1>3. GepsTraceable' => GepsTraceable
    BY <1>2 DEF GepsTraceable, InvariantPWC, InvariantVGEP
<1>4. \A g \in prog.gep : /\ Monitored(g) => Monitored(g)'
                          /\ GepHolds(g) => GepHolds(g)'
    BY <1>1 DEF Monitored, GepHolds, HasAll, Covers, GepTargets, VariantTargets, GepObjNode,
        ExcludedByInvariant, InvariantVGEP, getPts, sccRepNode
<1> QED BY <1>3, <1>4 DEF GepsHold

(***************************************************************************)
(* Finalisation leaves the pointers alone, while fields stand alone.       *)
(***************************************************************************)
LEMMA GepsHoldRemoval ==
    ASSUME TypeOK, GepsHold, FieldsStandAlone, NEW n \in redundantGepNodes, removeGepNode(n)
    PROVE  GepsHold'
<1>1. /\ UNCHANGED <<prog, pts, fieldInsensitive, varGepPtd, pwcInvariants>>
      /\ cleanConsCG(n) /\ subs[n] = {}
    BY DEF removeGepNode, FieldsStandAlone, ptsVars, invariantVars
<1>2. \A m \in Nodes : m # n => rep'[m] = rep[m]
    <2>1. SubsAfterRepReset(n)[n] = {}
        BY <1>1, GraphAssumption DEF SubsAfterRepReset, TypeOK
    <2> QED BY <1>1, <2>1 DEF cleanConsCG
<1>3. \A m \in Pointers : m \in Nodes /\ m # n
    BY DEF Pointers, TypeOK
<1> QED BY <1>1, <1>2, <1>3, GepsHoldFrame

=============================================================================
