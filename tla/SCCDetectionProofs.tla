-------------------------- MODULE SCCDetectionProofs --------------------------
(***************************************************************************)
(* Nuutila's search, for every finite graph, order of nodes and children,  *)
(* choice of roots and number of searches by one detector: it finds the    *)
(* components, puts their representatives in topological order, and never  *)
(* touches a component that it has closed.                                 *)
(***************************************************************************)
EXTENDS SCCDetection, FiniteSetTheorems, NaturalsInduction, WellFoundedInduction, TLAPS

-----------------------------------------------------------------------------
(* What is reachable.                                                      *)

Onwards(reached) == reached \cup {e[2] : e \in {x \in graph : x[1] \in reached}}

\* f lists what is reached from n in 0, 1, ..., last steps.
IsSearch(f, n, last) ==
    /\ f \in [0..last -> SUBSET Nodes]
    /\ f[0] = {n}
    /\ \A k \in 1..last : f[k] = Onwards(f[k - 1])

\* reached is the least set with n that the edges do not leave.
LeastClosed(n, reached) ==
    /\ n \in reached /\ reached \subseteq Nodes
    /\ \A e \in graph : e[1] \in reached => e[2] \in reached
    /\ \A bound : n \in bound /\ (\A e \in graph : e[1] \in bound => e[2] \in bound)
                      => reached \subseteq bound

GraphOK == graph \subseteq Nodes \X Nodes

(***************************************************************************)
(* A set of natural numbers with 0 and all successors has all of them.     *)
(***************************************************************************)
LEMMA SetInduction ==
    ASSUME NEW s, 0 \in s, \A k \in Nat : k \in s => k + 1 \in s
    PROVE  Nat \subseteq s
<1> DEFINE rest == Nat \ s
<1> SUFFICES ASSUME rest # {} PROVE FALSE
    OBVIOUS
<1>1. PICK k \in rest : \A y \in rest : ~(<<y, k>> \in OpToRel(<, Nat))
    BY NatLessThanWellFounded, WFMin
<1>2. \A y \in rest : ~(y < k)
    BY <1>1 DEF OpToRel
<1>3. k # 0 /\ k - 1 \in Nat
    OBVIOUS
<1>4. k - 1 \in s
    BY <1>2, <1>3
<1> QED BY <1>3, <1>4

(***************************************************************************)
(* A search may take any number of steps.                                  *)
(***************************************************************************)
LEMMA SearchExists ==
    ASSUME GraphOK, NEW n \in Nodes, NEW last \in Nat
    PROVE  \E f : IsSearch(f, n, last)
<1>0. \A r \in SUBSET Nodes : Onwards(r) \in SUBSET Nodes
    BY DEF GraphOK, Onwards
<1> DEFINE good == {k \in Nat : \E f : IsSearch(f, n, k)}
<1>1. 0 \in good
    <2> DEFINE f == [k \in 0..0 |-> {n}]
    <2>1. IsSearch(f, n, 0)
        BY DEF IsSearch
    <2> QED BY <2>1
<1>2. ASSUME NEW k \in Nat, k \in good PROVE k + 1 \in good
    <2>1. PICK f : IsSearch(f, n, k)
        BY <1>2
    <2>2. f[k] \in SUBSET Nodes
        BY <2>1 DEF IsSearch
    <2> DEFINE h == [i \in 0..(k + 1) |-> IF i = k + 1 THEN Onwards(f[k]) ELSE f[i]]
    <2>3. h \in [0..(k + 1) -> SUBSET Nodes]
        <3>1. ASSUME NEW i \in 0..(k + 1)
              PROVE  (IF i = k + 1 THEN Onwards(f[k]) ELSE f[i]) \in SUBSET Nodes
            <4>1. i # k + 1 => i \in 0..k
                OBVIOUS
            <4> QED BY <1>0, <2>1, <2>2, <4>1 DEF IsSearch
        <3> QED BY <3>1
    <2>4. h[0] = {n}
        BY <2>1 DEF IsSearch
    <2>5. ASSUME NEW i \in 1..(k + 1) PROVE h[i] = Onwards(h[i - 1])
        <3>1. CASE i = k + 1
            BY <3>1
        <3>2. CASE i # k + 1
            <4>1. i \in 1..k /\ h[i] = f[i] /\ h[i - 1] = f[i - 1]
                BY <3>2
            <4> QED BY <2>1, <4>1 DEF IsSearch
        <3> QED BY <3>1, <3>2
    <2>6. IsSearch(h, n, k + 1)
        BY <2>3, <2>4, <2>5 DEF IsSearch
    <2> QED BY <2>6
<1> HIDE DEF good
<1>3. last \in good
    BY <1>1, <1>2, SetInduction
<1> QED BY <1>3 DEF good

(***************************************************************************)
(* A search of as many steps as there are nodes ends with the least set    *)
(* that the edges do not leave.                                            *)
(***************************************************************************)
LEMMA SearchCloses ==
    ASSUME GraphOK, NEW n \in Nodes, NEW last \in Nat, last = Cardinality(Nodes),
           NEW f, IsSearch(f, n, last)
    PROVE  LeastClosed(n, f[last])
<1>0. /\ \A r \in SUBSET Nodes : r \subseteq Onwards(r) /\ Onwards(r) \in SUBSET Nodes
      /\ \A r, s \in SUBSET Nodes : r \subseteq s => Onwards(r) \subseteq Onwards(s)
    BY DEF GraphOK, Onwards
<1>1. ASSUME NEW k \in 0..last
      PROVE  /\ f[k] \in SUBSET Nodes /\ IsFiniteSet(f[k])
             /\ Cardinality(f[k]) \in Nat /\ Cardinality(f[k]) <= last
    <2>1. f[k] \in SUBSET Nodes
        BY DEF IsSearch
    <2> QED BY <2>1, SCCAssumption, FS_Subset, FS_CardinalityType
<1>2. \A k \in Nat : k + 1 <= last =>
          k \in 0..last /\ k + 1 \in 0..last /\ f[k + 1] = Onwards(f[k])
    <2> SUFFICES ASSUME NEW k \in Nat, k + 1 <= last
                 PROVE  k \in 0..last /\ k + 1 \in 0..last /\ f[k + 1] = Onwards(f[k])
        OBVIOUS
    <2>1. k \in 0..last /\ k + 1 \in 0..last /\ k + 1 \in 1..last /\ (k + 1) - 1 = k
        OBVIOUS
    <2> QED BY <2>1 DEF IsSearch
<1> DEFINE good == {k \in Nat : k <= last =>
                        n \in f[k] /\ (Onwards(f[k]) = f[k] \/ Cardinality(f[k]) >= k)}
<1>3. 0 \in good
    <2>1. 0 \in 0..last /\ f[0] = {n}
        BY DEF IsSearch
    <2> QED BY <1>1, <2>1
<1>4. ASSUME NEW k \in Nat, k \in good PROVE k + 1 \in good
    <2> SUFFICES ASSUME k + 1 <= last
                 PROVE  /\ n \in f[k + 1]
                        /\ Onwards(f[k + 1]) = f[k + 1] \/ Cardinality(f[k + 1]) >= k + 1
        OBVIOUS
    <2>1. k \in 0..last /\ k + 1 \in 0..last /\ f[k + 1] = Onwards(f[k]) /\ n \in f[k]
        BY <1>2, <1>4
    <2>2. CASE Onwards(f[k]) = f[k]
        BY <2>1, <2>2
    <2>3. CASE Onwards(f[k]) # f[k]
        <3>1. Cardinality(f[k]) >= k
            BY <1>4, <2>1, <2>3
        <3>2. f[k] \in SUBSET f[k + 1] /\ f[k] # f[k + 1]
            BY <1>0, <1>1, <2>1, <2>3
        <3>3. /\ IsFiniteSet(f[k + 1]) /\ Cardinality(f[k + 1]) \in Nat
              /\ Cardinality(f[k]) \in Nat
            BY <1>1, <2>1
        <3>4. Cardinality(f[k]) <= Cardinality(f[k + 1]) /\ Cardinality(f[k]) # Cardinality(f[k + 1])
            BY <3>2, <3>3, FS_Subset
        <3>5. Cardinality(f[k + 1]) >= k + 1
            BY <3>1, <3>3, <3>4
        <3> QED BY <2>1, <3>2, <3>5
    <2> QED BY <2>2, <2>3
<1> HIDE DEF good
<1>5. last \in good /\ last \in 0..last
    BY <1>3, <1>4, SetInduction
<1>6. Onwards(f[last]) = f[last]
    <2> SUFFICES ASSUME Onwards(f[last]) # f[last] PROVE FALSE
        OBVIOUS
    <2>1. Cardinality(f[last]) >= last
        BY <1>5 DEF good
    <2>2. f[last] \in SUBSET Nodes /\ Cardinality(f[last]) = Cardinality(Nodes)
        BY <1>1, <1>5, <2>1
    <2>3. f[last] = Nodes
        BY <2>2, SCCAssumption, FS_Subset
    <2> QED BY <1>0, <2>3
<1>7. ASSUME NEW bound, n \in bound, \A e \in graph : e[1] \in bound => e[2] \in bound
      PROVE  f[last] \subseteq bound
    <2> DEFINE inside == {k \in Nat : k <= last => f[k] \subseteq bound}
    <2>1. 0 \in inside
        BY <1>7 DEF IsSearch
    <2>2. ASSUME NEW k \in Nat, k \in inside PROVE k + 1 \in inside
        <3> SUFFICES ASSUME k + 1 <= last PROVE f[k + 1] \subseteq bound
            OBVIOUS
        <3>1. f[k + 1] = Onwards(f[k]) /\ f[k] \subseteq bound
            BY <1>2, <2>2
        <3> QED BY <1>7, <3>1 DEF Onwards
    <2> HIDE DEF inside
    <2>3. last \in inside
        BY <2>1, <2>2, SetInduction
    <2> QED BY <2>3 DEF inside
<1>8. n \in f[last] /\ f[last] \subseteq Nodes
    BY <1>1, <1>5 DEF good
<1>9. \A e \in graph : e[1] \in f[last] => e[2] \in f[last]
    BY <1>6 DEF Onwards
<1> QED BY <1>7, <1>8, <1>9 DEF LeastClosed

(***************************************************************************)
(* ReachableFrom is such a search.                                         *)
(***************************************************************************)
LEMMA ReachIsLeast == GraphOK => \A n \in Nodes : LeastClosed(n, ReachableFrom(n))
<1> SUFFICES ASSUME GraphOK, NEW n \in Nodes PROVE LeastClosed(n, ReachableFrom(n))
    OBVIOUS
<1> DEFINE last == Cardinality(Nodes)
           IsStep(f) == f = [k \in 0..last |->
                                 IF k = 0 THEN {n}
                                 ELSE UNION {reached \cup {e[2] : e \in {x \in graph : x[1] \in reached}} :
                                                 reached \in {f[k - 1]}}]
           chosen == CHOOSE f : IsStep(f)
<1>1. last \in Nat
    BY SCCAssumption, FS_CardinalityType
<1>2. ReachableFrom(n) = chosen[last]
    BY DEF ReachableFrom
<1> HIDE DEF last
<1>3. \A f : IsStep(f) <=> f = [k \in 0..last |-> IF k = 0 THEN {n} ELSE Onwards(f[k - 1])]
    <2>1. \A f, k : UNION {reached \cup {e[2] : e \in {x \in graph : x[1] \in reached}} :
                               reached \in {f[k - 1]}} = Onwards(f[k - 1])
        BY DEF Onwards
    <2> QED BY <2>1
<1> HIDE DEF IsStep
<1>4. \E f : IsStep(f)
    <2>1. PICK s : IsSearch(s, n, last)
        BY <1>1, SearchExists
    <2>2. \A k \in 0..last : s[k] = IF k = 0 THEN {n} ELSE Onwards(s[k - 1])
        <3> SUFFICES ASSUME NEW k \in 0..last, k # 0 PROVE s[k] = Onwards(s[k - 1])
            BY <2>1 DEF IsSearch
        <3>1. k \in 1..last
            BY <1>1
        <3> QED BY <2>1, <3>1 DEF IsSearch
    <2>3. s = [k \in 0..last |-> IF k = 0 THEN {n} ELSE Onwards(s[k - 1])]
        BY <2>1, <2>2 DEF IsSearch
    <2> QED BY <1>3, <2>3
<1>5. IsStep(chosen)
    BY <1>4
<1> HIDE DEF chosen
<1>6. chosen = [k \in 0..last |-> IF k = 0 THEN {n} ELSE Onwards(chosen[k - 1])]
    BY <1>3, <1>5
<1>7. \A r \in SUBSET Nodes : Onwards(r) \in SUBSET Nodes
    BY DEF GraphOK, Onwards
<1>8. \A k \in 1..last : k - 1 \in 0..last /\ k \in 0..last /\ k # 0
    BY <1>1
<1>9. chosen[0] = {n} /\ \A k \in 1..last : chosen[k] = Onwards(chosen[k - 1])
    <2>1. chosen[0] = {n}
        BY <1>1, <1>6
    <2>2. \A k \in 1..last : chosen[k] = Onwards(chosen[k - 1])
        BY <1>6, <1>8
    <2> QED BY <2>1, <2>2
<1>10. Nat \subseteq {k \in Nat : k <= last => chosen[k] \in SUBSET Nodes}
    <2> DEFINE good == {k \in Nat : k <= last => chosen[k] \in SUBSET Nodes}
    <2>1. 0 \in good
        BY <1>9
    <2>2. ASSUME NEW k \in Nat, k \in good PROVE k + 1 \in good
        <3> SUFFICES ASSUME k + 1 <= last PROVE chosen[k + 1] \in SUBSET Nodes
            OBVIOUS
        <3>1. k + 1 \in 1..last /\ (k + 1) - 1 = k /\ k <= last
            BY <1>1
        <3>2. chosen[k + 1] = Onwards(chosen[k]) /\ chosen[k] \in SUBSET Nodes
            BY <1>9, <2>2, <3>1
        <3> QED BY <1>7, <3>2
    <2> HIDE DEF good
    <2>3. Nat \subseteq good
        BY <2>1, <2>2, SetInduction
    <2> QED BY <2>3 DEF good
<1>11. chosen \in [0..last -> SUBSET Nodes]
    <2>1. \A k \in 0..last : chosen[k] \in SUBSET Nodes
        BY <1>1, <1>10
    <2> QED BY <1>6, <2>1
<1>12. IsSearch(chosen, n, last)
    BY <1>9, <1>11 DEF IsSearch
<1>13. LeastClosed(n, chosen[last])
    BY <1>1, <1>12, SearchCloses DEF last
<1> QED BY <1>2, <1>13

(***************************************************************************)
(* Reachability is reflexive and transitive, follows the edges, and stays  *)
(* inside every set that the edges do not leave.                           *)
(***************************************************************************)
LEMMA ReachRules ==
    GraphOK =>
        /\ \A x \in Nodes : x \in ReachableFrom(x) /\ ReachableFrom(x) \subseteq Nodes
        /\ \A x \in Nodes : \A e \in graph :
               e[1] \in ReachableFrom(x) => e[2] \in ReachableFrom(x)
        /\ \A x \in Nodes : \A y \in ReachableFrom(x) : ReachableFrom(y) \subseteq ReachableFrom(x)
        /\ \A x \in Nodes : \A bound :
               x \in bound /\ (\A e \in graph : e[1] \in bound => e[2] \in bound)
                   => ReachableFrom(x) \subseteq bound
<1> SUFFICES ASSUME GraphOK
             PROVE  /\ \A x \in Nodes : x \in ReachableFrom(x) /\ ReachableFrom(x) \subseteq Nodes
                    /\ \A x \in Nodes : \A e \in graph :
                           e[1] \in ReachableFrom(x) => e[2] \in ReachableFrom(x)
                    /\ \A x \in Nodes : \A y \in ReachableFrom(x) :
                           ReachableFrom(y) \subseteq ReachableFrom(x)
                    /\ \A x \in Nodes : \A bound :
                           x \in bound /\ (\A e \in graph : e[1] \in bound => e[2] \in bound)
                               => ReachableFrom(x) \subseteq bound
    OBVIOUS
<1>1. \A x \in Nodes : LeastClosed(x, ReachableFrom(x))
    BY ReachIsLeast
<1>2. ASSUME NEW x \in Nodes, NEW y \in ReachableFrom(x)
      PROVE  ReachableFrom(y) \subseteq ReachableFrom(x)
    <2>1. y \in Nodes
        BY <1>1 DEF LeastClosed
    <2> QED BY <1>1, <2>1 DEF LeastClosed
<1> QED BY <1>1, <1>2 DEF LeastClosed

(***************************************************************************)
(* What is reachable stays so: no step changes the graph.                  *)
(***************************************************************************)
LEMMA ReachStays ==
    GraphOK /\ graph' = graph => \A x \in Nodes : ReachableFrom(x)' = ReachableFrom(x)
<1> SUFFICES ASSUME GraphOK, graph' = graph, NEW x \in Nodes
             PROVE  ReachableFrom(x)' = ReachableFrom(x)
    OBVIOUS
<1>1. LeastClosed(x, ReachableFrom(x))
    BY ReachIsLeast
<1>2. (\A n \in Nodes : LeastClosed(n, ReachableFrom(n)))'
    <2>1. GraphOK'
        BY DEF GraphOK
    <2> QED BY <2>1, ReachIsLeast, PTL
<1>3. LeastClosed(x, ReachableFrom(x))'
    BY <1>2
<1> QED BY <1>1, <1>3 DEF LeastClosed

-----------------------------------------------------------------------------
(* The invariant.                                                          *)

\* The nodes being visited, those that wait for their component to close, the
\* representatives of closed components and the members of these.
Path == {frames[i].node : i \in DOMAIN frames}
Waiting == {SS[a] : a \in DOMAIN SS}
Tops == {T[i] : i \in DOMAIN T}
Final == {n \in visited : rep[n] \in Tops}
\* The innermost call is taking its component off SS.
Closing == /\ frames # <<>> /\ top.left = {} /\ top.child = {} /\ rep[top.node] = top.node

\* No two nodes are visited at the same time.
ClockInv ==
    /\ \A n \in visited : D[n] <= I
    /\ \A m, n \in visited : D[m] = D[n] => m = n

\* The calls are in the order of their visits, each waiting for the next.
PathInv ==
    /\ \A i, j \in DOMAIN frames : i < j => D[frames[i].node] < D[frames[j].node]
    /\ \A i \in DOMAIN frames :
           /\ frames[i].node \in visited \ Final
           /\ frames[i].child \subseteq visited
           /\ frames[i].child \subseteq frames[i].left
           /\ \A c, d \in frames[i].child : c = d
           /\ \A y \in frames[i].left : <<frames[i].node, y>> \in graph
           /\ i < Len(frames) => frames[i].child = {frames[i + 1].node}
           /\ i < Len(frames) => frames[i].node \notin inSCC

\* A visited node is on the call stack, waits, or is closed or about to be.
OpenInv ==
    /\ visited = Path \cup Waiting \cup inSCC
    /\ Waiting \cap (Path \cup inSCC) = {}
    /\ Final \subseteq inSCC
    /\ \A x \in inSCC \ Final : Closing /\ rep[x] = top.node /\ D[top.node] <= D[x]

\* Above the first node on SS that is younger than a call there are only such nodes:
\* popSS takes what was visited during the call and nothing else.
StackInv ==
    /\ \A a, b \in DOMAIN SS : SS[a] = SS[b] => a = b
    /\ \A v \in Path : \A a, b \in DOMAIN SS :
           (a < b /\ D[v] < D[SS[a]]) => D[v] < D[SS[b]]

\* A call reaches whatever was visited since it began; a waiting node reaches
\* an older call, so its component is not closed before that call returns.
ReachInv ==
    /\ \A v \in Path : \A n \in visited : D[v] <= D[n] => n \in ReachableFrom(v)
    /\ \A x \in Waiting : \E v \in Path : D[v] < D[x] /\ v \in ReachableFrom(x)
    /\ \A n \in visited : \E r \in roots : n \in ReachableFrom(r)

\* A representative is an older node that its node reaches, and shares its fate.
RepInv ==
    /\ \A x \in visited : /\ rep[x] \in visited /\ D[rep[x]] <= D[x]
                          /\ rep[x] \in ReachableFrom(x)
                          /\ rep[x] \in Final => x \in Final
    /\ \A x \in Nodes \ visited : rep[x] = None

\* A call knows the oldest representative of the nodes waiting below it, but for
\* those below the child whose return it has not processed.
LowInv ==
    /\ \A i \in DOMAIN frames : \A x \in Waiting :
           D[frames[i].node] < D[x] =>
               \/ D[rep[frames[i].node]] <= D[rep[x]]
               \/ \E c \in frames[i].child : D[c] <= D[x]
    /\ frames # <<>> =>
           \A c \in top.child : \A x \in Waiting :
               D[c] <= D[x] => c \notin inSCC /\ D[rep[c]] <= D[rep[x]]

\* Closed nodes lead to closed nodes; an edge that has been processed leads to a
\* closed node or to one no older than the representative of its source.
EdgeInv ==
    \A e \in graph :
        /\ e[1] \in Final => e[2] \in Final
        /\ (/\ e[1] \in visited \ Final
            /\ \A i \in DOMAIN frames : frames[i].node = e[1] => e[2] \notin frames[i].left)
           => e[2] \in visited /\ (e[2] \in Final \/ D[rep[e[1]]] <= D[e[2]])

\* A closed component is the sub nodes of its representative.  Those of an open node
\* may be incomplete, because a node that sinks loses its own until it is popped.
SubInv ==
    /\ \A x \in visited : x \in inSCC \/ rep[x] = x => x \in subNodes[rep[x]]
    /\ \A r \in Nodes : subNodes[r] \subseteq visited /\ (r \notin visited => subNodes[r] = {})
    /\ \A r \in visited \ Final : \A x \in subNodes[r] :
           x \notin Final /\ D[rep[x]] <= D[r] /\ D[r] <= D[x]
    /\ \A r \in inSCC : rep[r] # r => subNodes[r] = {}
    /\ \A r \in Tops : /\ r \in visited /\ rep[r] = r
                       /\ \A x \in subNodes[r] : rep[x] = r
    /\ \A r \in Nodes : r \in repNodes <=> \E x \in subNodes[r] : x # r

\* Closed nodes share a representative exactly if they share a component, and T
\* is in topological order.
FinalInv ==
    /\ \A x, y \in Final : rep[x] = rep[y] <=> y \in ComponentOf(x)
    /\ \A i, j \in DOMAIN T : T[i] = T[j] => i = j
    /\ \A e \in graph : \A i, j \in DOMAIN T :
               (T[i] = rep[e[1]] /\ T[j] = rep[e[2]]) => j <= i

IInv ==
    /\ TypeOK /\ ClockInv /\ PathInv /\ OpenInv /\ StackInv /\ ReachInv /\ RepInv
    /\ LowInv /\ EdgeInv /\ SubInv /\ FinalInv

-----------------------------------------------------------------------------
(* The stack of calls.                                                     *)

FrameType == [node : Nodes, child : SUBSET Nodes, left : SUBSET Nodes]

(***************************************************************************)
(* The innermost call is a frame, and the calls are numbered from 1.       *)
(***************************************************************************)
LEMMA TopType ==
    ASSUME TypeOK
    PROVE  /\ Len(frames) \in Nat /\ DOMAIN frames = 1..Len(frames)
           /\ \A i \in DOMAIN frames : /\ frames[i].node \in Nodes /\ frames[i].child \in SUBSET Nodes
                                       /\ frames[i].left \in SUBSET Nodes
           /\ frames # <<>> => /\ Len(frames) \in DOMAIN frames /\ top = frames[Len(frames)]
                               /\ top \in FrameType
<1>1. frames \in Seq(FrameType)
    BY DEF TypeOK, FrameType
<1>2. Len(frames) \in Nat /\ DOMAIN frames = 1..Len(frames)
    BY <1>1
<1>3. \A i \in DOMAIN frames : frames[i] \in FrameType
    BY <1>1
<1>4. frames # <<>> => Len(frames) \in DOMAIN frames
    BY <1>1
<1> QED BY <1>2, <1>3, <1>4 DEF top, FrameType

(***************************************************************************)
(* A call of visit for a child.                                            *)
(***************************************************************************)
LEMMA Called ==
    ASSUME TypeOK, GraphOK, frames # <<>>, NEW w \in Nodes,
           frames' = Append(Replace([top EXCEPT !.child = {w}]), Frame(w))
    PROVE  /\ frames' \in Seq(FrameType) /\ Len(frames') = Len(frames) + 1
           /\ DOMAIN frames' = 1..(Len(frames) + 1)
           /\ \A i \in DOMAIN frames :
                  /\ frames'[i].node = frames[i].node /\ frames'[i].left = frames[i].left
                  /\ frames'[i].child = IF i = Len(frames) THEN {w} ELSE frames[i].child
           /\ frames'[Len(frames) + 1].node = w
           /\ frames'[Len(frames) + 1].child = {}
           /\ \A y : y \in frames'[Len(frames) + 1].left <=> <<w, y>> \in graph
<1> DEFINE old == [top EXCEPT !.child = {w}]
           mid == Replace(old)
           new == Frame(w)
<1>1. /\ frames \in Seq(FrameType) /\ frames # <<>> /\ Len(frames) \in Nat
      /\ DOMAIN frames = 1..Len(frames) /\ top = frames[Len(frames)] /\ top \in FrameType
    BY TopType DEF TypeOK, FrameType
<1>2. /\ old \in FrameType /\ old.node = top.node /\ old.left = top.left /\ old.child = {w}
    BY <1>1 DEF FrameType
<1>3. /\ new \in FrameType /\ new.node = w /\ new.child = {}
      /\ \A y : y \in new.left <=> <<w, y>> \in graph
    BY DEF Frame, FrameType, GraphOK
<1> HIDE DEF old, new
<1>4. mid = [frames EXCEPT ![Len(frames)] = old]
    BY DEF Replace
<1>5. /\ mid \in Seq(FrameType) /\ Len(mid) = Len(frames) /\ DOMAIN mid = DOMAIN frames
      /\ \A i \in DOMAIN frames : mid[i] = IF i = Len(frames) THEN old ELSE frames[i]
    BY <1>1, <1>2, <1>4
<1> HIDE DEF mid
<1>6. frames' = Append(mid, new)
    BY DEF mid, old, new
<1>7. /\ frames' \in Seq(FrameType) /\ Len(frames') = Len(frames) + 1
      /\ DOMAIN frames' = 1..(Len(frames) + 1)
      /\ \A i \in DOMAIN frames : frames'[i] = mid[i]
      /\ frames'[Len(frames) + 1] = new
    <2>1. Len(mid) \in Nat /\ DOMAIN mid = 1..Len(frames) /\ Len(mid) = Len(frames)
        BY <1>1, <1>5
    <2>2. /\ Append(mid, new) \in Seq(FrameType) /\ Len(Append(mid, new)) = Len(mid) + 1
          /\ DOMAIN Append(mid, new) = 1..(Len(mid) + 1)
        BY <1>3, <1>5
    <2>3. /\ \A i \in 1..Len(mid) : Append(mid, new)[i] = mid[i]
          /\ Append(mid, new)[Len(mid) + 1] = new
        BY <1>3, <1>5
    <2> QED BY <1>1, <1>6, <2>1, <2>2, <2>3
<1>8. \A i \in DOMAIN frames :
                  /\ frames'[i].node = frames[i].node /\ frames'[i].left = frames[i].left
                  /\ frames'[i].child = IF i = Len(frames) THEN {w} ELSE frames[i].child
    BY <1>1, <1>2, <1>5, <1>7
<1> QED BY <1>3, <1>7, <1>8

(***************************************************************************)
(* A child is done with.                                                   *)
(***************************************************************************)
LEMMA Advanced ==
    ASSUME TypeOK, frames # <<>>, NEW w \in Nodes,
           frames' = Replace([top EXCEPT !.child = {}, !.left = @ \ {w}])
    PROVE  /\ frames' \in Seq(FrameType) /\ Len(frames') = Len(frames)
           /\ DOMAIN frames' = DOMAIN frames
           /\ \A i \in DOMAIN frames :
                  /\ frames'[i].node = frames[i].node
                  /\ frames'[i].left = IF i = Len(frames) THEN top.left \ {w} ELSE frames[i].left
                  /\ frames'[i].child = IF i = Len(frames) THEN {} ELSE frames[i].child
<1> DEFINE old == [top EXCEPT !.child = {}, !.left = @ \ {w}]
<1>1. /\ frames \in Seq(FrameType) /\ frames # <<>> /\ Len(frames) \in Nat
      /\ DOMAIN frames = 1..Len(frames) /\ top = frames[Len(frames)] /\ top \in FrameType
    BY TopType DEF TypeOK, FrameType
<1>2. /\ old \in FrameType /\ old.node = top.node /\ old.left = top.left \ {w} /\ old.child = {}
    BY <1>1 DEF FrameType
<1> HIDE DEF old
<1>3. frames' = [frames EXCEPT ![Len(frames)] = old]
    BY DEF Replace, old
<1>4. /\ frames' \in Seq(FrameType) /\ Len(frames') = Len(frames) /\ DOMAIN frames' = DOMAIN frames
      /\ \A i \in DOMAIN frames : frames'[i] = IF i = Len(frames) THEN old ELSE frames[i]
    BY <1>1, <1>2, <1>3
<1> QED BY <1>1, <1>2, <1>4

(***************************************************************************)
(* A call returns.                                                         *)
(***************************************************************************)
LEMMA Returned ==
    ASSUME TypeOK, frames # <<>>, frames' = Pop(frames)
    PROVE  /\ frames' \in Seq(FrameType) /\ Len(frames') = Len(frames) - 1
           /\ DOMAIN frames' = 1..(Len(frames) - 1)
           /\ \A i \in DOMAIN frames' : i \in DOMAIN frames /\ i < Len(frames) /\ frames'[i] = frames[i]
<1>1. frames \in Seq(FrameType) /\ frames # <<>> /\ Len(frames) \in Nat
    BY TopType DEF TypeOK, FrameType
<1>2. DOMAIN frames = 1..Len(frames) /\ Len(frames) >= 1
    BY <1>1
<1>3. /\ frames' \in Seq(FrameType) /\ Len(frames') = Len(frames) - 1
      /\ DOMAIN frames' = 1..(Len(frames) - 1)
    BY <1>1, <1>2 DEF Pop
<1>4. \A i \in 1..(Len(frames) - 1) : frames'[i] = frames[i]
    BY <1>1, <1>2 DEF Pop
<1> QED BY <1>1, <1>2, <1>3, <1>4

(***************************************************************************)
(* The node on top of SS is taken off.                                     *)
(***************************************************************************)
LEMMA Unstacked ==
    ASSUME TypeOK, SS # <<>>, SS' = Pop(SS)
    PROVE  /\ SS' \in Seq(Nodes) /\ Len(SS') = Len(SS) - 1 /\ Len(SS) \in DOMAIN SS
           /\ DOMAIN SS' = 1..(Len(SS) - 1) /\ SS[Len(SS)] \in Nodes
           /\ \A a \in DOMAIN SS' : a \in DOMAIN SS /\ a < Len(SS) /\ SS'[a] = SS[a]
           /\ \A a \in DOMAIN SS : a \in DOMAIN SS' \/ a = Len(SS)
<1>1. SS \in Seq(Nodes) /\ Len(SS) \in Nat /\ DOMAIN SS = 1..Len(SS)
    BY DEF TypeOK
<1>2. /\ SS' \in Seq(Nodes) /\ Len(SS') = Len(SS) - 1 /\ Len(SS) \in DOMAIN SS
      /\ DOMAIN SS' = 1..(Len(SS) - 1)
      /\ \A a \in DOMAIN SS' : a \in DOMAIN SS /\ a < Len(SS) /\ SS'[a] = SS[a]
    BY <1>1 DEF Pop
<1> QED BY <1>1, <1>2

(***************************************************************************)
(* A node is put on top of SS.                                             *)
(***************************************************************************)
LEMMA Stacked ==
    ASSUME TypeOK, NEW v \in Nodes, SS' = Append(SS, v)
    PROVE  /\ SS' \in Seq(Nodes) /\ Len(SS) \in Nat
           /\ DOMAIN SS' = 1..(Len(SS) + 1) /\ DOMAIN SS = 1..Len(SS)
           /\ SS'[Len(SS) + 1] = v
           /\ \A a \in DOMAIN SS : SS'[a] = SS[a]
<1>1. SS \in Seq(Nodes) /\ Len(SS) \in Nat /\ DOMAIN SS = 1..Len(SS)
    BY DEF TypeOK
<1> QED BY <1>1

(***************************************************************************)
(* A representative is put on top of T.                                    *)
(***************************************************************************)
LEMMA Topped ==
    ASSUME TypeOK, NEW v \in Nodes, T' = Append(T, v)
    PROVE  /\ T' \in Seq(Nodes) /\ Len(T) \in Nat
           /\ DOMAIN T' = 1..(Len(T) + 1) /\ DOMAIN T = 1..Len(T)
           /\ T'[Len(T) + 1] = v
           /\ \A a \in DOMAIN T : T'[a] = T[a]
<1>1. T \in Seq(Nodes) /\ Len(T) \in Nat /\ DOMAIN T = 1..Len(T)
    BY DEF TypeOK
<1> QED BY <1>1

(***************************************************************************)
(* A node gets a representative.                                           *)
(***************************************************************************)
LEMMA SetReps ==
    ASSUME TypeOK, NEW n \in Nodes, NEW r \in Nodes, setRep(n, r)
    PROVE  /\ rep' \in [Nodes -> Nodes \cup {None}] /\ subNodes' \in [Nodes -> SUBSET Nodes]
           /\ repNodes' \in SUBSET Nodes
           /\ \A m \in Nodes : rep'[m] = IF m = n THEN r ELSE rep[m]
           /\ \A m \in Nodes : subNodes'[m] = IF m = r THEN subNodes[r] \cup {n}
                                             ELSE IF m = n THEN {} ELSE subNodes[m]
           /\ \A m \in Nodes : m \in repNodes' <=> IF n = r THEN m \in repNodes
                                                  ELSE m = r \/ (m \in repNodes /\ m # n)
<1>1. /\ rep \in [Nodes -> Nodes \cup {None}] /\ subNodes \in [Nodes -> SUBSET Nodes]
      /\ repNodes \in SUBSET Nodes
    BY DEF TypeOK
<1>2. /\ rep' \in [Nodes -> Nodes \cup {None}]
      /\ \A m \in Nodes : rep'[m] = IF m = n THEN r ELSE rep[m]
    BY <1>1 DEF setRep
<1>3. /\ subNodes' \in [Nodes -> SUBSET Nodes]
      /\ \A m \in Nodes : subNodes'[m] = IF m = r THEN subNodes[r] \cup {n}
                                         ELSE IF m = n THEN {} ELSE subNodes[m]
    BY <1>1 DEF setRep, SubNodesAfter
<1>4. /\ repNodes' \in SUBSET Nodes
      /\ \A m \in Nodes : m \in repNodes' <=> IF n = r THEN m \in repNodes
                                             ELSE m = r \/ (m \in repNodes /\ m # n)
    BY <1>1 DEF setRep
<1> QED BY <1>2, <1>3, <1>4

-----------------------------------------------------------------------------
(* What the invariant says in plain facts.                                 *)

(***************************************************************************)
(* Types of what the invariant speaks of.                                  *)
(***************************************************************************)
LEMMA Basics ==
    ASSUME IInv
    PROVE  /\ TypeOK /\ GraphOK /\ I \in Nat
           /\ Path \subseteq visited /\ Waiting \subseteq visited /\ Tops \subseteq visited
           /\ inSCC \subseteq visited /\ visited \subseteq Nodes
           /\ Final \subseteq inSCC /\ Path \cap Final = {} /\ Tops \subseteq Final
           /\ \A n \in Nodes : D[n] \in Nat /\ subNodes[n] \subseteq visited
           /\ \A n \in visited : rep[n] \in visited
           /\ DOMAIN frames = 1..Len(frames) /\ Len(frames) \in Nat
           /\ \A i \in DOMAIN frames : frames[i].node \in Path
           /\ \A e \in graph : e = <<e[1], e[2]>> /\ e[1] \in Nodes /\ e[2] \in Nodes
<1>1. TypeOK /\ GraphOK
    BY SCCAssumption DEF IInv, TypeOK, GraphOK
<1>2. inSCC \subseteq visited /\ visited \subseteq Nodes /\ Final \subseteq inSCC
    BY <1>1 DEF IInv, OpenInv, TypeOK
<1>3. Path \subseteq visited /\ Waiting \subseteq visited
    BY DEF IInv, OpenInv
<1>4. Tops \subseteq Final /\ Tops \subseteq visited /\ \A n \in visited : rep[n] \in visited
    BY DEF IInv, SubInv, RepInv, Final
<1>5. \A n \in Nodes : D[n] \in Nat /\ subNodes[n] \subseteq visited
    BY <1>1 DEF IInv, SubInv, TypeOK
<1>6. Path \cap Final = {}
    BY DEF IInv, PathInv, Path
<1>7. \A i \in DOMAIN frames : frames[i].node \in Path
    BY DEF Path
<1>8. \A e \in graph : e = <<e[1], e[2]>> /\ e[1] \in Nodes /\ e[2] \in Nodes
    BY <1>1 DEF GraphOK
<1> QED BY <1>1, <1>2, <1>3, <1>4, <1>5, <1>6, <1>7, <1>8, TopType DEF TypeOK

(***************************************************************************)
(* While a call has children left, no component is being closed.           *)
(***************************************************************************)
LEMMA NotClosing ==
    ASSUME IInv, ~Closing
    PROVE  inSCC = Final /\ Path \cap inSCC = {} /\ visited = Path \cup Waiting \cup Final
<1>1. inSCC = Final
    BY DEF IInv, OpenInv
<1> QED BY <1>1, Basics DEF IInv, OpenInv

(***************************************************************************)
(* Closed components stay as they are while T and what is said of their    *)
(* nodes do.                                                               *)
(***************************************************************************)
LEMMA FinalKept ==
    ASSUME IInv, graph' = graph, T' = T, Final' = Final, rep' \in [Nodes -> Nodes \cup {None}],
           \A n \in Final : rep'[n] = rep[n],
           \A n \in Nodes : rep'[n] \in Tops => rep'[n] = rep[n]
    PROVE  FinalInv'
<1>1. FinalInv /\ GraphOK /\ Final \subseteq Nodes
    BY Basics DEF IInv
<1>2. \A x \in Nodes : ReachableFrom(x)' = ReachableFrom(x) /\ ReachableFrom(x) \subseteq Nodes
    BY <1>1, ReachStays, ReachRules
<1>3. \A x \in Nodes : ComponentOf(x)' = ComponentOf(x)
    <2> SUFFICES ASSUME NEW x \in Nodes PROVE ComponentOf(x)' = ComponentOf(x)
        OBVIOUS
    <2>1. ComponentOf(x)' = {m \in ReachableFrom(x)' : x \in ReachableFrom(m)'}
        BY DEF ComponentOf
    <2> QED BY <1>2, <2>1 DEF ComponentOf
<1>4. (\A x, y \in Final : rep[x] = rep[y] <=> y \in ComponentOf(x))'
    BY <1>1, <1>3 DEF FinalInv
<1>5. \A e \in graph : e[1] \in Nodes /\ e[2] \in Nodes
    BY <1>1 DEF GraphOK
<1>6. ASSUME NEW e \in graph, NEW i \in DOMAIN T, NEW j \in DOMAIN T,
             T[i] = rep'[e[1]], T[j] = rep'[e[2]]
      PROVE  j <= i
    <2>1. rep'[e[1]] \in Tops /\ rep'[e[2]] \in Tops
        BY <1>6 DEF Tops
    <2>2. rep'[e[1]] = rep[e[1]] /\ rep'[e[2]] = rep[e[2]]
        BY <1>5, <2>1
    <2> QED BY <1>1, <1>6, <2>2 DEF FinalInv
<1> QED BY <1>1, <1>4, <1>6 DEF FinalInv

-----------------------------------------------------------------------------
(* A visit begins.                                                         *)

\* The stack gets a call for w, by find or by the innermost call.
CallOf(w) ==
    /\ frames' \in Seq(FrameType) /\ Len(frames') = Len(frames) + 1
    /\ DOMAIN frames' = 1..(Len(frames) + 1)
    /\ \A i \in DOMAIN frames :
           /\ frames'[i].node = frames[i].node /\ frames'[i].left = frames[i].left
           /\ frames'[i].child = IF i = Len(frames) THEN {w} ELSE frames[i].child
    /\ frames'[Len(frames) + 1].node = w
    /\ frames'[Len(frames) + 1].child = {}
    /\ \A y : y \in frames'[Len(frames) + 1].left <=> <<w, y>> \in graph
    /\ frames = <<>> => w \in roots
    /\ frames # <<>> => top.child = {} /\ w \in top.left

(***************************************************************************)
(* It keeps the invariant: the new node is the youngest, alone in its      *)
(* component, and everything on the stack reaches it.                      *)
(***************************************************************************)
LEMMA EnterStep ==
    ASSUME IInv, NEW w \in Nodes \ visited, Enter(w), CallOf(w)
    PROVE  IInv'
<1> DEFINE last == Len(frames)
<1>1. /\ TypeOK /\ GraphOK /\ I \in Nat
      /\ Path \subseteq visited /\ Waiting \subseteq visited /\ Tops \subseteq visited
      /\ inSCC \subseteq visited /\ visited \subseteq Nodes
      /\ \A n \in Nodes : D[n] \in Nat /\ subNodes[n] \subseteq visited
      /\ \A n \in visited : rep[n] \in visited
      /\ DOMAIN frames = 1..last /\ last \in Nat
      /\ \A i \in DOMAIN frames : frames[i].node \in Path
    BY Basics
<1>2. /\ visited' = visited \cup {w} /\ I' = I + 1
      /\ graph' = graph /\ inSCC' = inSCC /\ SS' = SS /\ T' = T /\ roots' = roots /\ finds' = finds
    BY DEF Enter
<1>3. D' \in [Nodes -> Nat] /\ \A n \in Nodes : D'[n] = IF n = w THEN I + 1 ELSE D[n]
    <2>1. D \in [Nodes -> Nat]
        BY <1>1 DEF TypeOK
    <2> QED BY <1>1, <2>1 DEF Enter
<1>4. /\ rep' \in [Nodes -> Nodes \cup {None}] /\ subNodes' \in [Nodes -> SUBSET Nodes]
      /\ repNodes' \in SUBSET Nodes
      /\ \A m \in Nodes : rep'[m] = IF m = w THEN w ELSE rep[m]
      /\ \A m \in Nodes : subNodes'[m] = IF m = w THEN {w} ELSE subNodes[m]
      /\ \A m \in Nodes : m \in repNodes' <=> m \in repNodes
    <2>1. setRep(w, w)
        BY DEF Enter
    <2>2. subNodes[w] = {} /\ w \in Nodes
        BY DEF IInv, SubInv
    <2>3. /\ rep' \in [Nodes -> Nodes \cup {None}] /\ subNodes' \in [Nodes -> SUBSET Nodes]
          /\ repNodes' \in SUBSET Nodes
          /\ \A m \in Nodes : rep'[m] = IF m = w THEN w ELSE rep[m]
          /\ \A m \in Nodes : subNodes'[m] = IF m = w THEN subNodes[w] \cup {w}
                                            ELSE IF m = w THEN {} ELSE subNodes[m]
          /\ \A m \in Nodes : m \in repNodes' <=> IF w = w THEN m \in repNodes
                                                 ELSE m = w \/ (m \in repNodes /\ m # w)
        BY <1>1, <2>1, <2>2, SetReps
    <2> QED BY <2>2, <2>3
<1>5. Tops' = Tops /\ Waiting' = Waiting
    BY <1>2 DEF Tops, Waiting
<1>6. Final' = Final
    <2>1. w \notin Tops
        BY <1>1
    <2> QED BY <1>1, <1>2, <1>4, <1>5, <2>1 DEF Final
<1>7. /\ DOMAIN frames' = 1..(last + 1) /\ Len(frames') = last + 1
      /\ \A i \in DOMAIN frames :
             /\ i \in DOMAIN frames' /\ i <= last
             /\ frames'[i].node = frames[i].node /\ frames'[i].left = frames[i].left
             /\ frames'[i].child = IF i = last THEN {w} ELSE frames[i].child
      /\ frames'[last + 1].node = w /\ frames'[last + 1].child = {}
      /\ \A y : y \in frames'[last + 1].left <=> <<w, y>> \in graph
      /\ \A i \in DOMAIN frames' : i \in DOMAIN frames \/ i = last + 1
      /\ last + 1 \in DOMAIN frames'
    <2>1. /\ DOMAIN frames' = 1..(last + 1) /\ DOMAIN frames = 1..last /\ last \in Nat
        BY <1>1 DEF CallOf
    <2>2. /\ \A i \in DOMAIN frames : i \in DOMAIN frames' /\ i <= last
          /\ \A i \in DOMAIN frames' : i \in DOMAIN frames \/ i = last + 1
          /\ last + 1 \in DOMAIN frames'
        BY <2>1
    <2> QED BY <2>1, <2>2 DEF CallOf
<1>8. Path' = Path \cup {w}
    BY <1>7 DEF Path
<1>9. frames # <<>> => last \in DOMAIN frames /\ top = frames[last] /\ top.child = {} /\ w \in top.left
    BY <1>1, TopType DEF CallOf
<1>10. ~Closing
    BY <1>9 DEF Closing
<1>11. inSCC = Final /\ Path \cap inSCC = {}
    BY <1>10, NotClosing
<1>12. \A n \in visited : D'[n] = D[n] /\ D[n] <= I /\ rep'[n] = rep[n] /\ subNodes'[n] = subNodes[n] /\ n # w
    BY <1>1, <1>3, <1>4 DEF IInv, ClockInv
<1>13. D'[w] = I + 1 /\ rep'[w] = w /\ subNodes'[w] = {w}
    BY <1>3, <1>4
<1>14. TypeOK'
    <2>1. frames' \in Seq(FrameType)
        BY DEF CallOf
    <2> QED BY <1>1, <1>2, <1>3, <1>4, <2>1 DEF TypeOK, FrameType
<1>15. ClockInv'
    <2>1. \A n \in visited' : D'[n] <= I'
        BY <1>1, <1>2, <1>12, <1>13
    <2>2. \A m, n \in visited' : D'[m] = D'[n] => m = n
        BY <1>1, <1>2, <1>12, <1>13 DEF IInv, ClockInv
    <2> QED BY <2>1, <2>2 DEF ClockInv
<1>16. PathInv'
    <2>0. PathInv
        BY DEF IInv
    <2>1. ASSUME NEW i \in DOMAIN frames', NEW j \in DOMAIN frames', i < j
          PROVE  D'[frames'[i].node] < D'[frames'[j].node]
        <3>1. i \in DOMAIN frames
            BY <1>1, <1>7, <2>1
        <3>2. frames'[i].node \in visited /\ frames'[i].node = frames[i].node
            BY <1>1, <1>7, <3>1
        <3>3. CASE j = last + 1
            BY <1>1, <1>7, <1>12, <1>13, <3>2, <3>3
        <3>4. CASE j \in DOMAIN frames
            <4>1. frames'[j].node \in visited /\ frames'[j].node = frames[j].node
                BY <1>1, <1>7, <3>4
            <4> QED BY <1>12, <2>0, <2>1, <3>1, <3>2, <3>4, <4>1 DEF PathInv
        <3> QED BY <1>7, <3>3, <3>4
    <2>2. ASSUME NEW i \in DOMAIN frames'
          PROVE  /\ frames'[i].node \in visited' \ Final'
                 /\ frames'[i].child \subseteq visited'
                 /\ frames'[i].child \subseteq frames'[i].left
                 /\ \A c, d \in frames'[i].child : c = d
                 /\ \A y \in frames'[i].left : <<frames'[i].node, y>> \in graph'
                 /\ i < Len(frames') => frames'[i].child = {frames'[i + 1].node}
                 /\ i < Len(frames') => frames'[i].node \notin inSCC'
        <3>1. CASE i = last + 1
            <4>1. w \in visited' \ Final'
                BY <1>1, <1>2, <1>6 DEF Final
            <4> QED BY <1>1, <1>2, <1>7, <3>1, <4>1
        <3>2. CASE i \in DOMAIN frames /\ i = last
            <4>1. frames # <<>>
                BY <1>1, <3>2
            <4>2. frames[i].node \in visited \ Final /\ \A y \in frames[i].left : <<frames[i].node, y>> \in graph
                BY <2>0, <3>2 DEF PathInv
            <4>3. frames[i].node \notin inSCC
                BY <1>1, <1>11, <3>2
            <4> QED BY <1>2, <1>6, <1>7, <1>9, <3>2, <4>1, <4>2, <4>3
        <3>3. CASE i \in DOMAIN frames /\ i # last
            <4>1. i < last /\ i + 1 \in DOMAIN frames
                BY <1>1, <3>3
            <4>2. frames'[i + 1].node = frames[i + 1].node /\ frames'[i].child = frames[i].child
                  /\ frames'[i].node = frames[i].node /\ frames'[i].left = frames[i].left
                BY <1>7, <3>3, <4>1
            <4> QED BY <1>2, <1>6, <2>0, <3>3, <4>1, <4>2 DEF PathInv
        <3> QED BY <1>7, <3>1, <3>2, <3>3
    <2> QED BY <2>1, <2>2 DEF PathInv
<1>17. OpenInv'
    <2>1. visited' = Path' \cup Waiting' \cup inSCC' /\ Waiting' \cap (Path' \cup inSCC') = {}
        BY <1>1, <1>2, <1>5, <1>8 DEF IInv, OpenInv
    <2> QED BY <1>2, <1>6, <1>11, <2>1 DEF OpenInv
<1>18. StackInv'
    <2>1. \A a \in DOMAIN SS : SS[a] \in visited
        BY <1>1 DEF Waiting
    <2>2. ASSUME NEW v \in Path', NEW a \in DOMAIN SS, NEW b \in DOMAIN SS,
                 a < b, D'[v] < D'[SS[a]]
          PROVE  D'[v] < D'[SS[b]]
        <3>1. CASE v = w
            BY <1>1, <1>12, <1>13, <2>1, <2>2, <3>1
        <3>2. CASE v \in Path
            BY <1>1, <1>12, <2>1, <2>2, <3>2 DEF IInv, StackInv
        <3> QED BY <1>8, <3>1, <3>2
    <2> QED BY <1>2, <2>2 DEF IInv, StackInv
<1>19. ReachInv'
    <2>0. \A x \in Nodes : ReachableFrom(x)' = ReachableFrom(x)
        BY <1>1, <1>2, ReachStays
    <2>1. ASSUME NEW v \in Path', NEW n \in visited', D'[v] <= D'[n]
          PROVE  n \in ReachableFrom(v)
        <3>1. CASE v = w
            <4>1. n = w
                BY <1>1, <1>2, <1>12, <1>13, <2>1, <3>1
            <4> QED BY <1>1, <3>1, <4>1, ReachRules
        <3>2. CASE v \in Path
            <4>1. CASE n \in visited
                BY <1>1, <1>12, <2>1, <3>2, <4>1 DEF IInv, ReachInv
            <4>2. CASE n = w
                <5>1. PICK i \in DOMAIN frames : v = frames[i].node
                    BY <3>2 DEF Path
                <5>2. frames # <<>> /\ last \in DOMAIN frames /\ top = frames[last] /\ w \in top.left
                    BY <1>1, <1>9, <5>1
                <5>3. <<top.node, w>> \in graph /\ top.node \in visited
                    BY <5>2 DEF IInv, PathInv
                <5>4. i = last \/ D[v] < D[top.node]
                    BY <1>1, <5>1, <5>2 DEF IInv, PathInv
                <5>5. D[v] <= D[top.node]
                    BY <1>1, <3>2, <5>1, <5>2, <5>3, <5>4
                <5>6. top.node \in ReachableFrom(v)
                    BY <3>2, <5>3, <5>5 DEF IInv, ReachInv
                <5> QED BY <1>1, <3>2, <4>2, <5>3, <5>6, ReachRules
            <4> QED BY <1>2, <4>1, <4>2
        <3> QED BY <1>8, <3>1, <3>2
    <2>2. ASSUME NEW x \in Waiting PROVE \E v \in Path' : D'[v] < D'[x] /\ v \in ReachableFrom(x)
        <3>1. PICK v \in Path : D[v] < D[x] /\ v \in ReachableFrom(x)
            BY DEF IInv, ReachInv
        <3> QED BY <1>1, <1>8, <1>12, <3>1
    <2>3. ASSUME NEW n \in visited' PROVE \E r \in roots : n \in ReachableFrom(r)
        <3>0. roots \subseteq Nodes
            BY <1>1 DEF TypeOK
        <3>1. CASE n \in visited
            BY <3>1 DEF IInv, ReachInv
        <3>2. CASE n = w /\ frames = <<>>
            <4>1. w \in roots
                BY <3>2 DEF CallOf
            <4> QED BY <1>1, <3>0, <3>2, <4>1, ReachRules
        <3>3. CASE n = w /\ frames # <<>>
            <4>1. <<top.node, w>> \in graph /\ top.node \in visited
                BY <1>9, <3>3 DEF IInv, PathInv
            <4>2. PICK r \in roots : top.node \in ReachableFrom(r)
                BY <4>1 DEF IInv, ReachInv
            <4>3. w \in ReachableFrom(r)
                BY <1>1, <3>0, <4>1, <4>2, ReachRules
            <4> QED BY <3>3, <4>3
        <3> QED BY <1>2, <3>1, <3>2, <3>3
    <2>4. Path' \subseteq Nodes /\ Waiting \subseteq Nodes /\ roots \subseteq Nodes
        BY <1>1, <1>8 DEF TypeOK
    <2>5. \A v \in Path' : \A n \in visited' : D'[v] <= D'[n] => n \in ReachableFrom(v)'
        BY <2>0, <2>1, <2>4
    <2>6. \A x \in Waiting' : \E v \in Path' : D'[v] < D'[x] /\ v \in ReachableFrom(x)'
        BY <1>5, <2>0, <2>2, <2>4
    <2>7. \A n \in visited' : \E r \in roots' : n \in ReachableFrom(r)'
        BY <1>2, <2>0, <2>3, <2>4
    <2> QED BY <2>5, <2>6, <2>7 DEF ReachInv
<1>20. RepInv'
    <2>0. \A x \in Nodes : ReachableFrom(x)' = ReachableFrom(x)
        BY <1>1, <1>2, ReachStays
    <2>1. ASSUME NEW x \in visited'
          PROVE  /\ rep'[x] \in visited' /\ D'[rep'[x]] <= D'[x]
                 /\ rep'[x] \in ReachableFrom(x)
                 /\ rep'[x] \in Final => x \in Final
        <3>1. CASE x = w
            BY <1>1, <1>2, <1>13, <3>1, ReachRules DEF Final
        <3>2. CASE x \in visited
            <4>1. rep'[x] = rep[x] /\ rep[x] \in visited
                BY <1>1, <1>12, <3>2
            <4> QED BY <1>2, <1>12, <3>2, <4>1 DEF IInv, RepInv
        <3> QED BY <1>2, <3>1, <3>2
    <2>2. \A x \in Nodes \ visited' : rep'[x] = None
        BY <1>2, <1>4 DEF IInv, RepInv
    <2>3. \A x \in visited' : rep'[x] \in ReachableFrom(x)'
        BY <1>1, <1>2, <2>0, <2>1
    <2> QED BY <1>6, <2>1, <2>2, <2>3 DEF RepInv
<1>21. LowInv'
    <2>1. ASSUME NEW i \in DOMAIN frames', NEW x \in Waiting, D'[frames'[i].node] < D'[x]
          PROVE  \/ D'[rep'[frames'[i].node]] <= D'[rep'[x]]
                 \/ \E c \in frames'[i].child : D'[c] <= D'[x]
        <3>0. x \in visited /\ rep[x] \in visited
            BY <1>1
        <3>1. CASE i = last + 1
            BY <1>1, <1>7, <1>12, <1>13, <2>1, <3>0, <3>1
        <3>2. CASE i \in DOMAIN frames
            <4>1. frames'[i].node = frames[i].node /\ frames[i].node \in visited
                BY <1>1, <1>7, <3>2
            <4>2. \/ D[rep[frames[i].node]] <= D[rep[x]]
                  \/ \E c \in frames[i].child : D[c] <= D[x]
                BY <1>12, <2>1, <3>0, <3>2, <4>1 DEF IInv, LowInv
            <4>3. CASE D[rep[frames[i].node]] <= D[rep[x]]
                BY <1>1, <1>12, <3>0, <4>1, <4>3
            <4>4. CASE \E c \in frames[i].child : D[c] <= D[x]
                <5>1. PICK c \in frames[i].child : D[c] <= D[x]
                    BY <4>4
                <5>2. frames'[i].child = frames[i].child
                    BY <1>1, <1>7, <1>9, <3>2, <5>1
                <5>3. c \in visited
                    BY <3>2 DEF IInv, PathInv
                <5> QED BY <1>12, <3>0, <5>1, <5>2, <5>3
            <4> QED BY <4>2, <4>3, <4>4
        <3> QED BY <1>7, <3>1, <3>2
    <2>2. top' = frames'[last + 1]
        BY <1>7 DEF top
    <2>3. top'.child = {}
        BY <1>7, <2>2
    <2> QED BY <1>5, <2>1, <2>3 DEF LowInv
<1>22. EdgeInv'
    <2>1. ASSUME NEW e \in graph
          PROVE  /\ e[1] \in Final => e[2] \in Final
                 /\ (/\ e[1] \in visited' \ Final
                     /\ \A i \in DOMAIN frames' : frames'[i].node = e[1] => e[2] \notin frames'[i].left)
                    => e[2] \in visited' /\ (e[2] \in Final \/ D'[rep'[e[1]]] <= D'[e[2]])
        <3>1. e[1] \in Final => e[2] \in Final
            BY DEF IInv, EdgeInv
        <3>2. CASE e[1] = w
            <4>1. e = <<w, e[2]>>
                BY <1>1, <3>2 DEF GraphOK
            <4>2. e[2] \in frames'[last + 1].left /\ frames'[last + 1].node = w
                BY <1>7, <4>1
            <4> QED BY <1>7, <3>1, <3>2, <4>2
        <3>3. CASE e[1] # w
            <4> SUFFICES ASSUME e[1] \in visited' \ Final,
                                \A i \in DOMAIN frames' : frames'[i].node = e[1] => e[2] \notin frames'[i].left
                         PROVE  e[2] \in visited' /\ (e[2] \in Final \/ D'[rep'[e[1]]] <= D'[e[2]])
                BY <3>1
            <4>1. e[1] \in visited \ Final
                BY <1>2, <3>3
            <4>2. \A i \in DOMAIN frames : frames[i].node = e[1] => e[2] \notin frames[i].left
                BY <1>7
            <4>3. e[2] \in visited /\ (e[2] \in Final \/ D[rep[e[1]]] <= D[e[2]])
                BY <4>1, <4>2 DEF IInv, EdgeInv
            <4> QED BY <1>1, <1>2, <1>12, <4>1, <4>3
        <3> QED BY <3>2, <3>3
    <2> QED BY <1>2, <1>6, <2>1 DEF EdgeInv
<1>23. SubInv'
    <2>0. SubInv
        BY DEF IInv
    <2>1. \A x \in visited' : x \in inSCC' \/ rep'[x] = x => x \in subNodes'[rep'[x]]
        BY <1>1, <1>2, <1>12, <1>13, <2>0 DEF SubInv
    <2>2. \A r \in Nodes : subNodes'[r] \subseteq visited' /\ (r \notin visited' => subNodes'[r] = {})
        BY <1>1, <1>2, <1>4, <2>0 DEF SubInv
    <2>3. ASSUME NEW r \in visited' \ Final', NEW x \in subNodes'[r]
          PROVE  x \notin Final' /\ D'[rep'[x]] <= D'[r] /\ D'[r] <= D'[x]
        <3>1. CASE r = w
            BY <1>1, <1>6, <1>13, <2>3, <3>1 DEF Final
        <3>2. CASE r # w
            <4>1. r \in visited \ Final /\ x \in subNodes[r]
                BY <1>2, <1>6, <1>12, <2>3, <3>2
            <4>2. x \in visited /\ rep[x] \in visited
                BY <1>1, <4>1
            <4> QED BY <1>6, <1>12, <2>0, <4>1, <4>2 DEF SubInv
        <3> QED BY <3>1, <3>2
    <2>4. \A r \in inSCC' : rep'[r] # r => subNodes'[r] = {}
        BY <1>1, <1>2, <1>12, <2>0 DEF SubInv
    <2>5. ASSUME NEW r \in Tops'
          PROVE  /\ r \in visited' /\ rep'[r] = r
                 /\ \A x \in subNodes'[r] : rep'[x] = r
        <3>1. r \in Tops /\ r \in visited /\ rep[r] = r /\ \A x \in subNodes[r] : rep[x] = r
            BY <1>5, <2>0 DEF SubInv
        <3>2. subNodes'[r] = subNodes[r] /\ subNodes[r] \subseteq visited
            BY <1>1, <1>12, <3>1
        <3> QED BY <1>2, <1>12, <3>1, <3>2
    <2>6. \A r \in Nodes : r \in repNodes' <=> \E x \in subNodes'[r] : x # r
        <3> SUFFICES ASSUME NEW r \in Nodes PROVE r \in repNodes' <=> \E x \in subNodes'[r] : x # r
            OBVIOUS
        <3>1. r \in repNodes <=> \E x \in subNodes[r] : x # r
            BY <2>0 DEF SubInv
        <3>2. CASE r = w
            <4>1. subNodes[w] = {}
                BY <2>0 DEF SubInv
            <4> QED BY <1>4, <3>1, <3>2, <4>1
        <3>3. CASE r # w
            BY <1>4, <3>1, <3>3
        <3> QED BY <3>2, <3>3
    <2> QED BY <2>1, <2>2, <2>3, <2>4, <2>5, <2>6 DEF SubInv
<1>24. FinalInv'
    <2>1. \A n \in Final : rep'[n] = rep[n]
        BY <1>12 DEF Final
    <2>2. \A n \in Nodes : rep'[n] \in Tops => rep'[n] = rep[n]
        BY <1>1, <1>4
    <2> QED BY <1>2, <1>4, <1>6, <2>1, <2>2, FinalKept
<1> QED BY <1>14, <1>15, <1>16, <1>17, <1>18, <1>19, <1>20, <1>21, <1>22, <1>23, <1>24 DEF IInv

(***************************************************************************)
(* find and the innermost call make such calls.                            *)
(***************************************************************************)
LEMMA VisitStep ==
    ASSUME IInv, NEW w \in Nodes, visitRoot(w) \/ visitChild(w)
    PROVE  IInv'
<1>1. TypeOK /\ GraphOK
    BY Basics
<1>2. CASE visitRoot(w)
    <2>1. w \in Nodes \ visited /\ Enter(w) /\ frames = <<>> /\ w \in roots
        BY <1>2 DEF visitRoot
    <2>2. frames' = <<Frame(w)>>
        BY <1>2 DEF visitRoot
    <2> DEFINE new == Frame(w)
    <2>3. /\ new \in FrameType /\ new.node = w /\ new.child = {}
          /\ \A y : y \in new.left <=> <<w, y>> \in graph
        BY <1>1 DEF Frame, FrameType, GraphOK
    <2> HIDE DEF new
    <2>4. frames' = <<new>>
        BY <2>2 DEF new
    <2>5. /\ frames' \in Seq(FrameType) /\ Len(frames') = 1 /\ DOMAIN frames' = 1..1 /\ frames'[1] = new
          /\ Len(frames) = 0 /\ DOMAIN frames = {}
        BY <2>1, <2>3, <2>4
    <2>6. CallOf(w)
        BY <2>1, <2>3, <2>5 DEF CallOf
    <2> QED BY <2>1, <2>6, EnterStep
<1>3. CASE visitChild(w)
    <2>1. w \in Nodes \ visited /\ Enter(w) /\ frames # <<>> /\ top.child = {} /\ w \in top.left
        BY <1>3 DEF visitChild
    <2>2. CallOf(w)
        BY <1>1, <1>3, <2>1, Called DEF CallOf, visitChild
    <2> QED BY <2>1, <2>2, EnterStep
<1> QED BY <1>2, <1>3

-----------------------------------------------------------------------------
(* A child has been looked at.                                             *)

(***************************************************************************)
(* The node on top takes over the older representative, unless the child   *)
(* is in a closed component.                                               *)
(***************************************************************************)
LEMMA Lowered ==
    ASSUME IInv, NEW w \in Nodes, lowerRep(w)
    PROVE  /\ w \in visited /\ w \in top.left /\ (top.child # {} => top.child = {w})
           /\ ~Closing
           /\ rep' \in [Nodes -> Nodes \cup {None}]
           /\ \A m \in Nodes \ {top.node} : rep'[m] = rep[m]
           /\ rep'[top.node] \in visited \ Final
           /\ D[rep'[top.node]] <= D[rep[top.node]]
           /\ rep'[top.node] \in ReachableFrom(top.node)
           /\ w \in Final \/ D[rep'[top.node]] <= D[rep[w]]
           /\ UNCHANGED <<rep, subNodes, repNodes>> \/ setRep(top.node, rep'[top.node])
<1>1. /\ TypeOK /\ GraphOK /\ visited \subseteq Nodes /\ inSCC \subseteq visited
      /\ \A n \in Nodes : D[n] \in Nat
      /\ \A n \in visited : rep[n] \in visited
      /\ Path \cap Final = {} /\ Path \subseteq visited
    BY Basics
<1>2. frames # <<>> /\ w \in IF top.child = {} THEN top.left \cap visited ELSE top.child
    BY DEF lowerRep
<1>3. Len(frames) \in DOMAIN frames /\ top = frames[Len(frames)] /\ top.node \in Path
    BY <1>1, <1>2, TopType DEF Path
<1>4. /\ top.child \subseteq top.left /\ top.child \subseteq visited
      /\ \A c, d \in top.child : c = d
      /\ <<top.node, w>> \in graph
    BY <1>2, <1>3 DEF IInv, PathInv
<1>5. w \in visited /\ w \in top.left /\ (top.child # {} => top.child = {w})
    BY <1>2, <1>4
<1>6. ~Closing /\ inSCC = Final
    BY <1>5, NotClosing DEF Closing
<1>7. top.node \in visited \ Final
    BY <1>1, <1>3
<1>8. rep[top.node] \in visited \ Final /\ rep[top.node] \in ReachableFrom(top.node)
    BY <1>7 DEF IInv, RepInv
<1>9. CASE w \in inSCC
    <2>1. UNCHANGED <<rep, subNodes, repNodes>>
        BY <1>9 DEF lowerRep
    <2>2. rep \in [Nodes -> Nodes \cup {None}]
        BY <1>1 DEF TypeOK
    <2> QED BY <1>1, <1>5, <1>6, <1>8, <1>9, <2>1, <2>2
<1>10. CASE w \notin inSCC
    <2> DEFINE s == Sink(top.node, w)
    <2>1. rep[w] \in visited \ Final /\ rep[w] \in ReachableFrom(w)
        BY <1>5, <1>6, <1>10 DEF IInv, RepInv
    <2>2. /\ s \in {rep[top.node], rep[w]}
          /\ D[s] <= D[rep[top.node]] /\ D[s] <= D[rep[w]]
        BY <1>1, <1>8, <2>1 DEF Sink, Older
    <2>3. w \in ReachableFrom(top.node)
        BY <1>1, <1>4, <1>7, ReachRules
    <2>4. rep[w] \in ReachableFrom(top.node)
        BY <1>1, <1>7, <2>1, <2>3, ReachRules
    <2>5. setRep(top.node, s)
        BY <1>10 DEF lowerRep
    <2> HIDE DEF s
    <2>6. s \in visited \ Final /\ s \in ReachableFrom(top.node)
        BY <1>8, <2>1, <2>2, <2>4
    <2>7. /\ rep' \in [Nodes -> Nodes \cup {None}]
          /\ \A m \in Nodes : rep'[m] = IF m = top.node THEN s ELSE rep[m]
        <3>1. top.node \in Nodes /\ s \in Nodes
            BY <1>1, <1>7, <2>6
        <3> QED BY <1>1, <2>5, <3>1, SetReps
    <2>8. rep'[top.node] = s
        BY <1>1, <1>7, <2>7
    <2> QED BY <1>5, <1>6, <2>2, <2>5, <2>6, <2>7, <2>8
<1> QED BY <1>9, <1>10

(***************************************************************************)
(* It keeps the invariant: the node reaches its new representative, which  *)
(* is still open.                                                          *)
(***************************************************************************)
LEMMA LowerStep ==
    ASSUME IInv, NEW w \in Nodes, lowerRep(w)
    PROVE  IInv'
<1> DEFINE last == Len(frames)
<1>1. /\ TypeOK /\ GraphOK
      /\ Path \subseteq visited /\ Waiting \subseteq visited /\ Tops \subseteq visited
      /\ inSCC \subseteq visited /\ visited \subseteq Nodes
      /\ Path \cap Final = {} /\ Tops \subseteq Final
      /\ \A n \in Nodes : D[n] \in Nat /\ subNodes[n] \subseteq visited
      /\ \A n \in visited : rep[n] \in visited
      /\ DOMAIN frames = 1..last /\ last \in Nat
      /\ \A i \in DOMAIN frames : frames[i].node \in Path
    BY Basics
<1>0. PICK v \in Nodes : v = top.node
    BY <1>1, TopType DEF lowerRep, Path
<1>2. /\ visited' = visited /\ I' = I /\ D' = D
      /\ graph' = graph /\ inSCC' = inSCC /\ SS' = SS /\ T' = T /\ roots' = roots /\ finds' = finds
    BY DEF lowerRep
<1>3. /\ frames # <<>> /\ last \in DOMAIN frames /\ top = frames[last]
      /\ v \in Path /\ v \in visited /\ v \in Nodes
    BY <1>0, <1>1, TopType DEF lowerRep, Path
<1>4. /\ w \in visited /\ w \in top.left /\ (top.child # {} => top.child = {w})
      /\ ~Closing
      /\ rep' \in [Nodes -> Nodes \cup {None}]
      /\ \A m \in Nodes \ {v} : rep'[m] = rep[m]
      /\ rep'[v] \in visited \ Final
      /\ D[rep'[v]] <= D[rep[v]]
      /\ rep'[v] \in ReachableFrom(v)
      /\ w \in Final \/ D[rep'[v]] <= D[rep[w]]
      /\ UNCHANGED <<rep, subNodes, repNodes>> \/ setRep(v, rep'[v])
    BY <1>0, Lowered
<1>5. /\ frames' \in Seq(FrameType) /\ Len(frames') = last
      /\ DOMAIN frames' = DOMAIN frames
      /\ \A i \in DOMAIN frames :
             /\ frames'[i].node = frames[i].node
             /\ frames'[i].left = IF i = last THEN top.left \ {w} ELSE frames[i].left
             /\ frames'[i].child = IF i = last THEN {} ELSE frames[i].child
    BY <1>1, <1>3, Advanced DEF lowerRep
<1>6. inSCC = Final /\ Path \cap inSCC = {}
    BY <1>4, NotClosing
<1>7. Tops' = Tops /\ Waiting' = Waiting /\ Path' = Path
    BY <1>2, <1>5 DEF Tops, Waiting, Path
<1>8. v \notin Final /\ rep'[v] \notin Tops
    BY <1>1, <1>3, <1>4
<1>9. Final' = Final
    BY <1>1, <1>2, <1>4, <1>7, <1>8 DEF Final
<1>10. \A i \in DOMAIN frames : frames[i].node = v => i = last
    BY <1>0, <1>1, <1>3 DEF IInv, PathInv
<1>11. /\ subNodes' \in [Nodes -> SUBSET Nodes] /\ repNodes' \in SUBSET Nodes
    <2>1. CASE UNCHANGED <<rep, subNodes, repNodes>>
        BY <1>1, <2>1 DEF TypeOK
    <2>2. CASE setRep(v, rep'[v])
        BY <1>1, <1>3, <1>4, <2>2, SetReps
    <2> QED BY <1>4, <2>1, <2>2
<1>12. TypeOK'
    BY <1>1, <1>2, <1>4, <1>5, <1>11 DEF TypeOK, FrameType
<1>13. ClockInv'
    BY <1>2 DEF IInv, ClockInv
<1>14. PathInv'
    <2>1. ASSUME NEW i \in DOMAIN frames
          PROVE  /\ frames'[i].node \in visited' \ Final'
                 /\ frames'[i].child \subseteq visited'
                 /\ frames'[i].child \subseteq frames'[i].left
                 /\ \A c, d \in frames'[i].child : c = d
                 /\ \A y \in frames'[i].left : <<frames'[i].node, y>> \in graph'
                 /\ i < Len(frames') => frames'[i].child = {frames'[i + 1].node}
                 /\ i < Len(frames') => frames'[i].node \notin inSCC'
        <3>1. CASE i = last
            BY <1>1, <1>2, <1>3, <1>5, <1>9, <3>1 DEF IInv, PathInv
        <3>2. CASE i # last
            <4>1. i + 1 \in DOMAIN frames
                BY <1>1, <3>2
            <4> QED BY <1>2, <1>5, <1>9, <3>2, <4>1 DEF IInv, PathInv
        <3> QED BY <3>1, <3>2
    <2>2. \A i, j \in DOMAIN frames : i < j => D'[frames'[i].node] < D'[frames'[j].node]
        BY <1>2, <1>5 DEF IInv, PathInv
    <2> QED BY <1>5, <2>1, <2>2 DEF PathInv
<1>15. OpenInv'
    BY <1>2, <1>6, <1>7, <1>9 DEF IInv, OpenInv
<1>16. StackInv'
    BY <1>2, <1>7 DEF IInv, StackInv
<1>17. \A x \in Nodes : ReachableFrom(x)' = ReachableFrom(x)
    BY <1>1, <1>2, ReachStays
<1>18. ReachInv'
    <2>1. Path \subseteq Nodes /\ Waiting \subseteq Nodes /\ roots \subseteq Nodes
        BY <1>1 DEF TypeOK
    <2>2. ReachInv
        BY DEF IInv
    <2>3. \A u \in Path' : \A n \in visited' : D'[u] <= D'[n] => n \in ReachableFrom(u)'
        BY <1>2, <1>7, <1>17, <2>1, <2>2 DEF ReachInv
    <2>4. \A x \in Waiting' : \E u \in Path' : D'[u] < D'[x] /\ u \in ReachableFrom(x)'
        BY <1>2, <1>7, <1>17, <2>1, <2>2 DEF ReachInv
    <2>5. \A n \in visited' : \E r \in roots' : n \in ReachableFrom(r)'
        BY <1>2, <1>7, <1>17, <2>1, <2>2 DEF ReachInv
    <2> QED BY <2>3, <2>4, <2>5 DEF ReachInv
<1>19. RepInv'
    <2>1. ASSUME NEW x \in visited
          PROVE  /\ rep'[x] \in visited /\ D[rep'[x]] <= D[x]
                 /\ rep'[x] \in ReachableFrom(x)
                 /\ rep'[x] \in Final => x \in Final
        <3>1. CASE x = v
            <4>1. D[rep[v]] <= D[v] /\ rep[v] \in visited
                BY <1>3 DEF IInv, RepInv
            <4> QED BY <1>1, <1>3, <1>4, <3>1, <4>1
        <3>2. CASE x # v
            BY <1>1, <1>4, <3>2 DEF IInv, RepInv
        <3> QED BY <3>1, <3>2
    <2>2. \A x \in Nodes \ visited : rep'[x] = None
        BY <1>3, <1>4 DEF IInv, RepInv
    <2>3. \A x \in visited : rep'[x] \in ReachableFrom(x)'
        BY <1>1, <1>17, <2>1
    <2> QED BY <1>2, <1>9, <2>1, <2>2, <2>3 DEF RepInv
<1>20. \A x \in Waiting : rep'[x] = rep[x] /\ x \in visited /\ rep[x] \in visited /\ x # v
    BY <1>1, <1>3, <1>4 DEF IInv, OpenInv
<1>21. LowInv'
    <2>1. ASSUME NEW i \in DOMAIN frames, NEW x \in Waiting, D[frames[i].node] < D[x]
          PROVE  \/ D[rep'[frames[i].node]] <= D[rep'[x]]
                 \/ \E c \in frames'[i].child : D[c] <= D[x]
        <3>1. \/ D[rep[frames[i].node]] <= D[rep[x]]
              \/ \E c \in frames[i].child : D[c] <= D[x]
            BY <2>1 DEF IInv, LowInv
        <3>2. CASE i # last
            <4>1. frames[i].node # v /\ frames[i].node \in Nodes
                BY <1>1, <1>10, <3>2
            <4> QED BY <1>4, <1>5, <1>20, <3>1, <3>2, <4>1
        <3>3. CASE i = last
            <4>1. frames[i].node = v /\ frames[i].child = top.child
                BY <1>0, <1>3, <3>3
            <4>2. CASE D[rep[v]] <= D[rep[x]]
                <5>1. D[rep'[v]] \in Nat /\ D[rep[v]] \in Nat /\ D[rep[x]] \in Nat
                    BY <1>1, <1>3, <1>4, <1>20
                <5> QED BY <1>4, <1>20, <4>1, <4>2, <5>1
            <4>3. CASE \E c \in top.child : D[c] <= D[x]
                <5>1. w \in top.child /\ D[w] <= D[x]
                    BY <1>4, <4>3
                <5>2. w \notin inSCC /\ D[rep[w]] <= D[rep[x]]
                    BY <1>3, <5>1 DEF IInv, LowInv
                <5>3. D[rep'[v]] \in Nat /\ D[rep[w]] \in Nat /\ D[rep[x]] \in Nat
                    BY <1>1, <1>4, <1>20
                <5> QED BY <1>4, <1>6, <1>20, <4>1, <5>2, <5>3
            <4> QED BY <3>1, <4>1, <4>2, <4>3
        <3> QED BY <3>2, <3>3
    <2>2. top' = frames'[last]
        BY <1>5 DEF top
    <2>3. top'.child = {}
        BY <1>3, <1>5, <2>2
    <2> QED BY <1>2, <1>5, <1>7, <2>1, <2>3 DEF LowInv
<1>22. EdgeInv'
    <2>1. ASSUME NEW e \in graph, e[1] \in visited \ Final,
                 \A i \in DOMAIN frames : frames[i].node = e[1] => e[2] \notin frames'[i].left
          PROVE  e[2] \in visited /\ (e[2] \in Final \/ D[rep'[e[1]]] <= D[e[2]])
        <3>1. CASE e[1] = v /\ e[2] = w
            <4>1. w \in visited /\ D[rep[w]] <= D[w] /\ rep[w] \in visited
                BY <1>4 DEF IInv, RepInv
            <4>2. D[rep'[v]] \in Nat /\ D[rep[w]] \in Nat /\ D[w] \in Nat
                BY <1>1, <1>4, <4>1
            <4> QED BY <1>4, <3>1, <4>1, <4>2
        <3>2. CASE ~(e[1] = v /\ e[2] = w)
            <4>1. \A i \in DOMAIN frames : frames[i].node = e[1] => e[2] \notin frames[i].left
                BY <1>0, <1>3, <1>5, <2>1, <3>2
            <4>2. e[2] \in visited /\ (e[2] \in Final \/ D[rep[e[1]]] <= D[e[2]])
                BY <2>1, <4>1 DEF IInv, EdgeInv
            <4>3. D[rep'[e[1]]] <= D[rep[e[1]]] /\ rep'[e[1]] \in visited /\ rep[e[1]] \in visited
                BY <1>1, <1>4, <2>1
            <4>4. D[rep'[e[1]]] \in Nat /\ D[rep[e[1]]] \in Nat /\ D[e[2]] \in Nat
                BY <1>1, <4>2, <4>3
            <4> QED BY <4>2, <4>3, <4>4
        <3> QED BY <3>1, <3>2
    <2>2. \A e \in graph : e[1] \in Final => e[2] \in Final
        BY DEF IInv, EdgeInv
    <2> QED BY <1>2, <1>5, <1>9, <2>1, <2>2 DEF EdgeInv
<1>23. SubInv'
    <2>1. CASE UNCHANGED <<rep, subNodes, repNodes>>
        BY <1>2, <1>7, <1>9, <2>1 DEF IInv, SubInv
    <2>2. CASE setRep(v, rep'[v])
        <3> PICK s \in visited \ Final : s = rep'[v]
            BY <1>4
        <3>0. SubInv
            BY DEF IInv
        <3>1. /\ setRep(v, s) /\ s \in visited /\ s \notin Final /\ rep'[v] = s
              /\ D[s] <= D[rep[v]] /\ s \in Nodes
            BY <1>1, <1>4, <2>2
        <3>2. /\ \A m \in Nodes : subNodes'[m] = IF m = s THEN subNodes[s] \cup {v}
                                                ELSE IF m = v THEN {} ELSE subNodes[m]
              /\ \A m \in Nodes : m \in repNodes' <=> IF v = s THEN m \in repNodes
                                                     ELSE m = s \/ (m \in repNodes /\ m # v)
            BY <1>1, <1>3, <3>1, SetReps
        <3>3. D[v] \in Nat /\ D[s] \in Nat /\ D[s] <= D[v]
            <4>1. D[rep[v]] <= D[v] /\ rep[v] \in visited
                BY <1>3 DEF IInv, RepInv
            <4> QED BY <1>1, <1>3, <3>1, <4>1
        <3>4. ASSUME NEW x \in visited, x \in inSCC \/ rep'[x] = x
              PROVE  x \in subNodes'[rep'[x]]
            <4>1. CASE x = v
                <5>1. s = v
                    BY <1>3, <1>6, <3>1, <3>4, <4>1
                <5> QED BY <1>3, <3>1, <3>2, <4>1, <5>1
            <4>2. CASE x # v
                <5>1. rep'[x] = rep[x] /\ rep[x] \in Nodes
                    BY <1>1, <1>4, <4>2
                <5>2. x \in subNodes[rep[x]]
                    BY <3>0, <3>4, <5>1 DEF SubInv
                <5>3. rep[x] # v
                    <6>1. CASE x \in inSCC
                        BY <1>1, <1>6, <1>8, <6>1 DEF Final
                    <6>2. CASE rep'[x] = x
                        BY <4>2, <5>1, <6>2
                    <6> QED BY <3>4, <6>1, <6>2
                <5> QED BY <3>2, <5>1, <5>2, <5>3
            <4> QED BY <4>1, <4>2
        <3>5. \A r \in Nodes : subNodes'[r] \subseteq visited /\ (r \notin visited => subNodes'[r] = {})
            BY <1>3, <3>0, <3>1, <3>2 DEF SubInv
        <3>6. ASSUME NEW r \in visited \ Final, NEW x \in subNodes'[r]
              PROVE  x \notin Final /\ D[rep'[x]] <= D[r] /\ D[r] <= D[x]
            <4>1. CASE x = v
                <5>1. CASE r = s
                    BY <1>8, <3>1, <3>3, <4>1, <5>1
                <5>2. CASE r # s
                    <6>1. v \in subNodes[r]
                        BY <1>1, <3>2, <3>6, <4>1, <5>2
                    <6>2. D[rep[v]] <= D[r] /\ D[r] <= D[v]
                        BY <3>0, <6>1 DEF SubInv
                    <6>3. D[rep[v]] \in Nat /\ D[r] \in Nat
                        BY <1>1, <1>3
                    <6> QED BY <1>8, <3>1, <3>3, <4>1, <6>2, <6>3
                <5> QED BY <5>1, <5>2
            <4>2. CASE x # v
                <5>1. x \in subNodes[r]
                    BY <1>1, <3>2, <3>6, <4>2
                <5>2. x \in Nodes /\ rep'[x] = rep[x]
                    BY <1>1, <1>4, <4>2, <5>1
                <5> QED BY <3>0, <5>1, <5>2 DEF SubInv
            <4> QED BY <4>1, <4>2
        <3>7. ASSUME NEW r \in inSCC, rep'[r] # r PROVE subNodes'[r] = {}
            <4>1. r # v /\ r # s /\ r \in Nodes
                BY <1>1, <1>6, <1>8, <3>1
            <4> QED BY <1>4, <3>0, <3>2, <3>7, <4>1 DEF SubInv
        <3>8. ASSUME NEW r \in Tops
              PROVE  r \in visited /\ rep'[r] = r /\ \A x \in subNodes'[r] : rep'[x] = r
            <4>1. r # v /\ r # s /\ r \in Nodes /\ r \in Final
                BY <1>1, <1>8, <3>1
            <4>2. rep'[r] = rep[r] /\ subNodes'[r] = subNodes[r]
                BY <1>4, <3>2, <4>1
            <4>3. r \in visited /\ rep[r] = r /\ \A x \in subNodes[r] : rep[x] = r
                BY <3>0 DEF SubInv
            <4>4. v \notin subNodes[r]
                BY <1>3, <1>8, <4>1, <4>3 DEF Final
            <4> QED BY <1>1, <1>4, <4>1, <4>2, <4>3, <4>4
        <3>9. \A r \in Nodes : r \in repNodes' <=> \E x \in subNodes'[r] : x # r
            <4> SUFFICES ASSUME NEW r \in Nodes PROVE r \in repNodes' <=> \E x \in subNodes'[r] : x # r
                OBVIOUS
            <4>1. r \in repNodes <=> \E x \in subNodes[r] : x # r
                BY <3>0 DEF SubInv
            <4>2. CASE v = s
                BY <3>2, <4>1, <4>2
            <4>3. CASE v # s
                BY <3>2, <4>1, <4>3
            <4> QED BY <4>2, <4>3
        <3> QED BY <1>2, <1>7, <1>9, <3>4, <3>5, <3>6, <3>7, <3>8, <3>9 DEF SubInv
    <2> QED BY <1>4, <2>1, <2>2
<1>24. FinalInv'
    <2>1. \A n \in Final : rep'[n] = rep[n]
        BY <1>1, <1>4, <1>8 DEF Final
    <2>2. \A n \in Nodes : rep'[n] \in Tops => rep'[n] = rep[n]
        BY <1>4, <1>8
    <2> QED BY <1>2, <1>4, <1>9, <2>1, <2>2, FinalKept
<1> QED BY <1>12, <1>13, <1>14, <1>15, <1>16, <1>18, <1>19, <1>21, <1>22, <1>23, <1>24 DEF IInv

-----------------------------------------------------------------------------
(* A visit ends.                                                           *)

(***************************************************************************)
(* The node whose visit ends is that of the innermost call.                *)
(***************************************************************************)
LEMMA DoneFacts ==
    ASSUME IInv, NEW v \in Nodes, Done(v)
    PROVE  /\ frames # <<>> /\ Len(frames) \in DOMAIN frames /\ top = frames[Len(frames)]
           /\ top.node = v /\ top.left = {} /\ top.child = {}
           /\ v \in Path /\ v \in visited \ Final /\ v \notin Waiting
           /\ \A i \in DOMAIN frames : i # Len(frames) => /\ frames[i].node # v
                                                         /\ D[frames[i].node] < D[v]
           /\ \A u \in Path : u # v => D[u] < D[v]
           /\ \A e \in graph : e[1] = v => e[2] \in visited /\ (e[2] \in Final \/ D[rep[v]] <= D[e[2]])
<1>1. /\ frames # <<>> /\ Len(frames) \in DOMAIN frames /\ top = frames[Len(frames)]
      /\ top.node = v /\ top.left = {} /\ top.child = {}
    BY Basics, TopType DEF Done
<1>2. v \in Path /\ v \in visited \ Final /\ v \notin Waiting
    BY <1>1, Basics DEF IInv, OpenInv, Path
<1>3. ASSUME NEW i \in DOMAIN frames, i # Len(frames)
      PROVE  frames[i].node # v /\ D[frames[i].node] < D[v]
    <2>1. i < Len(frames)
        BY <1>3, Basics
    <2>2. D[frames[i].node] < D[v]
        BY <1>1, <2>1 DEF IInv, PathInv
    <2>3. D[v] \in Nat
        BY <1>2, Basics
    <2> QED BY <2>2, <2>3
<1>4. \A u \in Path : u # v => D[u] < D[v]
    BY <1>1, <1>3 DEF Path
<1>5. ASSUME NEW e \in graph, e[1] = v
      PROVE  e[2] \in visited /\ (e[2] \in Final \/ D[rep[v]] <= D[e[2]])
    BY <1>1, <1>2, <1>3, <1>5 DEF IInv, EdgeInv
<1> QED BY <1>1, <1>2, <1>3, <1>4, <1>5

(***************************************************************************)
(* A node that reaches an older open one waits: it reaches a call further  *)
(* out, and those that reached it do too.                                  *)
(***************************************************************************)
LEMMA LeaveStep ==
    ASSUME IInv, NEW v \in Nodes, leaveOpen(v)
    PROVE  IInv'
<1> DEFINE last == Len(frames)
<1>1. /\ TypeOK /\ GraphOK
      /\ Path \subseteq visited /\ Waiting \subseteq visited /\ Tops \subseteq visited
      /\ inSCC \subseteq visited /\ visited \subseteq Nodes
      /\ Path \cap Final = {} /\ Tops \subseteq Final
      /\ \A n \in Nodes : D[n] \in Nat /\ subNodes[n] \subseteq visited
      /\ \A n \in visited : rep[n] \in visited
      /\ DOMAIN frames = 1..last /\ last \in Nat
      /\ \A i \in DOMAIN frames : frames[i].node \in Path
    BY Basics
<1>2. /\ visited' = visited /\ I' = I /\ D' = D /\ rep' = rep /\ subNodes' = subNodes /\ repNodes' = repNodes
      /\ graph' = graph /\ inSCC' = inSCC /\ T' = T /\ roots' = roots /\ finds' = finds
      /\ Done(v) /\ rep[v] # v
    BY DEF leaveOpen, infoVars
<1>3. /\ frames # <<>> /\ last \in DOMAIN frames /\ top = frames[last]
      /\ top.node = v /\ top.left = {} /\ top.child = {}
      /\ v \in Path /\ v \in visited \ Final /\ v \notin Waiting
      /\ \A i \in DOMAIN frames : i # last => frames[i].node # v /\ D[frames[i].node] < D[v]
      /\ \A u \in Path : u # v => D[u] < D[v]
    BY <1>2, DoneFacts
<1>4. /\ frames' \in Seq(FrameType) /\ Len(frames') = last - 1
      /\ DOMAIN frames' = 1..(last - 1)
      /\ \A i \in DOMAIN frames' : i \in DOMAIN frames /\ i < last /\ frames'[i] = frames[i]
    BY <1>1, <1>3, Returned DEF leaveOpen
<1>5. /\ SS' \in Seq(Nodes) /\ Len(SS) \in Nat
      /\ DOMAIN SS' = 1..(Len(SS) + 1) /\ DOMAIN SS = 1..Len(SS)
      /\ SS'[Len(SS) + 1] = v
      /\ \A a \in DOMAIN SS : SS'[a] = SS[a]
    BY <1>1, Stacked DEF leaveOpen
<1>6. \A i \in DOMAIN frames : i \in DOMAIN frames' \/ i = last
    BY <1>1, <1>4
<1>7. Path' = Path \ {v}
    BY <1>3, <1>4, <1>6 DEF Path
<1>8. Waiting' = Waiting \cup {v}
    <2>1. \A a \in DOMAIN SS' : a \in DOMAIN SS \/ a = Len(SS) + 1
        BY <1>5
    <2>2. \A a \in DOMAIN SS : a \in DOMAIN SS'
        BY <1>5
    <2>3. Len(SS) + 1 \in DOMAIN SS'
        BY <1>5
    <2> QED BY <1>5, <2>1, <2>2, <2>3 DEF Waiting
<1>9. Tops' = Tops /\ Final' = Final
    BY <1>2 DEF Tops, Final
<1>10. ~Closing
    BY <1>2, <1>3 DEF Closing
<1>11. inSCC = Final /\ Path \cap inSCC = {} /\ visited = Path \cup Waiting \cup Final
    BY <1>10, NotClosing
<1>12. rep[v] \in visited \ Final /\ D[rep[v]] < D[v] /\ rep[v] \in ReachableFrom(v)
    <2>1. rep[v] \in visited \ Final /\ D[rep[v]] <= D[v] /\ rep[v] \in ReachableFrom(v)
        BY <1>3 DEF IInv, RepInv
    <2>2. D[rep[v]] # D[v]
        BY <1>2, <1>3, <2>1 DEF IInv, ClockInv
    <2> QED BY <1>1, <1>3, <2>1, <2>2
<1>13. TypeOK'
    BY <1>1, <1>2, <1>4, <1>5 DEF TypeOK, FrameType
<1>14. ClockInv'
    BY <1>2 DEF IInv, ClockInv
<1>15. PathInv'
    <2>1. ASSUME NEW i \in DOMAIN frames'
          PROVE  /\ frames'[i].node \in visited' \ Final'
                 /\ frames'[i].child \subseteq visited'
                 /\ frames'[i].child \subseteq frames'[i].left
                 /\ \A c, d \in frames'[i].child : c = d
                 /\ \A y \in frames'[i].left : <<frames'[i].node, y>> \in graph'
                 /\ i < Len(frames') => frames'[i].child = {frames'[i + 1].node}
                 /\ i < Len(frames') => frames'[i].node \notin inSCC'
        <3>1. i \in DOMAIN frames /\ i < last /\ frames'[i] = frames[i]
            BY <1>4
        <3>2. i < Len(frames') => i + 1 \in DOMAIN frames' /\ frames'[i + 1] = frames[i + 1]
            BY <1>1, <1>4
        <3> QED BY <1>2, <1>9, <3>1, <3>2 DEF IInv, PathInv
    <2>2. \A i, j \in DOMAIN frames' : i < j => D'[frames'[i].node] < D'[frames'[j].node]
        BY <1>2, <1>4 DEF IInv, PathInv
    <2> QED BY <2>1, <2>2 DEF PathInv
<1>16. OpenInv'
    BY <1>2, <1>3, <1>7, <1>8, <1>9, <1>11 DEF IInv, OpenInv
<1>17. StackInv'
    <2>1. \A a \in DOMAIN SS' : a \in DOMAIN SS \/ a = Len(SS) + 1
        BY <1>5
    <2>2. \A a \in DOMAIN SS : SS[a] \in Waiting /\ SS'[a] = SS[a] /\ a <= Len(SS)
        BY <1>5 DEF Waiting
    <2>3. ASSUME NEW a \in DOMAIN SS', NEW b \in DOMAIN SS', SS'[a] = SS'[b]
          PROVE  a = b
        BY <1>3, <1>5, <2>1, <2>2, <2>3 DEF IInv, StackInv
    <2>4. ASSUME NEW u \in Path', NEW a \in DOMAIN SS', NEW b \in DOMAIN SS', a < b,
                 D[u] < D[SS'[a]]
          PROVE  D[u] < D[SS'[b]]
        <3>1. CASE b = Len(SS) + 1
            BY <1>3, <1>5, <1>7, <3>1
        <3>2. CASE b \in DOMAIN SS
            <4>1. a \in DOMAIN SS
                BY <1>5, <2>1, <2>4, <3>2
            <4> QED BY <1>7, <2>2, <2>4, <3>2, <4>1 DEF IInv, StackInv
        <3> QED BY <2>1, <3>1, <3>2
    <2> QED BY <1>2, <2>3, <2>4 DEF StackInv
<1>18. \A x \in Nodes : ReachableFrom(x)' = ReachableFrom(x)
    BY <1>1, <1>2, ReachStays
<1>19. Path \subseteq Nodes /\ Waiting \subseteq Nodes /\ roots \subseteq Nodes
    BY <1>1 DEF TypeOK
<1>20. ReachInv'
    <2>1. ReachInv
        BY DEF IInv
    <2>2. \E u \in Path' : D[u] < D[v] /\ u \in ReachableFrom(v)
        <3>1. CASE rep[v] \in Path
            BY <1>2, <1>7, <1>12, <3>1
        <3>2. CASE rep[v] \in Waiting
            <4>1. PICK u \in Path : D[u] < D[rep[v]] /\ u \in ReachableFrom(rep[v])
                BY <2>1, <3>2 DEF ReachInv
            <4>2. D[u] \in Nat /\ D[v] \in Nat /\ D[rep[v]] \in Nat
                BY <1>1, <1>12, <1>19
            <4>3. D[u] < D[v]
                BY <1>12, <4>1, <4>2
            <4>4. u # v
                BY <4>2, <4>3
            <4>5. u \in ReachableFrom(v)
                BY <1>1, <1>12, <4>1, ReachRules
            <4> QED BY <1>7, <4>3, <4>4, <4>5
        <3> QED BY <1>11, <1>12, <3>1, <3>2
    <2>3. ASSUME NEW x \in Waiting PROVE \E u \in Path' : D[u] < D[x] /\ u \in ReachableFrom(x)
        <3>1. PICK u \in Path : D[u] < D[x] /\ u \in ReachableFrom(x)
            BY <2>1 DEF ReachInv
        <3>2. CASE u # v
            BY <1>7, <3>1, <3>2
        <3>3. CASE u = v
            <4>1. PICK p \in Path' : D[p] < D[v] /\ p \in ReachableFrom(v)
                BY <2>2
            <4>2. p \in ReachableFrom(x)
                BY <1>1, <1>19, <3>1, <3>3, <4>1, ReachRules
            <4>3. D[p] \in Nat /\ D[v] \in Nat /\ D[x] \in Nat
                BY <1>1, <1>7, <1>19
            <4> QED BY <3>1, <3>3, <4>1, <4>2, <4>3
        <3> QED BY <3>2, <3>3
    <2>4. \A u \in Path' : \A n \in visited' : D'[u] <= D'[n] => n \in ReachableFrom(u)'
        BY <1>2, <1>7, <1>18, <1>19, <2>1 DEF ReachInv
    <2>5. \A x \in Waiting' : \E u \in Path' : D'[u] < D'[x] /\ u \in ReachableFrom(x)'
        BY <1>2, <1>8, <1>18, <1>19, <2>2, <2>3
    <2>6. \A n \in visited' : \E r \in roots' : n \in ReachableFrom(r)'
        BY <1>2, <1>18, <1>19, <2>1 DEF ReachInv
    <2> QED BY <2>4, <2>5, <2>6 DEF ReachInv
<1>21. RepInv'
    <2>1. \A x \in visited : rep[x] \in ReachableFrom(x)'
        BY <1>1, <1>18 DEF IInv, RepInv
    <2> QED BY <1>2, <1>9, <2>1 DEF IInv, RepInv
<1>22. \A x \in Waiting \cup {v} : D[v] <= D[x] => D[rep[v]] <= D[rep[x]]
    <2>1. ASSUME NEW x \in Waiting, D[v] <= D[x] PROVE D[rep[v]] <= D[rep[x]]
        <3>1. D[v] # D[x]
            BY <1>1, <1>3, <2>1 DEF IInv, ClockInv
        <3>2. D[v] < D[x]
            BY <1>1, <1>19, <2>1, <3>1
        <3> QED BY <1>3, <3>2 DEF IInv, LowInv
    <2> QED BY <1>1, <1>3, <2>1
<1>23. LowInv'
    <2>1. ASSUME NEW i \in DOMAIN frames', NEW x \in Waiting \cup {v}, D[frames'[i].node] < D[x]
          PROVE  \/ D[rep[frames'[i].node]] <= D[rep[x]]
                 \/ \E c \in frames'[i].child : D[c] <= D[x]
        <3>1. i \in DOMAIN frames /\ i < last /\ frames'[i] = frames[i]
            BY <1>4
        <3>2. CASE x \in Waiting
            BY <2>1, <3>1, <3>2 DEF IInv, LowInv
        <3>3. CASE x = v
            <4>1. frames[i].child = {frames[i + 1].node} /\ i + 1 \in DOMAIN frames
                BY <1>1, <3>1 DEF IInv, PathInv
            <4>2. frames[i + 1].node = v \/ D[frames[i + 1].node] < D[v]
                BY <1>3, <4>1
            <4>3. D[frames[i + 1].node] \in Nat /\ D[v] \in Nat
                BY <1>1, <1>19, <4>1
            <4>4. D[frames[i + 1].node] <= D[v]
                BY <4>2, <4>3
            <4> QED BY <3>1, <3>3, <4>1, <4>4
        <3> QED BY <3>2, <3>3
    <2>2. ASSUME frames' # <<>>, NEW c \in top'.child, NEW x \in Waiting', D'[c] <= D'[x]
          PROVE  c \notin inSCC' /\ D'[rep'[c]] <= D'[rep'[x]]
        <3>1. Len(frames') \in DOMAIN frames' /\ last - 1 \in DOMAIN frames /\ last - 1 < last
            BY <1>1, <1>4, <2>2
        <3>2. top' = frames[last - 1]
            BY <1>4, <3>1 DEF top
        <3>3. top'.child = {v}
            BY <1>1, <1>3, <3>1, <3>2 DEF IInv, PathInv
        <3> QED BY <1>2, <1>3, <1>8, <1>11, <1>22, <2>2, <3>3
    <2> QED BY <1>2, <1>8, <2>1, <2>2 DEF LowInv
<1>24. EdgeInv'
    <2>1. ASSUME NEW e \in graph, e[1] \in visited \ Final,
                 \A i \in DOMAIN frames' : frames'[i].node = e[1] => e[2] \notin frames'[i].left
          PROVE  e[2] \in visited /\ (e[2] \in Final \/ D[rep[e[1]]] <= D[e[2]])
        <3>1. \A i \in DOMAIN frames : frames[i].node = e[1] => e[2] \notin frames[i].left
            BY <1>3, <1>4, <1>6, <2>1
        <3> QED BY <2>1, <3>1 DEF IInv, EdgeInv
    <2>2. \A e \in graph : e[1] \in Final => e[2] \in Final
        BY DEF IInv, EdgeInv
    <2> QED BY <1>2, <1>9, <2>1, <2>2 DEF EdgeInv
<1>25. SubInv'
    BY <1>2, <1>9 DEF IInv, SubInv
<1>26. FinalInv'
    <2>1. rep' \in [Nodes -> Nodes \cup {None}]
        BY <1>1, <1>2 DEF TypeOK
    <2> QED BY <1>2, <1>9, <2>1, FinalKept
<1> QED BY <1>13, <1>14, <1>15, <1>16, <1>17, <1>20, <1>21, <1>23, <1>24, <1>25, <1>26 DEF IInv

(***************************************************************************)
(* A node that reaches nothing older takes a younger one off SS into its   *)
(* component: the two reach each other.                                    *)
(***************************************************************************)
LEMMA PopStep ==
    ASSUME IInv, NEW v \in Nodes, popSS(v)
    PROVE  IInv'
<1> DEFINE last == Len(frames)
<1>1. /\ TypeOK /\ GraphOK
      /\ Path \subseteq visited /\ Waiting \subseteq visited /\ Tops \subseteq visited
      /\ inSCC \subseteq visited /\ visited \subseteq Nodes /\ Final \subseteq inSCC
      /\ Path \cap Final = {} /\ Tops \subseteq Final
      /\ \A n \in Nodes : D[n] \in Nat /\ subNodes[n] \subseteq visited
      /\ \A n \in visited : rep[n] \in visited
      /\ DOMAIN frames = 1..last /\ last \in Nat
      /\ \A i \in DOMAIN frames : frames[i].node \in Path
    BY Basics
<1>2. Done(v) /\ rep[v] = v /\ SS # <<>> /\ D[SS[Len(SS)]] > D[v] /\ SS' = Pop(SS)
    BY DEF popSS, HasYounger
<1>3. /\ SS' \in Seq(Nodes) /\ Len(SS') = Len(SS) - 1 /\ Len(SS) \in DOMAIN SS
      /\ DOMAIN SS' = 1..(Len(SS) - 1) /\ SS[Len(SS)] \in Nodes
      /\ \A a \in DOMAIN SS' : a \in DOMAIN SS /\ a < Len(SS) /\ SS'[a] = SS[a]
      /\ \A a \in DOMAIN SS : a \in DOMAIN SS' \/ a = Len(SS)
    BY <1>1, <1>2, Unstacked
<1>4. PICK w \in Nodes : w = SS[Len(SS)]
    BY <1>3
<1>5. /\ visited' = visited /\ I' = I /\ D' = D /\ frames' = frames
      /\ graph' = graph /\ T' = T /\ roots' = roots /\ finds' = finds
      /\ inSCC' = inSCC \cup {v, w} /\ setRep(w, v)
    BY <1>4 DEF popSS
<1>6. /\ frames # <<>> /\ last \in DOMAIN frames /\ top = frames[last]
      /\ top.node = v /\ top.left = {} /\ top.child = {}
      /\ v \in Path /\ v \in visited \ Final /\ v \notin Waiting
      /\ \A i \in DOMAIN frames : i # last => frames[i].node # v /\ D[frames[i].node] < D[v]
      /\ \A u \in Path : u # v => D[u] < D[v]
    BY <1>2, DoneFacts
<1>7. w \in Waiting /\ w \in visited /\ w \notin Path /\ w \notin inSCC /\ w \notin Final /\ w # v /\ D[v] < D[w]
    <2>1. w \in Waiting
        BY <1>3, <1>4 DEF Waiting
    <2>2. D[v] < D[w]
        BY <1>1, <1>2, <1>4
    <2> QED BY <1>1, <1>6, <2>1, <2>2 DEF IInv, OpenInv
<1>8. /\ rep' \in [Nodes -> Nodes \cup {None}] /\ subNodes' \in [Nodes -> SUBSET Nodes]
      /\ repNodes' \in SUBSET Nodes
      /\ \A m \in Nodes : rep'[m] = IF m = w THEN v ELSE rep[m]
      /\ \A m \in Nodes : subNodes'[m] = IF m = v THEN subNodes[v] \cup {w}
                                        ELSE IF m = w THEN {} ELSE subNodes[m]
      /\ \A m \in Nodes : m \in repNodes' <=> IF w = v THEN m \in repNodes
                                             ELSE m = v \/ (m \in repNodes /\ m # w)
    BY <1>1, <1>5, SetReps
<1>9. Tops' = Tops /\ Path' = Path
    BY <1>5 DEF Tops, Path
<1>10. Waiting' = Waiting \ {w}
    <2>1. ASSUME NEW a \in DOMAIN SS' PROVE SS'[a] \in Waiting \ {w}
        <3>1. a \in DOMAIN SS /\ a # Len(SS) /\ SS'[a] = SS[a]
            BY <1>3
        <3> QED BY <1>3, <1>4, <3>1 DEF IInv, StackInv, Waiting
    <2>2. ASSUME NEW x \in Waiting \ {w} PROVE \E a \in DOMAIN SS' : SS'[a] = x
        BY <1>3, <1>4 DEF Waiting
    <2> QED BY <2>1, <2>2 DEF Waiting
<1>11. v \notin Tops
    BY <1>1, <1>6
<1>12. Final' = Final
    BY <1>1, <1>5, <1>7, <1>8, <1>9, <1>11 DEF Final
<1>13. \A x \in visited : x # w => rep'[x] = rep[x]
    BY <1>1, <1>8
<1>14. rep'[w] = v /\ rep'[v] = v
    BY <1>2, <1>7, <1>8
<1>15. TypeOK'
    BY <1>1, <1>3, <1>5, <1>6, <1>7, <1>8 DEF TypeOK
<1>16. ClockInv'
    BY <1>5 DEF IInv, ClockInv
<1>17. PathInv'
    <2>1. ASSUME NEW i \in DOMAIN frames, i < last PROVE frames[i].node \notin inSCC'
        BY <1>1, <1>5, <1>6, <1>7, <2>1 DEF IInv, PathInv
    <2> QED BY <1>5, <1>12, <2>1 DEF IInv, PathInv
<1>18. top' = top
    BY <1>5 DEF top
<1>19. Closing'
    BY <1>5, <1>6, <1>14, <1>18 DEF Closing
<1>20. OpenInv'
    <2>1. visited' = Path' \cup Waiting' \cup inSCC'
        BY <1>5, <1>6, <1>7, <1>9, <1>10 DEF IInv, OpenInv
    <2>2. Waiting' \cap (Path' \cup inSCC') = {}
        BY <1>5, <1>6, <1>9, <1>10 DEF IInv, OpenInv
    <2>3. ASSUME NEW x \in inSCC \ Final PROVE rep'[x] = v /\ D[v] <= D[x]
        BY <1>1, <1>6, <1>7, <1>13 DEF IInv, OpenInv
    <2>4. \A x \in inSCC' \ Final' : rep'[x] = v /\ D[v] <= D[x]
        BY <1>1, <1>5, <1>6, <1>7, <1>12, <1>14, <2>3
    <2> QED BY <1>1, <1>5, <1>6, <1>12, <1>18, <1>19, <2>1, <2>2, <2>4 DEF OpenInv
<1>21. StackInv'
    BY <1>3, <1>5, <1>9 DEF IInv, StackInv
<1>22. \A x \in Nodes : ReachableFrom(x)' = ReachableFrom(x)
    BY <1>1, <1>5, ReachStays
<1>23. Path \subseteq Nodes /\ Waiting \subseteq Nodes /\ roots \subseteq Nodes
    BY <1>1 DEF TypeOK
<1>24. ReachInv'
    <2>1. ReachInv
        BY DEF IInv
    <2>2. \A u \in Path' : \A n \in visited' : D'[u] <= D'[n] => n \in ReachableFrom(u)'
        BY <1>5, <1>9, <1>22, <1>23, <2>1 DEF ReachInv
    <2>3. \A x \in Waiting' : \E u \in Path' : D'[u] < D'[x] /\ u \in ReachableFrom(x)'
        BY <1>5, <1>9, <1>10, <1>22, <1>23, <2>1 DEF ReachInv
    <2>4. \A n \in visited' : \E r \in roots' : n \in ReachableFrom(r)'
        BY <1>5, <1>22, <1>23, <2>1 DEF ReachInv
    <2> QED BY <2>2, <2>3, <2>4 DEF ReachInv
<1>25. v \in ReachableFrom(w)
    <2>1. PICK u \in Path : D[u] < D[w] /\ u \in ReachableFrom(w)
        BY <1>7 DEF IInv, ReachInv
    <2>2. D[u] <= D[v]
        BY <1>1, <1>6, <1>23
    <2>3. v \in ReachableFrom(u)
        BY <1>6, <2>2 DEF IInv, ReachInv
    <2> QED BY <1>1, <2>1, <2>3, ReachRules
<1>26. RepInv'
    <2>1. ASSUME NEW x \in visited
          PROVE  /\ rep'[x] \in visited /\ D[rep'[x]] <= D[x]
                 /\ rep'[x] \in ReachableFrom(x)
                 /\ rep'[x] \in Final => x \in Final
        <3>1. CASE x = w
            BY <1>1, <1>6, <1>7, <1>14, <1>25, <3>1
        <3>2. CASE x # w
            BY <1>13, <3>2 DEF IInv, RepInv
        <3> QED BY <3>1, <3>2
    <2>2. \A x \in Nodes \ visited : rep'[x] = None
        BY <1>7, <1>8 DEF IInv, RepInv
    <2>3. \A x \in visited : rep'[x] \in ReachableFrom(x)'
        BY <1>1, <1>22, <2>1
    <2> QED BY <1>5, <1>12, <2>1, <2>2, <2>3 DEF RepInv
<1>27. LowInv'
    <2>1. \A i \in DOMAIN frames : frames[i].node \in visited /\ frames[i].node # w
        BY <1>1, <1>7
    <2>2. \A x \in Waiting' : x \in Waiting /\ x \in visited /\ x # w
        BY <1>1, <1>10
    <2>3. \A i \in DOMAIN frames : \A x \in Waiting' :
              D[frames[i].node] < D[x] =>
                  \/ D[rep'[frames[i].node]] <= D[rep'[x]]
                  \/ \E c \in frames[i].child : D[c] <= D[x]
        BY <1>13, <2>1, <2>2 DEF IInv, LowInv
    <2> QED BY <1>5, <1>6, <1>18, <2>3 DEF LowInv
<1>28. D[v] <= D[rep[w]] /\ D[rep[w]] \in Nat /\ D[v] \in Nat /\ D[w] \in Nat
    <2>1. D[rep[v]] <= D[rep[w]]
        BY <1>6, <1>7 DEF IInv, LowInv
    <2> QED BY <1>1, <1>2, <1>7, <2>1
<1>29. EdgeInv'
    <2>1. ASSUME NEW e \in graph, e[1] \in visited \ Final,
                 \A i \in DOMAIN frames : frames[i].node = e[1] => e[2] \notin frames[i].left
          PROVE  e[2] \in visited /\ (e[2] \in Final \/ D[rep'[e[1]]] <= D[e[2]])
        <3>1. e[2] \in visited /\ (e[2] \in Final \/ D[rep[e[1]]] <= D[e[2]])
            BY <2>1 DEF IInv, EdgeInv
        <3>2. CASE e[1] = w
            <4>1. D[e[2]] \in Nat
                BY <1>1, <3>1
            <4> QED BY <1>14, <1>28, <3>1, <3>2, <4>1
        <3>3. CASE e[1] # w
            BY <1>13, <2>1, <3>1, <3>3
        <3> QED BY <3>2, <3>3
    <2>2. \A e \in graph : e[1] \in Final => e[2] \in Final
        BY DEF IInv, EdgeInv
    <2> QED BY <1>5, <1>12, <2>1, <2>2 DEF EdgeInv
<1>30. SubInv'
    <2>0. SubInv
        BY DEF IInv
    <2>1. ASSUME NEW x \in visited, x \in inSCC' \/ rep'[x] = x PROVE x \in subNodes'[rep'[x]]
        <3>1. CASE x = w
            BY <1>1, <1>6, <1>8, <1>14, <3>1
        <3>2. CASE x # w
            <4>1. rep'[x] = rep[x] /\ rep[x] \in Nodes
                BY <1>1, <1>13, <3>2
            <4>2. x \in subNodes[rep[x]]
                BY <1>2, <1>5, <2>0, <2>1, <3>2, <4>1 DEF SubInv
            <4>3. rep[x] # w
                <5>1. CASE x \in Final
                    BY <1>1, <1>7, <5>1 DEF Final
                <5>2. CASE x \in inSCC \ Final
                    BY <1>6, <1>7, <5>2 DEF IInv, OpenInv
                <5>3. CASE x \notin inSCC
                    BY <1>2, <1>5, <1>7, <2>1, <3>2, <4>1, <5>3
                <5> QED BY <5>1, <5>2, <5>3
            <4> QED BY <1>8, <4>1, <4>2, <4>3
        <3> QED BY <3>1, <3>2
    <2>2. \A r \in Nodes : subNodes'[r] \subseteq visited /\ (r \notin visited => subNodes'[r] = {})
        BY <1>6, <1>7, <1>8, <2>0 DEF SubInv
    <2>3. ASSUME NEW r \in visited \ Final, NEW x \in subNodes'[r]
          PROVE  x \notin Final /\ D[rep'[x]] <= D[r] /\ D[r] <= D[x]
        <3>1. CASE r = v /\ x = w
            BY <1>7, <1>14, <1>28, <3>1
        <3>2. CASE ~(r = v /\ x = w)
            <4>1. x \in subNodes[r]
                BY <1>1, <1>8, <2>3, <3>2
            <4>2. x \notin Final /\ D[rep[x]] <= D[r] /\ D[r] <= D[x]
                BY <2>0, <4>1 DEF SubInv
            <4>3. CASE x = w
                <5>1. D[r] \in Nat
                    BY <1>1
                <5> QED BY <1>14, <1>28, <4>2, <4>3, <5>1
            <4>4. CASE x # w
                <5>1. x \in visited
                    BY <1>1, <4>1
                <5> QED BY <1>13, <4>2, <4>4, <5>1
            <4> QED BY <4>3, <4>4
        <3> QED BY <3>1, <3>2
    <2>4. ASSUME NEW r \in inSCC', rep'[r] # r PROVE subNodes'[r] = {}
        <3>1. r # v /\ (r = w \/ r \in inSCC)
            BY <1>5, <1>14, <2>4
        <3>2. CASE r = w
            BY <1>7, <1>8, <3>2
        <3>3. CASE r # w
            <4>1. r \in inSCC /\ rep[r] # r /\ r \in Nodes
                BY <1>1, <1>13, <2>4, <3>1, <3>3
            <4> QED BY <1>8, <2>0, <3>1, <3>3, <4>1 DEF SubInv
        <3> QED BY <3>2, <3>3
    <2>5. ASSUME NEW r \in Tops
          PROVE  r \in visited /\ rep'[r] = r /\ \A x \in subNodes'[r] : rep'[x] = r
        <3>1. r \in visited /\ rep[r] = r /\ \A x \in subNodes[r] : rep[x] = r
            BY <2>0 DEF SubInv
        <3>2. r # v /\ r # w /\ r \in Nodes
            BY <1>1, <1>7, <1>11
        <3>3. subNodes'[r] = subNodes[r] /\ subNodes[r] \subseteq visited
            BY <1>1, <1>8, <3>2
        <3>4. w \notin subNodes[r]
            BY <1>7, <3>1 DEF Final
        <3> QED BY <1>13, <3>1, <3>2, <3>3, <3>4
    <2>6. \A r \in Nodes : r \in repNodes' <=> \E x \in subNodes'[r] : x # r
        <3> SUFFICES ASSUME NEW r \in Nodes PROVE r \in repNodes' <=> \E x \in subNodes'[r] : x # r
            OBVIOUS
        <3>1. r \in repNodes <=> \E x \in subNodes[r] : x # r
            BY <2>0 DEF SubInv
        <3> QED BY <1>7, <1>8, <3>1
    <2> QED BY <1>5, <1>9, <1>12, <2>1, <2>2, <2>3, <2>4, <2>5, <2>6 DEF SubInv
<1>31. FinalInv'
    <2>1. \A n \in Final : rep'[n] = rep[n]
        BY <1>7, <1>13 DEF Final
    <2>2. \A n \in Nodes : rep'[n] \in Tops => rep'[n] = rep[n]
        BY <1>8, <1>11
    <2> QED BY <1>5, <1>8, <1>12, <2>1, <2>2, FinalKept
<1> QED BY <1>15, <1>16, <1>17, <1>20, <1>21, <1>24, <1>26, <1>27, <1>29, <1>30, <1>31 DEF IInv

(***************************************************************************)
(* When none younger is left on SS, the nodes with this representative are *)
(* exactly the open nodes that are not older than it.                      *)
(***************************************************************************)
LEMMA ClosedNodes ==
    ASSUME IInv, NEW v \in Nodes, closeComponent(v)
    PROVE  /\ \A x \in Waiting : D[x] < D[v]
           /\ \A x \in visited \ Final : /\ rep[x] = v <=> D[v] <= D[x]
                                         /\ rep[x] = v <=> x \in inSCC \cup {v}
           /\ v \notin Tops
           /\ Tops' = Tops \cup {v} /\ Final' = inSCC \cup {v}
<1>1. /\ TypeOK
      /\ Path \subseteq visited /\ Waiting \subseteq visited /\ Tops \subseteq Final
      /\ inSCC \subseteq visited /\ visited \subseteq Nodes /\ Final \subseteq inSCC
      /\ \A n \in Nodes : D[n] \in Nat
      /\ \A n \in visited : rep[n] \in visited
    BY Basics
<1>2. Done(v) /\ rep[v] = v /\ ~HasYounger(v) /\ rep' = rep /\ visited' = visited
    BY DEF closeComponent
<1>3. /\ frames # <<>> /\ top.node = v /\ v \in Path /\ v \in visited \ Final /\ v \notin Waiting
      /\ \A u \in Path : u # v => D[u] < D[v]
    BY <1>2, DoneFacts
<1>4. ASSUME NEW x \in Waiting PROVE D[x] < D[v]
    <2>1. SS \in Seq(Nodes)
        BY <1>1 DEF TypeOK
    <2>2. PICK a \in DOMAIN SS : x = SS[a]
        BY DEF Waiting
    <2>3. SS # <<>> /\ Len(SS) \in DOMAIN SS /\ (a < Len(SS) \/ a = Len(SS))
        BY <2>1, <2>2
    <2>4. ~(D[v] < D[SS[Len(SS)]])
        <3>1. SS[Len(SS)] \in Nodes
            BY <2>1, <2>3
        <3> QED BY <1>1, <1>2, <2>3, <3>1 DEF HasYounger
    <2>5. ~(D[v] < D[x])
        BY <1>3, <2>2, <2>3, <2>4 DEF IInv, StackInv
    <2>6. D[v] # D[x]
        BY <1>1, <1>3 DEF IInv, ClockInv
    <2>7. D[x] \in Nat /\ D[v] \in Nat
        BY <1>1
    <2> QED BY <2>5, <2>6, <2>7
<1>5. ASSUME NEW x \in visited \ Final
      PROVE  /\ rep[x] = v <=> D[v] <= D[x]
             /\ rep[x] = v <=> x \in inSCC \cup {v}
    <2>0. D[x] \in Nat /\ D[v] \in Nat /\ (rep[x] = v => D[v] <= D[x])
        BY <1>1 DEF IInv, RepInv
    <2>1. CASE x = v
        BY <1>2, <2>0, <2>1
    <2>2. CASE x \in inSCC
        BY <1>3, <2>0, <2>2 DEF IInv, OpenInv
    <2>3. CASE x # v /\ x \notin inSCC
        <3>1. x \in Path \/ x \in Waiting
            BY <2>3 DEF IInv, OpenInv
        <3>2. D[x] < D[v]
            BY <1>3, <1>4, <2>3, <3>1
        <3> QED BY <2>0, <2>3, <3>2
    <2> QED BY <2>1, <2>2, <2>3
<1>6. v \notin Tops
    BY <1>1, <1>3
<1>7. Tops' = Tops \cup {v}
    <2>1. T' = Append(T, v)
        BY DEF closeComponent
    <2>2. /\ DOMAIN T' = 1..(Len(T) + 1) /\ DOMAIN T = 1..Len(T) /\ Len(T) \in Nat
          /\ T'[Len(T) + 1] = v /\ \A a \in DOMAIN T : T'[a] = T[a]
        BY <1>1, <2>1, Topped
    <2>3. /\ \A a \in DOMAIN T' : a \in DOMAIN T \/ a = Len(T) + 1
          /\ \A a \in DOMAIN T : a \in DOMAIN T'
          /\ Len(T) + 1 \in DOMAIN T'
        BY <2>2
    <2> QED BY <2>2, <2>3 DEF Tops
<1>8. Final' = inSCC \cup {v}
    <2>1. ASSUME NEW x \in visited PROVE rep[x] \in Tops \cup {v} <=> x \in inSCC \cup {v}
        <3>1. CASE x \in Final
            BY <1>1, <3>1 DEF Final
        <3>2. CASE x \notin Final
            BY <1>5, <3>2 DEF Final
        <3> QED BY <3>1, <3>2
    <2> QED BY <1>1, <1>2, <1>3, <1>7, <2>1 DEF Final
<1> QED BY <1>4, <1>5, <1>6, <1>7, <1>8

(***************************************************************************)
(* Such a component is closed: the edges do not leave what is closed, and  *)
(* what is closed no longer changes.                                       *)
(***************************************************************************)
LEMMA CloseStep ==
    ASSUME IInv, NEW v \in Nodes, closeComponent(v)
    PROVE  IInv'
<1> DEFINE last == Len(frames)
<1>1. /\ TypeOK /\ GraphOK
      /\ Path \subseteq visited /\ Waiting \subseteq visited /\ Tops \subseteq visited
      /\ inSCC \subseteq visited /\ visited \subseteq Nodes /\ Final \subseteq inSCC
      /\ Path \cap Final = {} /\ Tops \subseteq Final
      /\ \A n \in Nodes : D[n] \in Nat /\ subNodes[n] \subseteq visited
      /\ \A n \in visited : rep[n] \in visited
      /\ DOMAIN frames = 1..last /\ last \in Nat
      /\ \A i \in DOMAIN frames : frames[i].node \in Path
    BY Basics
<1>2. /\ visited' = visited /\ I' = I /\ D' = D /\ rep' = rep /\ subNodes' = subNodes /\ repNodes' = repNodes
      /\ graph' = graph /\ SS' = SS /\ roots' = roots /\ finds' = finds
      /\ inSCC' = inSCC \cup {v} /\ T' = Append(T, v)
      /\ Done(v) /\ rep[v] = v
    BY DEF closeComponent
<1>3. /\ frames # <<>> /\ last \in DOMAIN frames /\ top = frames[last]
      /\ top.node = v /\ top.left = {} /\ top.child = {}
      /\ v \in Path /\ v \in visited \ Final /\ v \notin Waiting
      /\ \A i \in DOMAIN frames : i # last => frames[i].node # v /\ D[frames[i].node] < D[v]
      /\ \A u \in Path : u # v => D[u] < D[v]
    BY <1>2, DoneFacts
<1>4. /\ \A x \in Waiting : D[x] < D[v]
      /\ \A x \in visited \ Final : /\ rep[x] = v <=> D[v] <= D[x]
                                    /\ rep[x] = v <=> x \in inSCC \cup {v}
      /\ v \notin Tops
      /\ Tops' = Tops \cup {v} /\ Final' = inSCC \cup {v}
    BY ClosedNodes
<1>5. /\ frames' \in Seq(FrameType) /\ Len(frames') = last - 1
      /\ DOMAIN frames' = 1..(last - 1)
      /\ \A i \in DOMAIN frames' : i \in DOMAIN frames /\ i < last /\ frames'[i] = frames[i]
    BY <1>1, <1>3, Returned DEF closeComponent
<1>6. \A i \in DOMAIN frames : i \in DOMAIN frames' \/ i = last
    BY <1>1, <1>5
<1>7. Path' = Path \ {v} /\ Waiting' = Waiting
    BY <1>2, <1>3, <1>5, <1>6 DEF Path, Waiting
<1>8. /\ T' \in Seq(Nodes) /\ Len(T) \in Nat
      /\ DOMAIN T' = 1..(Len(T) + 1) /\ DOMAIN T = 1..Len(T)
      /\ T'[Len(T) + 1] = v
      /\ \A a \in DOMAIN T : T'[a] = T[a]
    BY <1>1, <1>2, Topped
<1>9. TypeOK'
    BY <1>1, <1>2, <1>3, <1>5, <1>8 DEF TypeOK, FrameType
<1>10. ClockInv'
    BY <1>2 DEF IInv, ClockInv
<1>11. PathInv'
    <2>1. ASSUME NEW i \in DOMAIN frames'
          PROVE  /\ frames'[i].node \in visited' \ Final'
                 /\ frames'[i].child \subseteq visited'
                 /\ frames'[i].child \subseteq frames'[i].left
                 /\ \A c, d \in frames'[i].child : c = d
                 /\ \A y \in frames'[i].left : <<frames'[i].node, y>> \in graph'
                 /\ i < Len(frames') => frames'[i].child = {frames'[i + 1].node}
                 /\ i < Len(frames') => frames'[i].node \notin inSCC'
        <3>1. i \in DOMAIN frames /\ i < last /\ frames'[i] = frames[i]
            BY <1>5
        <3>2. i < Len(frames') => i + 1 \in DOMAIN frames' /\ frames'[i + 1] = frames[i + 1]
            BY <1>1, <1>5
        <3>3. frames[i].node \notin inSCC \cup {v}
            BY <1>3, <3>1 DEF IInv, PathInv
        <3> QED BY <1>2, <1>4, <3>1, <3>2, <3>3 DEF IInv, PathInv
    <2>2. \A i, j \in DOMAIN frames' : i < j => D'[frames'[i].node] < D'[frames'[j].node]
        BY <1>2, <1>5 DEF IInv, PathInv
    <2> QED BY <2>1, <2>2 DEF PathInv
<1>12. OpenInv'
    BY <1>2, <1>3, <1>4, <1>7 DEF IInv, OpenInv
<1>13. StackInv'
    BY <1>2, <1>7 DEF IInv, StackInv
<1>14. \A x \in Nodes : ReachableFrom(x)' = ReachableFrom(x)
    BY <1>1, <1>2, ReachStays
<1>15. Path \subseteq Nodes /\ Waiting \subseteq Nodes /\ roots \subseteq Nodes
    BY <1>1 DEF TypeOK
<1>16. ReachInv'
    <2>1. ReachInv
        BY DEF IInv
    <2>2. ASSUME NEW x \in Waiting PROVE \E u \in Path' : D[u] < D[x] /\ u \in ReachableFrom(x)
        <3>1. PICK u \in Path : D[u] < D[x] /\ u \in ReachableFrom(x)
            BY <2>1 DEF ReachInv
        <3>2. D[x] < D[v] /\ D[x] \in Nat /\ D[v] \in Nat
            BY <1>1, <1>4, <1>15
        <3> QED BY <1>7, <3>1, <3>2
    <2>3. \A u \in Path' : \A n \in visited' : D'[u] <= D'[n] => n \in ReachableFrom(u)'
        BY <1>2, <1>7, <1>14, <1>15, <2>1 DEF ReachInv
    <2>4. \A x \in Waiting' : \E u \in Path' : D'[u] < D'[x] /\ u \in ReachableFrom(x)'
        BY <1>2, <1>7, <1>14, <1>15, <2>2
    <2>5. \A n \in visited' : \E r \in roots' : n \in ReachableFrom(r)'
        BY <1>2, <1>14, <1>15, <2>1 DEF ReachInv
    <2> QED BY <2>3, <2>4, <2>5 DEF ReachInv
<1>17. \A x \in visited : x \in Final' <=> x \in Final \/ rep[x] = v
    BY <1>1, <1>4 DEF Final
<1>18. RepInv'
    <2>1. ASSUME NEW x \in visited, rep[x] \in Final' PROVE x \in Final'
        <3>1. CASE rep[x] \in Final
            BY <1>17, <3>1 DEF IInv, RepInv
        <3>2. CASE x \notin Final /\ rep[x] \notin Final
            <4>1. D[v] <= D[rep[x]] /\ D[rep[x]] <= D[x]
                BY <1>1, <1>4, <1>17, <2>1, <3>2 DEF IInv, RepInv
            <4>2. D[v] <= D[x]
                BY <1>1, <4>1
            <4> QED BY <1>4, <1>17, <3>2, <4>2
        <3>3. CASE x \in Final
            BY <1>17, <3>3
        <3> QED BY <3>1, <3>2, <3>3
    <2>2. \A x \in visited : rep[x] \in ReachableFrom(x)'
        BY <1>1, <1>14 DEF IInv, RepInv
    <2> QED BY <1>2, <2>1, <2>2 DEF IInv, RepInv
<1>19. LowInv'
    <2>1. \A i \in DOMAIN frames' : \A x \in Waiting :
              D[frames'[i].node] < D[x] =>
                  \/ D[rep[frames'[i].node]] <= D[rep[x]]
                  \/ \E c \in frames'[i].child : D[c] <= D[x]
        BY <1>5 DEF IInv, LowInv
    <2>2. ASSUME frames' # <<>>, NEW c \in top'.child, NEW x \in Waiting PROVE ~(D[c] <= D[x])
        <3>1. Len(frames') \in DOMAIN frames' /\ last - 1 \in DOMAIN frames /\ last - 1 < last
            BY <1>1, <1>5, <2>2
        <3>2. top' = frames[last - 1]
            BY <1>5, <3>1 DEF top
        <3>3. top'.child = {v}
            BY <1>1, <1>3, <3>1, <3>2 DEF IInv, PathInv
        <3>4. D[x] < D[v] /\ D[x] \in Nat /\ D[v] \in Nat
            BY <1>1, <1>4, <1>15
        <3> QED BY <2>2, <3>3, <3>4
    <2> QED BY <1>2, <1>7, <2>1, <2>2 DEF LowInv
<1>20. EdgeInv'
    <2>1. ASSUME NEW e \in graph, e[1] \in Final' PROVE e[2] \in Final'
        <3>1. CASE e[1] \in Final
            BY <1>1, <1>4, <3>1 DEF IInv, EdgeInv
        <3>2. CASE e[1] \notin Final
            <4>1. e[1] \in visited \ Final /\ rep[e[1]] = v
                BY <1>1, <1>3, <1>4, <2>1, <3>2
            <4>2. \A i \in DOMAIN frames : frames[i].node = e[1] => e[2] \notin frames[i].left
                <5> SUFFICES ASSUME NEW i \in DOMAIN frames, frames[i].node = e[1]
                             PROVE  e[2] \notin frames[i].left
                    OBVIOUS
                <5>1. i = last
                    <6>1. e[1] \in inSCC \/ e[1] = v
                        BY <1>4, <2>1
                    <6> QED BY <1>1, <1>3, <6>1 DEF IInv, PathInv
                <5> QED BY <1>3, <5>1
            <4>3. e[2] \in visited /\ (e[2] \in Final \/ D[v] <= D[e[2]])
                BY <4>1, <4>2 DEF IInv, EdgeInv
            <4> QED BY <1>4, <1>17, <4>3
        <3> QED BY <3>1, <3>2
    <2>2. ASSUME NEW e \in graph, e[1] \in visited \ Final',
                 \A i \in DOMAIN frames' : frames'[i].node = e[1] => e[2] \notin frames'[i].left
          PROVE  e[2] \in visited /\ (e[2] \in Final' \/ D[rep[e[1]]] <= D[e[2]])
        <3>1. e[1] # v /\ e[1] \in visited \ Final
            BY <1>1, <1>4, <2>2
        <3>2. \A i \in DOMAIN frames : frames[i].node = e[1] => e[2] \notin frames[i].left
            BY <1>3, <1>5, <1>6, <2>2, <3>1
        <3>3. e[2] \in visited /\ (e[2] \in Final \/ D[rep[e[1]]] <= D[e[2]])
            BY <3>1, <3>2 DEF IInv, EdgeInv
        <3> QED BY <1>17, <3>3
    <2> QED BY <1>2, <2>1, <2>2 DEF EdgeInv
<1>21. SubInv'
    <2>0. SubInv
        BY DEF IInv
    <2>1. \A x \in visited' : x \in inSCC' \/ rep'[x] = x => x \in subNodes'[rep'[x]]
        BY <1>2, <2>0 DEF SubInv
    <2>2. \A r \in Nodes : subNodes'[r] \subseteq visited' /\ (r \notin visited' => subNodes'[r] = {})
        BY <1>2, <2>0 DEF SubInv
    <2>3. ASSUME NEW r \in visited \ Final', NEW x \in subNodes[r]
          PROVE  x \notin Final' /\ D[rep[x]] <= D[r] /\ D[r] <= D[x]
        <3>1. r \in visited \ Final /\ rep[r] # v
            BY <1>17, <2>3
        <3>2. x \notin Final /\ D[rep[x]] <= D[r] /\ D[r] <= D[x]
            BY <2>0, <3>1 DEF SubInv
        <3>3. ~(D[v] <= D[r]) /\ D[r] \in Nat /\ D[v] \in Nat
            BY <1>1, <1>4, <3>1
        <3>4. x \in visited
            BY <1>1, <3>1
        <3>5. rep[x] # v
            BY <3>2, <3>3
        <3> QED BY <1>17, <3>2, <3>4, <3>5
    <2>4. \A r \in inSCC' : rep'[r] # r => subNodes'[r] = {}
        BY <1>2, <2>0 DEF SubInv
    <2>5. ASSUME NEW r \in Tops'
          PROVE  r \in visited /\ rep[r] = r /\ \A x \in subNodes[r] : rep[x] = r
        <3>1. CASE r \in Tops
            BY <2>0, <3>1 DEF SubInv
        <3>2. CASE r = v
            <4>1. ASSUME NEW x \in subNodes[v] PROVE rep[x] = v
                <5>1. x \in visited \ Final /\ D[v] <= D[x]
                    BY <1>1, <1>3, <2>0 DEF SubInv
                <5> QED BY <1>4, <5>1
            <4> QED BY <1>2, <1>3, <3>2, <4>1
        <3> QED BY <1>4, <3>1, <3>2
    <2>6. \A r \in Nodes : r \in repNodes' <=> \E x \in subNodes'[r] : x # r
        BY <1>2, <2>0 DEF SubInv
    <2> QED BY <1>2, <2>1, <2>2, <2>3, <2>4, <2>5, <2>6 DEF SubInv
<1>22. FinalInv'
    <2>0. FinalInv
        BY DEF IInv
    <2>1. \A x \in Nodes : ComponentOf(x)' = ComponentOf(x)
        <3> SUFFICES ASSUME NEW x \in Nodes PROVE ComponentOf(x)' = ComponentOf(x)
            OBVIOUS
        <3>1. ComponentOf(x)' = {m \in ReachableFrom(x)' : x \in ReachableFrom(m)'}
            BY DEF ComponentOf
        <3>2. ReachableFrom(x) \subseteq Nodes
            BY <1>1, ReachRules
        <3> QED BY <1>14, <3>1, <3>2 DEF ComponentOf
    <2>2. \A x \in Final : ReachableFrom(x) \subseteq Final
        <3>1. \A e \in graph : e[1] \in Final => e[2] \in Final
            BY DEF IInv, EdgeInv
        <3> QED BY <1>1, <3>1, ReachRules DEF Final
    <2>3. ASSUME NEW x \in Final' \ Final, NEW y \in Final' \ Final PROVE y \in ComponentOf(x)
        <3>1. /\ x \in visited \ Final /\ rep[x] = v /\ D[v] <= D[x]
              /\ y \in visited \ Final /\ rep[y] = v /\ D[v] <= D[y]
            BY <1>1, <1>3, <1>4
        <3>2. v \in ReachableFrom(x) /\ v \in ReachableFrom(y)
            BY <3>1 DEF IInv, RepInv
        <3>3. x \in ReachableFrom(v) /\ y \in ReachableFrom(v)
            BY <1>3, <3>1 DEF IInv, ReachInv
        <3>4. y \in ReachableFrom(x) /\ x \in ReachableFrom(y)
            BY <1>1, <3>1, <3>2, <3>3, ReachRules
        <3> QED BY <3>4 DEF ComponentOf
    <2>4. ASSUME NEW x \in Final', NEW y \in Final' PROVE rep[x] = rep[y] <=> y \in ComponentOf(x)
        <3>0. \A n \in Final' : n \in Final \/ rep[n] = v
            BY <1>1, <1>3, <1>4
        <3>1. \A n \in Final : rep[n] # v
            BY <1>4 DEF Final
        <3>2. CASE x \in Final /\ y \in Final
            BY <2>0, <3>2 DEF FinalInv
        <3>3. CASE x \notin Final /\ y \notin Final
            BY <2>3, <3>0, <3>3
        <3>4. CASE x \in Final /\ y \notin Final
            BY <2>2, <3>0, <3>1, <3>4 DEF ComponentOf
        <3>5. CASE x \notin Final /\ y \in Final
            BY <2>2, <3>0, <3>1, <3>5 DEF ComponentOf
        <3> QED BY <3>2, <3>3, <3>4, <3>5
    <2>5. Final' \subseteq Nodes
        BY <1>1, <1>3, <1>4
    <2>6. (\A x, y \in Final : rep[x] = rep[y] <=> y \in ComponentOf(x))'
        BY <1>2, <2>1, <2>4, <2>5
    <2>7. /\ \A a \in DOMAIN T' : a \in DOMAIN T \/ a = Len(T) + 1
          /\ \A a \in DOMAIN T : T'[a] = T[a] /\ T[a] \in Tops /\ a <= Len(T) + 1
        BY <1>8 DEF Tops
    <2>8. \A i, j \in DOMAIN T' : T'[i] = T'[j] => i = j
        BY <1>4, <1>8, <2>0, <2>7 DEF FinalInv
    <2>9. ASSUME NEW e \in graph, NEW i \in DOMAIN T', NEW j \in DOMAIN T',
                 T'[i] = rep[e[1]], T'[j] = rep[e[2]]
          PROVE  j <= i
        <3>1. CASE i = Len(T) + 1
            BY <1>8, <2>7, <3>1
        <3>2. CASE i \in DOMAIN T /\ j \in DOMAIN T
            BY <2>0, <2>7, <2>9, <3>2 DEF FinalInv
        <3>3. CASE i \in DOMAIN T /\ j = Len(T) + 1
            <4>1. rep[e[1]] \in Tops /\ rep[e[2]] = v
                BY <1>8, <2>7, <2>9, <3>3
            <4>2. e[1] \in visited
                <5>1. e[1] \in Nodes
                    BY Basics
                <5>2. rep[e[1]] # None
                    BY <1>1, <4>1, SCCAssumption
                <5> QED BY <5>1, <5>2 DEF IInv, RepInv
            <4>3. e[1] \in Final
                BY <4>1, <4>2 DEF Final
            <4>4. e[2] \in Final
                BY <4>3 DEF IInv, EdgeInv
            <4> QED BY <1>4, <4>1, <4>4 DEF Final
        <3> QED BY <2>7, <3>1, <3>2, <3>3
    <2> QED BY <1>2, <2>6, <2>8, <2>9 DEF FinalInv
<1> QED BY <1>9, <1>10, <1>11, <1>12, <1>13, <1>16, <1>18, <1>19, <1>20, <1>21, <1>22 DEF IInv

-----------------------------------------------------------------------------
(* Searches begin and end.                                                 *)

\* Nothing has been visited, and every table is empty.
Cleared ==
    /\ graph \in Graphs
    /\ visited = {} /\ inSCC = {}
    /\ rep = [n \in Nodes |-> None] /\ subNodes = [n \in Nodes |-> {}]
    /\ repNodes = {}
    /\ I = 0 /\ D = [n \in Nodes |-> 0]
    /\ SS = <<>> /\ T = <<>> /\ frames = <<>>
    /\ roots \in SUBSET Nodes /\ finds \in Nat

(***************************************************************************)
(* A cleared detector satisfies the invariant, so an earlier search leaves *)
(* no trace.                                                               *)
(***************************************************************************)
LEMMA ClearedInv == Cleared => IInv
<1> SUFFICES ASSUME Cleared PROVE IInv
    OBVIOUS
<1>1. /\ graph \in Graphs
      /\ visited = {} /\ inSCC = {}
      /\ \A n \in Nodes : rep[n] = None /\ subNodes[n] = {}
      /\ repNodes = {}
      /\ DOMAIN SS = {} /\ DOMAIN T = {} /\ DOMAIN frames = {} /\ frames = <<>>
    BY DEF Cleared
<1>2. Path = {} /\ Waiting = {} /\ Tops = {} /\ Final = {}
    BY <1>1 DEF Path, Waiting, Tops, Final
<1>3. TypeOK
    BY DEF Cleared, TypeOK
<1>4. ClockInv /\ PathInv /\ OpenInv /\ StackInv /\ ReachInv
    BY <1>1, <1>2 DEF ClockInv, PathInv, OpenInv, StackInv, ReachInv
<1>5. RepInv /\ LowInv /\ EdgeInv /\ SubInv
    BY <1>1, <1>2 DEF RepInv, LowInv, EdgeInv, SubInv
<1>6. FinalInv
    BY <1>1, <1>2 DEF FinalInv
<1> QED BY <1>3, <1>4, <1>5, <1>6 DEF IInv

(***************************************************************************)
(* Every step of the search keeps the invariant.                           *)
(***************************************************************************)
LEMMA SearchStep == IInv /\ [Next]_vars => IInv'
<1> SUFFICES ASSUME IInv, [Next]_vars PROVE IInv'
    OBVIOUS
<1>1. ASSUME NEW candidates \in SUBSET Nodes, find(candidates) PROVE IInv'
    <2>1. Cleared'
        <3>1. graph \in Graphs /\ finds \in Nat /\ frames = <<>>
            BY <1>1 DEF IInv, TypeOK, find, Idle
        <3> QED BY <1>1, <3>1 DEF find, clear, Cleared
    <2>2. Cleared' => IInv'
        BY ClearedInv, PTL
    <2> QED BY <2>1, <2>2
<1>2. ASSUME NEW v \in Nodes,
             visitRoot(v) \/ visitChild(v) \/ lowerRep(v) \/ leaveOpen(v) \/ popSS(v) \/ closeComponent(v)
      PROVE  IInv'
    BY <1>2, VisitStep, LowerStep, LeaveStep, PopStep, CloseStep
<1>3. CASE Finished \/ UNCHANGED vars
    <2>1. UNCHANGED vars
        BY <1>3 DEF Finished
    <2>2. /\ graph' = graph /\ visited' = visited /\ inSCC' = inSCC /\ rep' = rep
          /\ subNodes' = subNodes /\ repNodes' = repNodes /\ I' = I /\ D' = D /\ SS' = SS
          /\ T' = T /\ frames' = frames /\ roots' = roots /\ finds' = finds
        BY <2>1 DEF vars, infoVars
    <2>3. /\ Path' = Path /\ Waiting' = Waiting /\ Tops' = Tops /\ Final' = Final
          /\ top' = top /\ Closing' = Closing
        BY <2>2 DEF Path, Waiting, Tops, Final, top, Closing
    <2>4. TypeOK' /\ ClockInv' /\ PathInv' /\ OpenInv' /\ StackInv'
        BY <2>2, <2>3 DEF IInv, TypeOK, ClockInv, PathInv, OpenInv, StackInv
    <2>5. \A x \in Nodes : ReachableFrom(x)' = ReachableFrom(x)
        BY <2>2, Basics, ReachStays
    <2>6. /\ Path \subseteq Nodes /\ Waiting \subseteq Nodes /\ visited \subseteq Nodes
          /\ roots \subseteq Nodes
        BY Basics DEF TypeOK
    <2>7. ReachInv'
        <3>1. ReachInv
            BY DEF IInv
        <3>2. \A u \in Path' : \A n \in visited' : D'[u] <= D'[n] => n \in ReachableFrom(u)'
            BY <2>2, <2>3, <2>5, <2>6, <3>1 DEF ReachInv
        <3>3. \A x \in Waiting' : \E u \in Path' : D'[u] < D'[x] /\ u \in ReachableFrom(x)'
            BY <2>2, <2>3, <2>5, <2>6, <3>1 DEF ReachInv
        <3>4. \A n \in visited' : \E r \in roots' : n \in ReachableFrom(r)'
            BY <2>2, <2>5, <2>6, <3>1 DEF ReachInv
        <3> QED BY <3>2, <3>3, <3>4 DEF ReachInv
    <2>8. RepInv'
        <3>1. \A x \in visited : rep[x] \in ReachableFrom(x)'
            BY <2>5, <2>6 DEF IInv, RepInv
        <3> QED BY <2>2, <2>3, <3>1 DEF IInv, RepInv
    <2>9. LowInv' /\ EdgeInv' /\ SubInv'
        BY <2>2, <2>3 DEF IInv, LowInv, EdgeInv, SubInv
    <2>10. FinalInv'
        <3>1. rep' \in [Nodes -> Nodes \cup {None}]
            BY <2>2 DEF IInv, TypeOK
        <3> QED BY <2>2, <2>3, <3>1, FinalKept
    <2> QED BY <2>4, <2>7, <2>8, <2>9, <2>10 DEF IInv
<1> QED BY <1>1, <1>2, <1>3 DEF Next

(***************************************************************************)
(* So it always holds.                                                     *)
(***************************************************************************)
LEMMA SearchInvariant == Spec => []IInv
<1>1. Init => IInv
    <2>1. Init => Cleared
        BY DEF Init, Cleared
    <2> QED BY <2>1, ClearedInv
<1> QED BY <1>1, SearchStep, PTL DEF Spec

(***************************************************************************)
(* The detector's tables always have the types visit relies on.            *)
(***************************************************************************)
THEOREM TypeCorrect == Spec => []TypeOK
BY SearchInvariant, PTL DEF IInv

(***************************************************************************)
(* When find returns, everything visited is in a closed component, and     *)
(* what was visited is what the roots reach.                               *)
(***************************************************************************)
LEMMA IdleFacts ==
    ASSUME IInv, Idle
    PROVE  visited = Final /\ visited = UNION {ReachableFrom(n) : n \in roots}
<1>1. frames = <<>> /\ roots \subseteq visited
    BY DEF Idle
<1>2. Path = {}
    BY <1>1 DEF Path
<1>3. Waiting = {}
    BY <1>2 DEF IInv, ReachInv
<1>4. ~Closing
    BY <1>1 DEF Closing
<1>5. visited = Final
    BY <1>2, <1>3, <1>4, NotClosing
<1>6. \A r \in roots : ReachableFrom(r) \subseteq visited
    <2>1. \A e \in graph : e[1] \in visited => e[2] \in visited
        BY <1>5 DEF IInv, EdgeInv
    <2> QED BY <1>1, <2>1, Basics, ReachRules
<1>7. \A n \in visited : \E r \in roots : n \in ReachableFrom(r)
    BY DEF IInv, ReachInv
<1> QED BY <1>5, <1>6, <1>7

(***************************************************************************)
(* A set of more than one element is one with another element.             *)
(***************************************************************************)
LEMMA SeveralElements ==
    ASSUME NEW set, IsFiniteSet(set), NEW r \in set
    PROVE  Cardinality(set) > 1 <=> \E x \in set : x # r
<1>1. Cardinality({r}) = 1 /\ IsFiniteSet({r})
    BY FS_Singleton
<1>2. Cardinality(set) \in Nat
    BY FS_CardinalityType
<1>3. CASE \E x \in set : x # r
    <2>1. {r} \in SUBSET set /\ {r} # set
        BY <1>3
    <2>2. Cardinality({r}) <= Cardinality(set) /\ Cardinality({r}) # Cardinality(set)
        BY <2>1, FS_Subset
    <2> QED BY <1>1, <1>2, <1>3, <2>2
<1>4. CASE ~\E x \in set : x # r
    <2>1. set = {r}
        BY <1>4
    <2> QED BY <1>1, <1>4, <2>1
<1> QED BY <1>3, <1>4

(***************************************************************************)
(* Whatever order nodes and children are taken in, whatever the roots and  *)
(* whatever an earlier search has left, find returns with exactly the      *)
(* components reachable from the roots, and repNodes are those to merge.   *)
(***************************************************************************)
THEOREM ComponentsRight == Spec => []ComponentsFound
<1>1. IInv => ComponentsFound
    <2> SUFFICES ASSUME IInv, Idle
                 PROVE  /\ visited = UNION {ReachableFrom(n) : n \in roots}
                        /\ \A n \in visited :
                               /\ subNodes[rep[n]] = ComponentOf(n)
                               /\ rep[n] # n => subNodes[n] = {}
                        /\ repNodes = {rep[n] : n \in {m \in visited : Cardinality(ComponentOf(m)) > 1}}
        BY DEF ComponentsFound
    <2>1. visited = Final /\ visited = UNION {ReachableFrom(n) : n \in roots}
        BY IdleFacts
    <2>2. /\ GraphOK /\ visited \subseteq Nodes /\ inSCC \subseteq visited /\ Final \subseteq inSCC
          /\ \A n \in visited : rep[n] \in visited /\ rep[n] \in Tops
          /\ \A n \in Nodes : subNodes[n] \subseteq visited
        BY <2>1, Basics DEF Final
    <2>3. ASSUME NEW n \in visited PROVE subNodes[rep[n]] = ComponentOf(n)
        <3>1. \A m \in visited : rep[m] = rep[n] => m \in subNodes[rep[n]]
            BY <2>1, <2>2 DEF IInv, SubInv
        <3>2. \A m \in subNodes[rep[n]] : m \in visited /\ rep[m] = rep[n]
            BY <2>2 DEF IInv, SubInv
        <3>3. ComponentOf(n) \subseteq visited
            <4>1. \A e \in graph : e[1] \in visited => e[2] \in visited
                BY <2>1 DEF IInv, EdgeInv
            <4>2. ReachableFrom(n) \subseteq visited
                BY <2>2, <4>1, ReachRules
            <4> QED BY <4>2 DEF ComponentOf
        <3>4. \A m \in visited : rep[n] = rep[m] <=> m \in ComponentOf(n)
            BY <2>1 DEF IInv, FinalInv
        <3> QED BY <3>1, <3>2, <3>3, <3>4
    <2>4. ASSUME NEW n \in visited, rep[n] # n PROVE subNodes[n] = {}
        BY <2>1, <2>2, <2>4 DEF IInv, SubInv
    <2>5. ASSUME NEW n \in visited
          PROVE  /\ rep[rep[n]] = rep[n]
                 /\ Cardinality(ComponentOf(n)) > 1 <=> rep[n] \in repNodes
        <3>1. rep[n] \in visited /\ rep[rep[n]] = rep[n] /\ rep[n] \in Nodes
            BY <2>2 DEF IInv, SubInv
        <3>2. rep[n] \in ComponentOf(n) /\ ComponentOf(n) = subNodes[rep[n]]
            <4>1. rep[n] \in subNodes[rep[n]]
                BY <3>1 DEF IInv, SubInv
            <4> QED BY <2>3, <4>1
        <3>3. IsFiniteSet(ComponentOf(n))
            <4>1. ComponentOf(n) \in SUBSET Nodes
                BY <2>2, <3>1, <3>2
            <4> QED BY <4>1, SCCAssumption, FS_Subset
        <3>4. Cardinality(ComponentOf(n)) > 1 <=> \E x \in ComponentOf(n) : x # rep[n]
            BY <3>2, <3>3, SeveralElements
        <3> QED BY <3>1, <3>2, <3>4 DEF IInv, SubInv
    <2>6. ASSUME NEW r \in repNodes PROVE r \in visited /\ rep[r] = r
        <3>1. r \in Nodes /\ \E x \in subNodes[r] : x # r
            BY DEF IInv, TypeOK, SubInv
        <3>2. r \in visited
            BY <3>1 DEF IInv, SubInv
        <3> QED BY <2>4, <3>1, <3>2
    <2>7. repNodes = {rep[n] : n \in {m \in visited : Cardinality(ComponentOf(m)) > 1}}
        BY <2>5, <2>6
    <2> QED BY <2>1, <2>3, <2>4, <2>7
<1> QED BY <1>1, SearchInvariant, PTL

(***************************************************************************)
(* The stack of representatives is a topological order of the components:  *)
(* the wave, which takes it from the top, meets a component before those   *)
(* its edges lead to.                                                      *)
(***************************************************************************)
THEOREM OrderRight == Spec => []TopologicalOrder
<1>1. IInv => TopologicalOrder
    <2> SUFFICES ASSUME IInv, Idle
                 PROVE  /\ {T[i] : i \in DOMAIN T} = {rep[n] : n \in visited}
                        /\ \A i, j \in DOMAIN T : T[i] = T[j] => i = j
                        /\ \A e \in graph : \A i, j \in DOMAIN T :
                               (T[i] = rep[e[1]] /\ T[j] = rep[e[2]]) => j <= i
        BY DEF TopologicalOrder
    <2>1. visited = Final
        BY IdleFacts
    <2>2. \A r \in Tops : r \in visited /\ rep[r] = r
        BY DEF IInv, SubInv
    <2>3. Tops = {rep[n] : n \in visited}
        BY <2>1, <2>2 DEF Final
    <2> QED BY <2>3 DEF Tops, IInv, FinalInv
<1> QED BY <1>1, SearchInvariant, PTL

(***************************************************************************)
(* A closed component is final: no later visit of the search takes a node  *)
(* from it or adds one.                                                    *)
(***************************************************************************)
THEOREM ClosedStaysFinal == Spec => ClosedIsFinal
<1> DEFINE Kept == finds' = finds =>
               \A i \in DOMAIN T :
                   /\ subNodes'[T[i]] = subNodes[T[i]]
                   /\ \A m \in subNodes[T[i]] : rep'[m] = T[i]
<1>1. IInv /\ [Next]_vars => [Kept]_vars
    <2> SUFFICES ASSUME IInv, [Next]_vars, finds' = finds, NEW t \in Tops
                 PROVE  subNodes'[t] = subNodes[t] /\ \A m \in subNodes[t] : rep'[m] = t
        BY DEF Tops
    <2>1. /\ t \in Final /\ t \in Nodes /\ t \in visited /\ inSCC \subseteq visited
          /\ \A m \in subNodes[t] : m \in Final /\ m \in Nodes /\ rep[m] = t
        <3>1. \A m \in subNodes[t] : m \in visited /\ rep[m] = t
            BY Basics DEF IInv, SubInv
        <3> QED BY <3>1, Basics DEF Final
    <2>2. ASSUME NEW n \in Nodes \ Final, NEW r \in Nodes \ Final, setRep(n, r)
          PROVE  subNodes'[t] = subNodes[t] /\ \A m \in subNodes[t] : rep'[m] = t
        <3>1. /\ \A m \in Nodes : rep'[m] = IF m = n THEN r ELSE rep[m]
              /\ \A m \in Nodes : subNodes'[m] = IF m = r THEN subNodes[r] \cup {n}
                                                ELSE IF m = n THEN {} ELSE subNodes[m]
            BY <2>2, Basics, SetReps
        <3> QED BY <2>1, <3>1
    <2>3. CASE UNCHANGED <<rep, subNodes>>
        BY <2>1, <2>3
    <2>4. ASSUME NEW candidates \in SUBSET Nodes, find(candidates)
          PROVE  FALSE
        BY <2>4 DEF find, IInv, TypeOK
    <2>5. ASSUME NEW v \in Nodes, visitRoot(v) \/ visitChild(v)
          PROVE  subNodes'[t] = subNodes[t] /\ \A m \in subNodes[t] : rep'[m] = t
        <3>1. v \notin visited /\ setRep(v, v)
            BY <2>5 DEF visitRoot, visitChild, Enter
        <3> QED BY <2>2, <3>1 DEF Final
    <2>6. ASSUME NEW w \in Nodes, lowerRep(w)
          PROVE  subNodes'[t] = subNodes[t] /\ \A m \in subNodes[t] : rep'[m] = t
        <3>1. /\ rep'[top.node] \in visited \ Final
              /\ UNCHANGED <<rep, subNodes, repNodes>> \/ setRep(top.node, rep'[top.node])
            BY <2>6, Lowered
        <3>2. top.node \in visited \ Final /\ visited \subseteq Nodes
            BY <2>6, Basics, TopType DEF lowerRep
        <3> QED BY <2>2, <2>3, <3>1, <3>2
    <2>7. ASSUME NEW v \in Nodes, leaveOpen(v) \/ closeComponent(v)
          PROVE  UNCHANGED <<rep, subNodes>>
        BY <2>7 DEF leaveOpen, closeComponent, infoVars
    <2>8. ASSUME NEW v \in Nodes, popSS(v)
          PROVE  subNodes'[t] = subNodes[t] /\ \A m \in subNodes[t] : rep'[m] = t
        <3>1. PICK w \in Waiting : w = SS[Len(SS)] /\ setRep(w, v)
            BY <2>8, Basics, Unstacked DEF popSS, HasYounger, Waiting
        <3>2. v \in Nodes \ Final
            BY <2>8, DoneFacts DEF popSS
        <3>3. w \in Nodes \ Final
            BY Basics DEF IInv, OpenInv
        <3> QED BY <2>2, <3>1, <3>2, <3>3
    <2>9. CASE Finished \/ UNCHANGED vars
        BY <2>3, <2>9 DEF Finished, vars, infoVars
    <2> QED BY <2>3, <2>4, <2>5, <2>6, <2>7, <2>8, <2>9 DEF Next
<1> QED BY <1>1, SearchInvariant, PTL DEF Spec, ClosedIsFinal

=============================================================================
