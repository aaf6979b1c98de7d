---------------------------- MODULE SCCDetection ----------------------------
(***************************************************************************)
(* Nuutila's search for strongly connected components, which the solvers   *)
(* run over the direct edges of the constraint graph: depth first, with a  *)
(* representative per node that sinks to the oldest node met, a stack of   *)
(* the nodes whose component is still open, and the finished               *)
(* representatives in topological order.  The recursion of visit is a      *)
(* stack of frames.  The order of nodes and of children, that of hash      *)
(* tables and of edge sets, is left open.                                  *)
(*                                                                         *)
(* Andersen.tla takes the result for granted: the components, one          *)
(* representative each, and an order of them.                              *)
(***************************************************************************)
EXTENDS Naturals, Sequences, FiniteSets

CONSTANTS
    Nodes,
    Graphs,     \* the graphs to search, as sets of edges
    None,       \* UINT_MAX: no representative
    MaxFinds    \* bound: searches by one detector

ASSUME SCCAssumption ==
    /\ IsFiniteSet(Nodes)
    /\ Graphs \subseteq SUBSET (Nodes \X Nodes)
    /\ None \notin Nodes
    /\ MaxFinds \in Nat

VARIABLES
    graph,
    visited,
    inSCC,      \* nodes whose component is complete
    rep,        \* GNodeSCCInfo::_rep ...
    subNodes,   \* ... and _subNodes
    repNodes,   \* representatives of components with several nodes
    I, D,       \* the clock and when each node was visited
    SS,         \* finished nodes of open components, top last
    T,          \* topoNodeStack, top last
    frames,     \* the calls of visit, innermost last
    roots,      \* the nodes find has still to look at
    finds       \* searches so far

infoVars == <<visited, inSCC, rep, subNodes, repNodes>>
vars == <<graph, infoVars, I, D, SS, T, frames, roots, finds>>

\* child: the child being visited, {} between children.
Frame(v) == [node |-> v, child |-> {}, left |-> {e[2] : e \in {x \in graph : x[1] = v}}]
top == frames[Len(frames)]
Replace(frame) == [frames EXCEPT ![Len(frames)] = frame]
Pop(s) == SubSeq(s, 1, Len(s) - 1)

Idle == frames = <<>> /\ roots \subseteq visited

Init ==
    /\ graph \in Graphs
    /\ visited = {} /\ inSCC = {}
    /\ rep = [n \in Nodes |-> None] /\ subNodes = [n \in Nodes |-> {}]
    /\ repNodes = {}
    /\ I = 0 /\ D = [n \in Nodes |-> 0]
    /\ SS = <<>> /\ T = <<>> /\ frames = <<>>
    /\ roots = {} /\ finds = 0

(***************************************************************************)
(* rep(n, r): n becomes a sub node of r and loses its own.                 *)
(***************************************************************************)
SubNodesAfter(n, r) ==
    [m \in Nodes |-> IF m = r THEN subNodes[r] \cup {n}
                     ELSE IF m = n THEN {} ELSE subNodes[m]]

setRep(n, r) ==
    /\ rep' = [rep EXCEPT ![n] = r]
    /\ subNodes' = SubNodesAfter(n, r)
    /\ repNodes' = IF n = r THEN repNodes ELSE (repNodes \ {n}) \cup {r}

\* find and find(candidates): clear, then visit what has not been visited.
clearMutant ==
    /\ visited' = {} /\ inSCC' = {}
    /\ rep' = [n \in Nodes |-> None] /\ subNodes' = [n \in Nodes |-> {}]
    /\ UNCHANGED repNodes
    /\ I' = 0 /\ D' = [n \in Nodes |-> 0]
    /\ SS' = <<>> /\ T' = <<>>

clear ==
    /\ visited' = {} /\ inSCC' = {}
    /\ rep' = [n \in Nodes |-> None] /\ subNodes' = [n \in Nodes |-> {}]
    /\ repNodes' = {}
    /\ I' = 0 /\ D' = [n \in Nodes |-> 0]
    /\ SS' = <<>> /\ T' = <<>>

find(candidates) ==
    /\ Idle /\ finds < MaxFinds
    /\ clear
    /\ roots' = candidates
    /\ finds' = finds + 1
    /\ UNCHANGED <<graph, frames>>

(***************************************************************************)
(* visit(v), from its first line to the loop over the children.            *)
(***************************************************************************)
Enter(v) ==
    /\ I' = I + 1
    /\ D' = [D EXCEPT ![v] = I + 1]
    /\ setRep(v, v)
    /\ visited' = visited \cup {v}
    /\ UNCHANGED <<graph, inSCC, SS, T, roots, finds>>

visitRoot(v) ==
    /\ frames = <<>> /\ v \in roots \ visited
    /\ frames' = <<Frame(v)>>
    /\ Enter(v)

visitChild(w) ==
    /\ frames # <<>> /\ top.child = {}
    /\ w \in top.left \ visited
    /\ frames' = Append(Replace([top EXCEPT !.child = {w}]), Frame(w))
    /\ Enter(w)

\* A child whose component is open lends its representative if that is older.
Older(a, b) == IF D[a] < D[b] THEN a ELSE b

SinkMutant(v, w) == IF rep[w] = w THEN Older(rep[v], w) ELSE rep[v]
Sink(v, w) == Older(rep[v], rep[w])

lowerRepMutant(w) ==
    /\ frames # <<>>
    /\ w \in IF top.child = {} THEN top.left \cap visited ELSE top.child
    /\ frames' = Replace([top EXCEPT !.child = {}, !.left = @ \ {w}])
    /\ setRep(top.node, Sink(top.node, w))
    /\ UNCHANGED <<graph, visited, inSCC, I, D, SS, T, roots, finds>>

lowerRep(w) ==
    /\ frames # <<>>
    /\ w \in IF top.child = {} THEN top.left \cap visited ELSE top.child
    /\ frames' = Replace([top EXCEPT !.child = {}, !.left = @ \ {w}])
    /\ IF w \in inSCC
       THEN UNCHANGED <<rep, subNodes, repNodes>>
       ELSE setRep(top.node, Sink(top.node, w))
    /\ UNCHANGED <<graph, visited, inSCC, I, D, SS, T, roots, finds>>

(***************************************************************************)
(* The end of visit(v).  A node that is its own representative closes its  *)
(* component, the nodes on SS that are younger; another waits on SS.       *)
(***************************************************************************)
Done(v) == frames # <<>> /\ top.node = v /\ top.left = {} /\ top.child = {}
HasYounger(v) == SS # <<>> /\ D[SS[Len(SS)]] > D[v]

leaveOpen(v) ==
    /\ Done(v) /\ rep[v] # v
    /\ SS' = Append(SS, v)
    /\ frames' = Pop(frames)
    /\ UNCHANGED <<graph, infoVars, I, D, T, roots, finds>>

popSS(v) ==
    LET w == SS[Len(SS)]
    IN  /\ Done(v) /\ rep[v] = v
        /\ HasYounger(v)
        /\ SS' = Pop(SS)
        /\ inSCC' = inSCC \cup {v, w}
        /\ setRep(w, v)
        /\ UNCHANGED <<graph, visited, I, D, T, frames, roots, finds>>

closeComponent(v) ==
    /\ Done(v) /\ rep[v] = v
    /\ ~HasYounger(v)
    /\ inSCC' = inSCC \cup {v}
    /\ T' = Append(T, v)
    /\ frames' = Pop(frames)
    /\ UNCHANGED <<graph, visited, rep, subNodes, repNodes, I, D, SS, roots, finds>>

Finished == Idle /\ finds = MaxFinds /\ UNCHANGED vars

Next ==
    \/ \E candidates \in SUBSET Nodes : find(candidates)
    \/ \E v \in Nodes :
           visitRoot(v) \/ visitChild(v) \/ lowerRep(v) \/ leaveOpen(v) \/ popSS(v)
           \/ closeComponent(v)
    \/ Finished

Spec == Init /\ [][Next]_vars

----------------------------------------------------------------------------
(***************************************************************************)
(* The types of the detector's state; a node whose component is complete   *)
(* has been visited.                                                       *)
(***************************************************************************)
TypeOK ==
    /\ graph \in Graphs
    /\ visited \in SUBSET Nodes /\ inSCC \in SUBSET visited
    /\ rep \in [Nodes -> Nodes \cup {None}]
    /\ subNodes \in [Nodes -> SUBSET Nodes] /\ repNodes \in SUBSET Nodes
    /\ I \in Nat /\ D \in [Nodes -> Nat]
    /\ SS \in Seq(Nodes) /\ T \in Seq(Nodes)
    /\ frames \in Seq([node : Nodes, child : SUBSET Nodes, left : SUBSET Nodes])
    /\ roots \in SUBSET Nodes /\ finds \in Nat

ReachableFrom(n) ==
    LET step[k \in 0..Cardinality(Nodes)] ==
            IF k = 0 THEN {n}
            ELSE UNION {reached \cup {e[2] : e \in {x \in graph : x[1] \in reached}} :
                            reached \in {step[k - 1]}}
    IN  step[Cardinality(Nodes)]

ComponentOf(n) == {m \in ReachableFrom(n) : n \in ReachableFrom(m)}

(***************************************************************************)
(* mergeSccCycle merges the sub nodes of every node of repNodes: a search  *)
(* leaves exactly the components reachable from its roots, each as the sub *)
(* nodes of one of its nodes, and repNodes are those of several nodes.     *)
(***************************************************************************)
ComponentsFound ==
    Idle =>
        /\ visited = UNION {ReachableFrom(n) : n \in roots}
        /\ \A n \in visited :
               /\ subNodes[rep[n]] = ComponentOf(n)
               /\ rep[n] # n => subNodes[n] = {}
        /\ repNodes = {rep[n] : n \in {m \in visited : Cardinality(ComponentOf(m)) > 1}}

(***************************************************************************)
(* The wave takes topoNodeStack from its top: every representative is on   *)
(* it once, above those that its component's edges lead to.                *)
(***************************************************************************)
TopologicalOrder ==
    Idle =>
        /\ {T[i] : i \in DOMAIN T} = {rep[n] : n \in visited}
        /\ \A i, j \in DOMAIN T : T[i] = T[j] => i = j
        /\ \A e \in graph : \A i, j \in DOMAIN T :
               (T[i] = rep[e[1]] /\ T[j] = rep[e[2]]) => j <= i

(***************************************************************************)
(* A component once closed is final: no later visit of the same search     *)
(* gives one of its nodes another representative or adds a node to it.     *)
(***************************************************************************)
ClosedIsFinal ==
    [][finds' = finds =>
           \A i \in DOMAIN T :
               /\ subNodes'[T[i]] = subNodes[T[i]]
               /\ \A m \in subNodes[T[i]] : rep'[m] = T[i]]_vars
=============================================================================
