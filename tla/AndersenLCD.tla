---------------------------- MODULE AndersenLCD ----------------------------
(***************************************************************************)
(* Andersen's analysis with lazy cycle detection: a worklist of nodes,     *)
(* each of which turns its loads and stores into copy edges and sends what *)
(* is new along its copy and gep edges.  Components are only looked for    *)
(* from the targets of copy edges whose two ends point to the same, once   *)
(* per edge.                                                               *)
(*                                                                         *)
(* The worklist is taken in any order, the code's queue being one.         *)
(***************************************************************************)
EXTENDS Andersen

VARIABLES
    lcdCandidates,  \* where the next search for components starts
    metEdges        \* copy edges that have been a reason to search

lcdVars == <<lcdCandidates, metEdges>>
solverVars == <<vars, lcdVars>>

Init ==
    /\ InitSolver("solve")
    /\ lcdCandidates = {} /\ metEdges = {}

(***************************************************************************)
(* mergeSCC: find(candidates) visits what the candidates reach and merges  *)
(* every component it finds there.                                         *)
(***************************************************************************)
FoundFrom(starts) ==
    {c \in BigComponents : \E n \in starts : c \subseteq ReachableFrom(n, DirectEdges(MergePWC))}

mergeSCC ==
    /\ phase = "solve" /\ Settled
    /\ worklist # {} /\ lcdCandidates # {}
    /\ \E found \in {FoundFrom(lcdCandidates \cap Reps)} :
           \E root \in {f \in [found -> Reps] : \A c \in found : f[c] \in c} :
               cycles' = {[rep |-> root[c], left |-> c \ {root[c]}, members |-> c,
                           geps |-> {}, scc |-> TRUE] : c \in found}
    /\ lcdCandidates' = {}
    /\ UNCHANGED <<graphVars, prog, ptsVars, phase, waveVars, toCollapse, newCopies, worklist,
                   reanalyze, pwcNodes, objectVars, indCalls, impacted, invariantVars, metEdges>>

\* An edge that moves keeps its identity, unless it meets an edge already there.
MovedMet(node, r) ==
    LET moves(e) == node \in {e[1], e[2]}
    IN  {e \in metEdges : ~moves(e)}
        \cup ({RetargetEdge(e, node, r) : e \in {m \in metEdges : moves(m)}}
                 \cap (MovedCopies(node, r) \ copyE))

\* mergeSrcToTgt: unlike the wave, the representative is solved again.
mergeSrcToTgt(c, node) ==
    /\ mergeNode(c, node)
    /\ worklist' = worklist \cup {c.rep}
    /\ metEdges' = MovedMet(node, c.rep)
    /\ UNCHANGED lcdCandidates

(***************************************************************************)
(* solveWorklist: pop a node, collapsePWCNode, then processNode, which     *)
(* does nothing if collapsing has merged the node away.                    *)
(***************************************************************************)
popFromWorklist(m) ==
    /\ phase = "solve" /\ Settled
    /\ m \in worklist /\ lcdCandidates = {}
    /\ worklist' = worklist \ {m}
    /\ pending' = {rep[m]}
    /\ toCollapse' = IF NeedsCollapse(rep[m]) THEN ToCollapse(rep[m]) ELSE {}
    /\ phase' = "loads"
    /\ UNCHANGED <<graphVars, prog, ptsVars, topo, tmpWorklist, cycles, newCopies,
                   reanalyze, pwcNodes, objectVars, indCalls, impacted, invariantVars, lcdVars>>

skipMerged(n) ==
    /\ phase = "loads" /\ Settled
    /\ n \in pending /\ rep[n] # n
    /\ pending' = {}
    /\ phase' = "solve"
    /\ UNCHANGED <<graphVars, prog, ptsVars, topo, tmpWorklist, cycles, toCollapse, newCopies,
                   worklist, reanalyze, pwcNodes, objectVars, indCalls, impacted,
                   invariantVars, lcdVars>>

handleLoadStore(n) ==
    /\ phase = "loads" /\ Settled
    /\ n \in pending /\ rep[n] = n
    /\ newCopies' = NewEdges(LoadCopies(n) \cup StoreCopies(n))
    /\ phase' = "copies"
    /\ UNCHANGED <<graphVars, prog, ptsVars, waveVars, cycles, toCollapse, worklist,
                   reanalyze, pwcNodes, objectVars, indCalls, impacted, invariantVars, lcdVars>>

\* The source of a new edge is solved again, in this iteration.
addCopyEdgeMutant(e) ==
    /\ insertCopy(e)
    /\ UNCHANGED <<worklist, reanalyze, lcdVars>>

addCopyEdge(e) ==
    /\ insertCopy(e)
    /\ worklist' = worklist \cup {e[1]}
    /\ UNCHANGED <<reanalyze, lcdVars>>

\* The edges out of n whose ends point to the same and are not met yet.
NewlyMet(n) ==
    {e \in copyE \ metEdges : e[1] = n /\ pts[n] # {} /\ pts[e[1]] = pts[e[2]]}

processNode(n) ==
    /\ phase = "copies" /\ newCopies = {}
    /\ n \in pending
    /\ handleCopyGep(n, worklist)
    /\ metEdges' = metEdges \cup NewlyMet(n)
    /\ lcdCandidates' = lcdCandidates \cup {e[2] : e \in NewlyMet(n)}
    /\ pending' = {}
    /\ phase' = "solve"
    /\ UNCHANGED <<graphVars, prog, topo, tmpWorklist, cycles, newCopies, reanalyze,
                   pwcNodes, redundantGepNodes, indCalls, impacted, pwcInvariants>>

endWorklist ==
    /\ phase = "solve" /\ Settled /\ worklist = {}
    /\ phase' = "callgraph"
    /\ UNCHANGED <<graphVars, prog, ptsVars, waveVars, cycles, toCollapse, newCopies, worklist,
                   reanalyze, pwcNodes, objectVars, indCalls, impacted, invariantVars, lcdVars>>

----------------------------------------------------------------------------
Next ==
    \/ mergeSCC
    \/ \E c \in cycles : \E n \in c.left : mergeSrcToTgt(c, n)
    \/ \E n \in Nodes : popFromWorklist(n) \/ skipMerged(n) \/ handleLoadStore(n) \/ processNode(n)
    \/ \E e \in newCopies : addCopyEdge(e)
    \/ endWorklist
    \/ Common("solve") /\ UNCHANGED lcdVars

\* One thread that runs until it is done.
Spec == Init /\ [][Next]_solverVars /\ WF_solverVars(Next)

----------------------------------------------------------------------------
(***************************************************************************)
(* When lazy cycle detection stops it has reached a solution: of the       *)
(* constraints in the graph, and of every load and store, through a merged *)
(* pointer too, since a merge solves the representative again.             *)
(***************************************************************************)
SolutionReached == AtFixpoint => GraphConstraintsHold /\ AccessesHold

(***************************************************************************)
(* Lazy cycle detection loses nothing and adds nothing: on a program       *)
(* without geps the solution is the least one, unless the filters of       *)
(* InvariantPWC speculate a call away or the budget of calls is spent.     *)
(***************************************************************************)
LeastSolution ==
    (Solved /\ prog.gep = {} /\ ~InvariantPWC /\ Cardinality(indCalls) < IndirectCallLimit) =>
        Facts = Inclusion!Least
=============================================================================
