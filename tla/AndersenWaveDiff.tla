-------------------------- MODULE AndersenWaveDiff --------------------------
(***************************************************************************)
(* The wave propagation solver of Andersen's analysis with difference      *)
(* propagation (AndersenWaveDiff on top of Andersen and WPASolver).  One   *)
(* iteration merges the strongly connected components of the direct edges, *)
(* pushes what is new along copy and gep edges in topological order, turns *)
(* the loads and stores of the changed pointers into copy edges, resolves  *)
(* indirect calls, and starts over while any of this asked for it.         *)
(***************************************************************************)
EXTENDS Andersen

Init == InitSolver("scc")

(***************************************************************************)
(* SCCDetect: find the components, choose their representatives, sort the  *)
(* representatives topologically, and start to merge.                      *)
(***************************************************************************)
SCCDetect ==
    /\ phase = "scc"
    /\ \E big \in {BigComponents} : \E root \in {f \in [big -> Reps] : \A c \in big : f[c] \in c} :
           LET top(n) == IF \E c \in big : n \in c
                         THEN root[CHOOSE c \in big : n \in c] ELSE n
           IN  /\ cycles' = {[rep |-> root[c], left |-> c \ {root[c]}, members |-> c,
                              geps |-> {}, scc |-> TRUE] : c \in big}
               /\ pending' = {top(n) : n \in Reps}
               /\ topo' = {<<top(e[1]), top(e[2])>> : e \in DirectEdges(MergePWC)}
    /\ phase' = "wave"
    /\ UNCHANGED <<graphVars, prog, ptsVars, tmpWorklist, toCollapse, newCopies, worklist,
                   reanalyze, pwcNodes, objectVars, indCalls, impacted, invariantVars>>

\* A merge puts neither node on the worklist.
mergeNodeToRep(c, node) == mergeNode(c, node) /\ UNCHANGED worklist

(***************************************************************************)
(* nodeStack in topological order: collapsePWCNode, then processNode.  A   *)
(* node that is no longer a representative or has nothing new is popped    *)
(* without effect; those are taken first.                                  *)
(***************************************************************************)
Ready == {n \in pending : \A m \in pending \ {n} : <<m, n>> \notin topo}

collapsePWCNode(n) ==
    /\ phase = "wave" /\ Settled
    /\ NeedsCollapse(n)
    /\ toCollapse' = ToCollapse(n)
    /\ UNCHANGED <<graphVars, prog, ptsVars, phase, waveVars, cycles, newCopies, worklist,
                   reanalyze, pwcNodes, objectVars, indCalls, impacted, invariantVars>>

Quiet == {n \in Ready : ~NeedsCollapse(n) /\ (rep[n] # n \/ pts[n] = propa[n])}
Fresh == {n \in Ready : Quiet = {} /\ ~NeedsCollapse(n)}

skipQuiet ==
    /\ phase = "wave" /\ Settled
    /\ Quiet # {}
    /\ pending' = pending \ Quiet
    /\ UNCHANGED <<graphVars, prog, ptsVars, phase, topo, tmpWorklist, cycles, toCollapse,
                   newCopies, worklist, reanalyze, pwcNodes, objectVars, indCalls, impacted,
                   invariantVars>>

processNode(n) ==
    /\ phase = "wave" /\ Settled
    /\ n \in pending
    /\ pending' = pending \ {n}
    /\ handleCopyGep(n, worklist)
    /\ UNCHANGED <<graphVars, prog, phase, topo, tmpWorklist, cycles, newCopies, reanalyze,
                   pwcNodes, redundantGepNodes, indCalls, impacted, pwcInvariants>>

endWaveMutant ==
    /\ phase = "wave" /\ Settled /\ pending = {}
    /\ phase' = "post"
    /\ UNCHANGED <<graphVars, prog, ptsVars, waveVars, cycles, toCollapse, newCopies, worklist,
                   reanalyze, pwcNodes, objectVars, indCalls, impacted, invariantVars>>

endWave ==
    /\ phase = "wave" /\ Settled /\ pending = {}
    /\ phase' = IF MergePWC THEN "post" ELSE "rewave"
    /\ UNCHANGED <<graphVars, prog, ptsVars, waveVars, cycles, toCollapse, newCopies, worklist,
                   reanalyze, pwcNodes, objectVars, indCalls, impacted, invariantVars>>

(***************************************************************************)
(* Cycles through gep edges are not merged when MergePWC is off, so the    *)
(* worklist is solved until nothing changes; its nodes go back on it for   *)
(* the loads and stores.                                                   *)
(***************************************************************************)
reprocessNode(n) ==
    /\ phase = "rewave" /\ Settled
    /\ Queued(n) # {}
    /\ tmpWorklist' = tmpWorklist \cup {n}
    /\ handleCopyGep(n, worklist \ Queued(n))
    /\ UNCHANGED <<graphVars, prog, phase, pending, topo, cycles, newCopies, reanalyze,
                   pwcNodes, redundantGepNodes, indCalls, impacted, pwcInvariants>>

endRewave ==
    /\ phase = "rewave" /\ Settled /\ worklist = {}
    /\ worklist' = {rep[n] : n \in tmpWorklist}
    /\ tmpWorklist' = {}
    /\ phase' = "post"
    /\ UNCHANGED <<graphVars, prog, ptsVars, pending, topo, cycles, toCollapse, newCopies,
                   reanalyze, pwcNodes, objectVars, indCalls, impacted, invariantVars>>

(***************************************************************************)
(* postProcessNode: the loads and stores of a node of the worklist.        *)
(***************************************************************************)
postProcessNode(n) ==
    /\ phase = "post" /\ Settled
    /\ Queued(n) # {}
    /\ worklist' = worklist \ Queued(n)
    /\ newCopies' = NewEdges(LoadCopies(n) \cup StoreCopies(n))
    /\ UNCHANGED <<graphVars, prog, ptsVars, phase, waveVars, cycles, toCollapse, reanalyze,
                   pwcNodes, objectVars, indCalls, impacted, invariantVars>>

\* An edge added by a load or a store only asks for another iteration.
addCopyEdge(e) ==
    /\ insertCopy(e)
    /\ reanalyze' = TRUE
    /\ worklist' = IF phase = "callgraph" THEN worklist \cup {e[1]} ELSE worklist

endPost ==
    /\ phase = "post" /\ Settled /\ worklist = {}
    /\ phase' = "callgraph"
    /\ UNCHANGED <<graphVars, prog, ptsVars, waveVars, cycles, toCollapse, newCopies, worklist,
                   reanalyze, pwcNodes, objectVars, indCalls, impacted, invariantVars>>

----------------------------------------------------------------------------
Next ==
    \/ SCCDetect
    \/ \E c \in cycles : \E n \in c.left : mergeNodeToRep(c, n)
    \/ \E n \in Ready : collapsePWCNode(n)
    \/ \E n \in Fresh : processNode(n)
    \/ \E n \in Nodes : reprocessNode(n) \/ postProcessNode(n)
    \/ skipQuiet \/ endWave \/ endRewave \/ endPost
    \/ \E e \in newCopies : addCopyEdge(e)
    \/ Common("scc")

\* One thread that runs until it is done.
Spec == Init /\ [][Next]_vars /\ WF_vars(Next)

(***************************************************************************)
(* One wave in topological order is enough: when it ends and nothing asked *)
(* for another iteration, no representative with a copy or gep edge has    *)
(* anything left to send.                                                  *)
(***************************************************************************)
WaveComplete ==
    (phase \in {"post", "callgraph", "finalize"} /\ ~reanalyze) =>
        \A e \in DirectEdges(TRUE) : diffPts(e[1]) = {}

(***************************************************************************)
(* When the wave solver stops it has reached a solution of the constraints *)
(* in the graph and of the loads and stores through unmerged pointers.     *)
(***************************************************************************)
FixpointReached == AtFixpoint => GraphConstraintsHold /\ UnmergedHold

(***************************************************************************)
(* The solver implements the inclusion constraints: whatever it merges,    *)
(* collapses and connects and in whatever order, no fact outside their     *)
(* least solution is ever derived, none is lost, and finalisation changes  *)
(* nothing.                                                                *)
(***************************************************************************)
ImplementsInclusion == Inclusion!AbsSpec
=============================================================================
