------------------------------ MODULE Andersen ------------------------------
(***************************************************************************)
(* What the solvers of Andersen's inclusion-based analysis share: their    *)
(* state, merging nodes, collapsing the fields of an object, processing    *)
(* copy and gep edges with difference propagation, turning loads and       *)
(* stores into copy edges, resolving indirect calls, and finalisation.     *)
(* AndersenWaveDiff and AndersenLCD are the loops around it.               *)
(*                                                                         *)
(* The kaleidoscope additions: instead of collapsing the objects of a      *)
(* positive weight cycle (InvariantPWC) or of a variable-index gep         *)
(* (InvariantVGEP) the solver drops the imprecise facts and records which  *)
(* run-time invariant must hold for the result to be sound.                *)
(*                                                                         *)
(* The order in which hash tables and sets are iterated is left open.      *)
(***************************************************************************)
EXTENDS ConstraintGraph

CONSTANTS
    Programs,           \* the PAGs to analyse and their options, see IsProgram
    IndirectCallLimit   \* Options::IndirectCallLimit

\* Constraints are between values; only an address names an object, a whole one.
Pointers == Nodes \ ObjNodes
WholeObjs == {o \in ObjNodes : Base[o] = o}

\* heap: the dummy <<value, object>> of an indirectly called allocator.
Calls == [fptr : Pointers, fun : WholeObjs, params : SUBSET (Pointers \X Pointers),
          heap : SUBSET (Pointers \X WholeObjs), argsMatch : BOOLEAN, typesMatch : BOOLEAN]

\* The dummy value of a call site is new, made for the allocators it calls.
FreshDummies(p) ==
    \A c \in p.calls : \A h \in c.heap :
        /\ \A e \in p.copy \cup p.load \cup p.store \cup {<<g.src, g.dst>> : g \in p.gep} :
               h[1] \notin {e[1], e[2]}
        /\ \A d \in p.calls : \A e \in d.params : e[2] # h[1] /\ (e[1] = h[1] => h \in d.heap)

\* Fields come from geps, and no gep defines its own operand (SSA form).
IsProgram(p) ==
    /\ p \in [addr : SUBSET (WholeObjs \X Pointers),
              copy : SUBSET {e \in Pointers \X Pointers : e[1] # e[2]},
              load : SUBSET (Pointers \X Pointers), store : SUBSET (Pointers \X Pointers),
              gep : SUBSET {g \in GepEdges : {g.src, g.dst} \subseteq Pointers /\ g.src # g.dst},
              calls : SUBSET Calls,
              mergePWC : BOOLEAN, invariantPWC : BOOLEAN, invariantVGEP : BOOLEAN]
    /\ FreshDummies(p)

ASSUME SolverAssumption ==
    /\ \A p \in Programs : IsProgram(p)
    /\ IndirectCallLimit \in Nat

VARIABLES
    prog,           \* the program under analysis
    pts,            \* points-to sets, of merged nodes too
    propa,          \* what each node has already propagated
    phase,          \* where the solver is, see Phases
    pending,        \* nodes taken up: nodeStack, or the node popped
    topo,           \* direct edges when nodeStack was sorted
    cycles,         \* merges in progress, see Cycles
    toCollapse,     \* base objects whose fields are to be collapsed
    newCopies,      \* copy edges a load, a store or a call still has to add
    worklist,
    tmpWorklist,
    reanalyze,
    pwcNodes,       \* representatives of positive weight cycles
    redundantGepNodes,
    indCalls,       \* getIndCallMap: indirect calls resolved so far
    impacted,       \* impactedByCollapseSet
    varGepPtd,      \* varGepPtdMap: <<gep instruction, object it must not see>>
    pwcInvariants   \* pwcInvariantMap: the gep instructions of each cycle

\* pwc: the merge comes from SCC detection; geps: criticalGepEdges so far.
Cycles == [rep : Nodes, left : SUBSET Nodes, members : SUBSET Nodes,
           geps : SUBSET GepEdges, scc : BOOLEAN]

ptsVars == <<pts, propa>>
invariantVars == <<varGepPtd, pwcInvariants>>
objectVars == <<fields, fieldInsensitive, redundantGepNodes>>
waveVars == <<pending, topo, tmpWorklist>>
vars == <<graphVars, prog, ptsVars, phase, waveVars, cycles, toCollapse, newCopies,
          worklist, reanalyze, pwcNodes, objectVars, indCalls, impacted, invariantVars>>

\* Options::MergePWC, InvariantPWC and InvariantVGEP come with the program.
MergePWC == prog.mergePWC
InvariantPWC == prog.invariantPWC
InvariantVGEP == prog.invariantVGEP

PTS == SUBSET ObjNodes
getPts(n) == pts[sccRepNode(n)]

\* Nothing is half done: no merge, collapse or edge insertion is under way.
Settled == cycles = {} /\ toCollapse = {} /\ newCopies = {}

----------------------------------------------------------------------------
\* initialize: build the constraint graph, processAllAddr.
StartSolver(first) ==
    /\ copyE = prog.copy /\ loadE = prog.load /\ storeE = prog.store /\ gepE = prog.gep
    /\ rep = [n \in Nodes |-> n]
    /\ subs = [n \in Nodes |-> {}]
    /\ fields = {} /\ fieldInsensitive = {} /\ redundantGepNodes = {}
    /\ pts = [n \in Nodes |-> {o \in ObjNodes : <<o, n>> \in prog.addr}]
    /\ propa = [n \in Nodes |-> {}]
    /\ phase = first
    /\ pending = {} /\ topo = {} /\ tmpWorklist = {}
    /\ cycles = {} /\ toCollapse = {} /\ newCopies = {}
    /\ worklist = {e[2] : e \in prog.addr}
    /\ reanalyze = FALSE
    /\ pwcNodes = {} /\ indCalls = {} /\ impacted = {}
    /\ varGepPtd = {} /\ pwcInvariants = {}

InitSolver(first) == prog \in Programs /\ StartSolver(first)

\* The components to merge: those with more than one node.
BigComponents == {c \in Components(DirectEdges(MergePWC)) : Cardinality(c) > 1}

(***************************************************************************)
(* The points-to data: unionPts, and updatePropaPts, by which a node       *)
(* forgets that it has propagated what another has not.                    *)
(***************************************************************************)
updatePropaPtsMutant(dst, src) == propa

unionPts(dst, src) == [pts EXCEPT ![dst] = @ \cup pts[src]]
updatePropaPts(dst, src) == [propa EXCEPT ![dst] = @ \cap propa[src]]

\* The out-edges a representative takes over are new to it.
MergedPropaMutant(r, node) == propa
MergedPropa(r, node) == updatePropaPts(r, node)

(***************************************************************************)
(* mergeNodeToRep: one node of a component, or of the fields of a          *)
(* collapsed object, into its representative.  Whether the representative  *)
(* goes back on the worklist is for the solver to say.                     *)
(***************************************************************************)
mergeNode(c, node) ==
    LET r == c.rep
        critical == CriticalGeps(node, r)
    IN  /\ c \in cycles /\ node \in c.left
        /\ propa' = MergedPropa(r, node)
        /\ pts' = unionPts(r, node)
        /\ moveEdgesToRepNode(node, r)
        /\ updateNodeRepAndSubs(node, r)
        /\ impacted' = impacted \cup pts[r] \cup pts[node]
        /\ pwcNodes' = IF ~InvariantPWC /\ (critical # {} \/ node \in pwcNodes)
                       THEN pwcNodes \cup {r} ELSE pwcNodes
        /\ cycles' = (cycles \ {c}) \cup
                         {[c EXCEPT !.left = @ \ {node}, !.geps = @ \cup critical]}
        /\ UNCHANGED <<prog, phase, waveVars, toCollapse, newCopies, reanalyze,
                       objectVars, indCalls, invariantVars>>

\* The objects collapseNodePts(n) collapses, as their bases.
ToCollapse(n) == {Base[o] : o \in getPts(n) \ OpaqueObjs} \ fieldInsensitive

\* The gep instructions among the values of a component.
GepsOf(members) == {g.dst : g \in {h \in prog.gep : h.dst \in members}}

(***************************************************************************)
(* The rest of mergeSccNodes: a component with a critical gep is a         *)
(* positive weight cycle.  The rest of collapseField: an object that is    *)
(* itself on such a cycle has the objects it points to collapsed.          *)
(***************************************************************************)
finishScc(c) ==
    /\ c \in cycles /\ c.scc /\ c.left = {}
    /\ cycles' = cycles \ {c}
    /\ IF c.geps # {} /\ InvariantPWC
       THEN /\ pwcInvariants' = pwcInvariants \cup {GepsOf(c.members)}
            /\ UNCHANGED pwcNodes
       ELSE /\ pwcNodes' = IF c.geps # {} THEN pwcNodes \cup {c.rep} ELSE pwcNodes
            /\ UNCHANGED pwcInvariants
    /\ UNCHANGED <<graphVars, prog, ptsVars, phase, waveVars, toCollapse, newCopies, worklist,
                   reanalyze, objectVars, indCalls, impacted, varGepPtd>>

finishCollapse(c) ==
    /\ c \in cycles /\ ~c.scc /\ c.left = {}
    /\ cycles' = cycles \ {c}
    /\ toCollapse' = IF c.rep \in pwcNodes THEN toCollapse \cup ToCollapse(c.rep) ELSE toCollapse
    /\ UNCHANGED <<graphVars, prog, ptsVars, phase, waveVars, newCopies, worklist, reanalyze,
                   pwcNodes, objectVars, indCalls, impacted, invariantVars>>

(***************************************************************************)
(* collapseField.  An object needs collapsing when a node on a positive    *)
(* weight cycle points to it (collapsePWCNode).                            *)
(***************************************************************************)
NeedsCollapse(n) == MergePWC /\ sccRepNode(n) \in pwcNodes /\ ToCollapse(n) # {}

\* Every pointer to a field of b points to b instead; then the fields are merged.
CollapsedPtsMutant(n, fs, b) == pts[n] \ fs

CollapsedPts(n, fs, b) == IF pts[n] \cap fs = {} THEN pts[n] ELSE (pts[n] \ fs) \cup {b}

collapseField(b) ==
    LET fs  == AllFieldsObjNode(b)
        hit == {n \in Nodes : pts[n] \cap fs # {}}
    IN  /\ cycles = {} /\ b \in toCollapse
        /\ toCollapse' = toCollapse \ {b}
        /\ fieldInsensitive' = fieldInsensitive \cup {b}
        /\ pts' = [n \in Nodes |-> CollapsedPts(n, fs, b)]
        /\ worklist' = worklist \cup {rep[n] : n \in hit}
        /\ reanalyze' = (reanalyze \/ hit # {})
        /\ redundantGepNodes' = redundantGepNodes \cup fs
        /\ cycles' = {[rep |-> rep[b], left |-> {rep[f] : f \in fs} \ {rep[b]},
                       members |-> {}, geps |-> {}, scc |-> FALSE]}
        /\ UNCHANGED <<graphVars, prog, propa, phase, waveVars, newCopies, pwcNodes, fields,
                       indCalls, impacted, invariantVars>>

(***************************************************************************)
(* processGepPts: what a gep edge makes of the objects in objs.            *)
(***************************************************************************)
VariantTargets(objs, insensitive) ==
    IF ~InvariantVGEP
    THEN {Base[o] : o \in objs}
    ELSE {GepObjNode(o, 0, insensitive) : o \in {x \in objs : Base[x] \in ArrayObjs \ StructObjs}}
         \cup {Base[o] : o \in {x \in objs : Base[x] \notin ArrayObjs \cup StructObjs}}

GepTargets(g, objs, insensitive) ==
    LET plain == objs \ OpaqueObjs
    IN  (objs \cap OpaqueObjs) \cup
        IF g.kind = "normal" THEN {GepObjNode(o, g.off, insensitive) : o \in plain}
        ELSE VariantTargets(plain, insensitive)

\* Objects a variable index is assumed never to reach into.
ExcludedByInvariant(g, objs) ==
    IF InvariantVGEP /\ g.kind = "variant"
    THEN {o \in objs \ OpaqueObjs : Base[o] \in StructObjs} ELSE {}

(***************************************************************************)
(* handleCopyGep: compute the difference and send it along every copy and  *)
(* gep edge.  Without InvariantVGEP a variant gep makes its objects field  *)
(* insensitive at once, before or after a normal gep of the same node      *)
(* looks at them.                                                          *)
(***************************************************************************)
diffPts(n) == pts[n] \ propa[n]
GepsFrom(n) == {g \in gepE : g.src = n}

NewlyInsensitive(n) ==
    IF ~InvariantVGEP /\ \E g \in GepsFrom(n) : g.kind = "variant"
    THEN {Base[o] : o \in diffPts(n) \ OpaqueObjs} \ fieldInsensitive ELSE {}

Gained(n, insensitive, d) ==
    (IF <<n, d>> \in copyE THEN diffPts(n) ELSE {}) \cup
    UNION {GepTargets(g, diffPts(n), insensitive) : g \in {h \in GepsFrom(n) : h.dst = d}}

handleCopyGep(n, queue) ==
    \E insensitive \in {fieldInsensitive, fieldInsensitive \cup NewlyInsensitive(n)} :
        LET gain == [d \in Nodes |-> Gained(n, insensitive, d)]
        IN  /\ propa' = [propa EXCEPT ![n] = pts[n]]
            /\ pts' = [d \in Nodes |-> pts[d] \cup gain[d]]
            /\ worklist' = queue \cup {d \in Nodes : ~(gain[d] \subseteq pts[d])}
            /\ fields' = fields \cup
                   UNION {GepTargets(g, diffPts(n), insensitive) : g \in GepsFrom(n)}
            /\ fieldInsensitive' = fieldInsensitive \cup NewlyInsensitive(n)
            /\ toCollapse' = NewlyInsensitive(n)
            /\ varGepPtd' = varGepPtd \cup
                   UNION {{g.inst} \X ExcludedByInvariant(g, diffPts(n)) : g \in GepsFrom(n)}

\* The worklist entries that stand for a node.
Queued(n) == {m \in worklist : rep[m] = n}

(***************************************************************************)
(* processLoad and processStore, for every object a node points to.        *)
(* NewEdges leaves out the edges addCopyCGEdge would refuse; insertCopy    *)
(* then adds the others one by one.                                        *)
(***************************************************************************)
LoadCopiesMutant(n) ==
    {<<o, e[2]>> : o \in (pts[n] \ propa[n]) \ PointerlessObjs, e \in {x \in loadE : x[1] = n}}

LoadCopies(n) ==
    {<<o, e[2]>> : o \in pts[n] \ PointerlessObjs, e \in {x \in loadE : x[1] = n}}
StoreCopies(n) ==
    {<<e[1], o>> : o \in pts[n] \ PointerlessObjs, e \in {x \in storeE : x[2] = n}}
SelfEdgesMutant(pairs) == {<<rep[x[1]], rep[x[2]]>> : x \in pairs} \ copyE

NewEdges(pairs) ==
    {e \in {<<rep[x[1]], rep[x[2]]>> : x \in pairs} : e[1] # e[2]} \ copyE

\* A new edge: its source has to propagate again.
insertCopy(e) ==
    /\ e \in newCopies
    /\ newCopies' = newCopies \ {e}
    /\ copyE' = copyE \cup {e}
    /\ propa' = updatePropaPts(e[1], e[2])
    /\ UNCHANGED <<gepE, loadE, storeE, rep, subs, prog, pts, phase, waveVars, cycles,
                   toCollapse, pwcNodes, objectVars, indCalls, impacted, invariantVars>>

(***************************************************************************)
(* updateCallGraph: resolveIndCalls, then connectCaller2CalleeParams.      *)
(***************************************************************************)
AnyTargetMutant(c) ==
    /\ c \in prog.calls \ indCalls
    /\ Cardinality(indCalls) < IndirectCallLimit
    /\ InvariantPWC => c.argsMatch /\ (c.fun \in impacted => c.typesMatch)

BudgetMutant(c) ==
    /\ c \in prog.calls \ indCalls
    /\ c.fun \in getPts(c.fptr)
    /\ Cardinality(indCalls) + 1 < IndirectCallLimit
    /\ InvariantPWC => c.argsMatch /\ (c.fun \in impacted => c.typesMatch)

FallbackFilterMutant(c) ==
    /\ c \in prog.calls \ indCalls
    /\ c.fun \in getPts(c.fptr)
    /\ Cardinality(indCalls) < IndirectCallLimit
    /\ ~InvariantPWC => c.argsMatch /\ (c.fun \in impacted => c.typesMatch)

Resolvable(c) ==
    /\ c \in prog.calls \ indCalls
    /\ c.fun \in getPts(c.fptr)
    /\ Cardinality(indCalls) < IndirectCallLimit
    /\ InvariantPWC => c.argsMatch /\ (c.fun \in impacted => c.typesMatch)

resolveIndCall(c) ==
    /\ phase = "callgraph" /\ Settled
    /\ Resolvable(c)
    /\ indCalls' = indCalls \cup {c}
    /\ reanalyze' = TRUE
    /\ IF c.argsMatch
       THEN /\ newCopies' = NewEdges(c.params)
            /\ pts' = [n \in Nodes |-> pts[n] \cup {o \in ObjNodes : <<n, o>> \in c.heap}]
       ELSE UNCHANGED <<newCopies, pts>>
    /\ UNCHANGED <<graphVars, prog, propa, phase, waveVars, cycles, toCollapse, worklist,
                   pwcNodes, objectVars, impacted, invariantVars>>

\* analyze: another iteration, or the end.
endIterationMutant(first) ==
    /\ phase = "callgraph" /\ Settled
    /\ \A c \in prog.calls : ~Resolvable(c)
    /\ phase' = IF reanalyze THEN first ELSE "finalize"
    /\ UNCHANGED <<graphVars, prog, ptsVars, waveVars, cycles, toCollapse, newCopies, worklist,
                   reanalyze, pwcNodes, objectVars, indCalls, impacted, invariantVars>>

endIteration(first) ==
    /\ phase = "callgraph" /\ Settled
    /\ \A c \in prog.calls : ~Resolvable(c)
    /\ phase' = IF reanalyze THEN first ELSE "finalize"
    /\ reanalyze' = FALSE
    /\ UNCHANGED <<graphVars, prog, ptsVars, waveVars, cycles, toCollapse, newCopies, worklist,
                   pwcNodes, objectVars, indCalls, impacted, invariantVars>>

(***************************************************************************)
(* normalizePointsTo                                                       *)
(***************************************************************************)
removeGepNode(n) ==
    /\ phase = "finalize"
    /\ n \in redundantGepNodes
    /\ redundantGepNodes' = redundantGepNodes \ {n}
    /\ fields' = fields \ {n}
    /\ cleanConsCG(n)
    /\ UNCHANGED <<copyE, gepE, loadE, storeE, prog, ptsVars, phase, waveVars, cycles,
                   toCollapse, newCopies, worklist, reanalyze, pwcNodes, fieldInsensitive,
                   indCalls, impacted, invariantVars>>

finish ==
    /\ phase = "finalize" /\ redundantGepNodes = {}
    /\ phase' = "done"
    /\ UNCHANGED <<graphVars, prog, ptsVars, waveVars, cycles, toCollapse, newCopies, worklist,
                   reanalyze, pwcNodes, objectVars, indCalls, impacted, invariantVars>>

Terminated == phase = "done" /\ UNCHANGED vars

\* The steps that do not depend on the loop around them.
Common(first) ==
    \/ \E c \in cycles : finishScc(c) \/ finishCollapse(c)
    \/ \E b \in toCollapse : collapseField(b)
    \/ \E c \in prog.calls : resolveIndCall(c)
    \/ endIteration(first)
    \/ \E n \in redundantGepNodes : removeGepNode(n)
    \/ finish \/ Terminated

----------------------------------------------------------------------------
Phases == {"scc", "wave", "rewave", "post", "solve", "loads", "copies", "callgraph",
           "finalize", "done"}
Solving == phase \notin {"finalize", "done"}
Solved == phase = "finalize"

\* The types of the solver's state.
TypeOK ==
    /\ IsProgram(prog)
    /\ copyE \subseteq {e \in Edges : e[1] # e[2]}
    /\ loadE \subseteq Edges /\ storeE \subseteq Edges
    /\ gepE \subseteq GepEdges
    /\ rep \in [Nodes -> Nodes] /\ subs \in [Nodes -> SUBSET Nodes]
    /\ fields \subseteq ObjNodes /\ fieldInsensitive \subseteq ObjNodes
    /\ redundantGepNodes \subseteq ObjNodes
    /\ pts \in [Nodes -> PTS] /\ propa \in [Nodes -> PTS]
    /\ phase \in Phases
    /\ pending \subseteq Nodes /\ topo \subseteq Edges /\ tmpWorklist \subseteq Nodes
    /\ cycles \subseteq Cycles
    /\ toCollapse \subseteq ObjNodes
    /\ newCopies \subseteq {e \in Edges : e[1] # e[2]}
    /\ worklist \subseteq Nodes
    /\ reanalyze \in BOOLEAN
    /\ pwcNodes \subseteq Nodes
    /\ indCalls \subseteq prog.calls /\ impacted \subseteq ObjNodes
    /\ varGepPtd \subseteq Nodes \X ObjNodes
    /\ pwcInvariants \subseteq SUBSET Nodes

(***************************************************************************)
(* Merging keeps the graph and the two maps in step: edges end at          *)
(* representatives, representatives represent themselves, and the sub      *)
(* nodes of a node are exactly the others it stands for.                   *)
(***************************************************************************)
RepsAndSubs ==
    Solving =>
        /\ \A n \in Nodes : rep[n] \in Reps /\ subs[n] = {m \in Nodes \ {n} : rep[m] = n}
        /\ copyE \cup loadE \cup storeE \cup DirectEdges(TRUE) \subseteq Reps \X Reps

\* An object is in a points-to set itself or as the base that a collapse put in its place.
Covers(set, objs, collapsed) == \A o \in objs : o \in set \/ Base[o] \in set \cap collapsed
HasAll(set, objs) == Covers(set, objs, fieldInsensitive)

(***************************************************************************)
(* Difference propagation never skips a fact: what a node counts as        *)
(* propagated is in the points-to set at the other end of each of its      *)
(* edges, whatever edges and nodes have been added, merged or collapsed    *)
(* since.                                                                  *)
(***************************************************************************)
CopiesPropagated == \A e \in copyE : HasAll(pts[e[2]], propa[e[1]])

(***************************************************************************)
(* A collapsed object has no field left in any points-to set.              *)
(***************************************************************************)
FieldsGone ==
    \A n \in Nodes : \A o \in pts[n] :
        Base[o] \in fieldInsensitive \ toCollapse => o = Base[o]

(***************************************************************************)
(* Every gep edge that merging took out of the graph is accounted for: it  *)
(* adds no offset, or its instruction is in a recorded cycle (so a monitor *)
(* can be placed on it), or it runs inside a node whose objects get        *)
(* collapsed.                                                              *)
(***************************************************************************)
LostGepsAccounted ==
    (Solving /\ cycles = {}) =>
        \A g \in prog.gep :
            \/ g.kind = "normal" /\ g.off = 0
            \/ \E h \in gepE : h.inst = g.inst /\ h.off = g.off
            \/ \E insts \in pwcInvariants : g.inst \in insts
            \/ rep[g.src] = rep[g.dst] /\ rep[g.src] \in pwcNodes

(***************************************************************************)
(* Facts are never lost while solving: not by merging, not by collapsing.  *)
(***************************************************************************)
FactsKept ==
    [][Solving => \A n \in Nodes : Covers(pts'[rep'[n]], pts[rep[n]], fieldInsensitive')]_vars

\* When the constraint of an address, a copy edge and a gep is satisfied.
AddrHolds(e) == HasAll(getPts(e[2]), {e[1]})
CopyHolds(e) == HasAll(getPts(e[2]), getPts(e[1]))
GepHolds(g) ==
    /\ HasAll(getPts(g.dst), GepTargets(g, getPts(g.src), fieldInsensitive))
    /\ {g.inst} \X ExcludedByInvariant(g, getPts(g.src)) \subseteq varGepPtd

(***************************************************************************)
(* The solution satisfies the address, copy and gep constraints of the     *)
(* program; geps in a recorded cycle and objects excluded from a variant   *)
(* gep are what the invariants speculate on.                               *)
(***************************************************************************)
Monitored(g) == \E insts \in pwcInvariants : g.inst \in insts

DirectConstraintsHold ==
    Solved =>
        /\ \A e \in prog.addr : AddrHolds(e)
        /\ \A e \in prog.copy : CopyHolds(e)
        /\ \A g \in prog.gep : Monitored(g) \/ GepHolds(g)

(***************************************************************************)
(* The comments of processLoad and processStore: "node \in pts(src) ==>    *)
(* node--copy-->dst" and "node \in pts(dst) ==> src--copy-->node".  The    *)
(* solution is closed under the program's loads and stores.                *)
(***************************************************************************)
LoadHolds(e) ==
    \A o \in getPts(e[1]) \ PointerlessObjs : HasAll(getPts(e[2]), getPts(o))
StoreHolds(e) ==
    \A o \in getPts(e[2]) \ PointerlessObjs : HasAll(getPts(o), getPts(e[1]))

AccessesHold == (\A e \in prog.load : LoadHolds(e)) /\ (\A e \in prog.store : StoreHolds(e))

LoadStoreConstraintsHold == Solved => AccessesHold

(***************************************************************************)
(* What the code does guarantee: the loads and stores through a pointer    *)
(* that shares its representative with no other node are closed.  A merge  *)
(* puts no node on the worklist, so a load or store of a merged pointer    *)
(* may not see what its representative gained by the merge.                *)
(***************************************************************************)
Unmerged(p) == \A m \in Nodes : rep[m] = rep[p] => m = p

UnmergedHold ==
    /\ \A e \in prog.load : Unmerged(e[1]) => LoadHolds(e)
    /\ \A e \in prog.store : Unmerged(e[2]) => StoreHolds(e)

UnmergedLoadStoresHold == Solved => UnmergedHold

(***************************************************************************)
(* Every indirect call whose pointer holds a callable target is connected, *)
(* arguments to parameters, when the solver stops - unless the budget of   *)
(* IndirectCallLimit resolved calls is spent, or the call is one the       *)
(* arity and type filters of InvariantPWC speculate away.                  *)
(***************************************************************************)
Connected(c) ==
    \/ c.fun \notin getPts(c.fptr)
    \/ c \notin indCalls /\ ~(Cardinality(indCalls) < IndirectCallLimit)
    \/ c \notin indCalls /\ InvariantPWC /\ ~(c.argsMatch /\ c.typesMatch)
    \/ ~c.argsMatch
    \/ \A e \in c.params : CopyHolds(e)

CallsConnected == Solved => \A c \in prog.calls : Connected(c)

(***************************************************************************)
(* Before finalisation forgets the representatives of field nodes, the     *)
(* solution satisfies every constraint there is an edge for: addresses,    *)
(* copies, calls, and the geps that merging has left in the graph (or has  *)
(* put inside one node, where only an offset would be missed).             *)
(***************************************************************************)
InGraph(g) ==
    \/ [g EXCEPT !.src = rep[g.src], !.dst = rep[g.dst]] \in gepE
    \/ isZeroOffsettedGepCGEdge(g) /\ rep[g.src] = rep[g.dst]

AtFixpoint ==
    phase = "callgraph" /\ Settled /\ ~reanalyze /\ \A c \in prog.calls : ~Resolvable(c)

GraphConstraintsHold ==
    /\ \A e \in prog.addr : AddrHolds(e)
    /\ \A e \in prog.copy : CopyHolds(e)
    /\ \A c \in prog.calls : Connected(c)
    /\ \A g \in prog.gep : InGraph(g) => GepHolds(g)

(***************************************************************************)
(* The solution as the facts the inclusion constraints speak of, in which  *)
(* an object is one with its fields.                                       *)
(***************************************************************************)
Whole(n) == IF n \in ObjNodes THEN Base[n] ELSE n
Facts == UNION {{<<Base[o], Whole(n)>> : o \in getPts(n)} : n \in Nodes}

Inclusion == INSTANCE InclusionConstraints
    WITH sol <- Facts, finished <- phase \in {"finalize", "done"}

(***************************************************************************)
(* The solver is no less precise than the inclusion constraints ask for:   *)
(* neither merging, nor collapsing, nor a stale edge ever makes a node     *)
(* point to an object that it does not point to in their least solution.   *)
(***************************************************************************)
Precise == Facts \subseteq Inclusion!Least

\* The solver terminates.
Termination == <>(phase = "done")
=============================================================================
