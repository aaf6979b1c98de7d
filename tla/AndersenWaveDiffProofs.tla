----------------------- MODULE AndersenWaveDiffProofs -----------------------
(***************************************************************************)
(* The wave solver for every program, every set of objects and fields and  *)
(* every choice of options: its types; that difference propagation never   *)
(* skips a fact along a copy edge, merging keeps representatives and       *)
(* facts, and a collapsed object has no field left; that the order of the  *)
(* wave leaves nothing behind, so that the iteration stops only where the  *)
(* constraints hold; and that it finds no fact beyond the least solution.  *)
(* For both rounds of the pass: that the optimistic one finds nothing      *)
(* outside of any solution with fields, that the fallback one ends with    *)
(* such a solution, and so has all that the optimistic one has.            *)
(***************************************************************************)
EXTENDS WPAPass, AndersenProofs

(***************************************************************************)
(* Finding the components changes no type.                                 *)
(***************************************************************************)
LEMMA SCCDetectTypes == TypeOK /\ SCCDetect => TypeOK'
<1> SUFFICES ASSUME TypeOK, SCCDetect PROVE TypeOK'
    OBVIOUS
<1> DEFINE direct == DirectEdges(MergePWC)
<1>1. direct \subseteq Edges
    BY DEF TypeOK, DirectEdges, GepEdges, Edges
<1>2. PICK big \in {BigComponents} :
           \E root \in {f \in [big -> Reps] : \A c \in big : f[c] \in c} :
               LET top(n) == IF \E c \in big : n \in c
                             THEN root[CHOOSE c \in big : n \in c] ELSE n
               IN  /\ cycles' = {[rep |-> root[c], left |-> c \ {root[c]}, members |-> c,
                                  geps |-> {}, scc |-> TRUE] : c \in big}
                   /\ pending' = {top(n) : n \in Reps}
                   /\ topo' = {<<top(e[1]), top(e[2])>> : e \in direct}
    BY DEF SCCDetect
<1>3. big \subseteq SUBSET Nodes
    BY DEF BigComponents, Components, Reps
<1>4. PICK root \in {f \in [big -> Reps] : \A c \in big : f[c] \in c} :
          LET top(n) == IF \E c \in big : n \in c
                        THEN root[CHOOSE c \in big : n \in c] ELSE n
          IN  /\ cycles' = {[rep |-> root[c], left |-> c \ {root[c]}, members |-> c,
                             geps |-> {}, scc |-> TRUE] : c \in big}
              /\ pending' = {top(n) : n \in Reps}
              /\ topo' = {<<top(e[1]), top(e[2])>> : e \in direct}
    BY <1>2
<1> DEFINE top(n) == IF \E c \in big : n \in c
                     THEN root[CHOOSE c \in big : n \in c] ELSE n
<1>5. ASSUME NEW n \in Nodes PROVE top(n) \in Nodes
    <2>1. CASE \E c \in big : n \in c
        <3>1. (CHOOSE c \in big : n \in c) \in big
            BY <2>1
        <3> QED BY <2>1, <3>1, <1>4 DEF Reps
    <2>2. CASE ~(\E c \in big : n \in c)
        BY <2>2
    <2> QED BY <2>1, <2>2
<1> HIDE DEF top, direct
<1>6. cycles' = {[rep |-> root[c], left |-> c \ {root[c]}, members |-> c,
                  geps |-> {}, scc |-> TRUE] : c \in big}
    BY <1>4
<1>7. cycles' \subseteq Cycles
    <2>1. ASSUME NEW c \in big
          PROVE  [rep |-> root[c], left |-> c \ {root[c]}, members |-> c,
                  geps |-> {}, scc |-> TRUE] \in Cycles
        <3>1. root[c] \in Nodes /\ c \in SUBSET Nodes
            BY <1>3 DEF Reps
        <3> QED BY <3>1 DEF Cycles
    <2> QED BY <1>6, <2>1
<1>8. pending' = {top(n) : n \in Reps}
    BY <1>4 DEF top
<1>9. topo' = {<<top(e[1]), top(e[2])>> : e \in direct}
    BY <1>4 DEF top
<1>10. pending' \subseteq Nodes
    BY <1>5, <1>8 DEF Reps
<1>11. topo' \subseteq Edges
    BY <1>1, <1>5, <1>9 DEF Edges
<1> QED
    BY <1>7, <1>10, <1>11 DEF SCCDetect, TypeOK, Phases, graphVars, ptsVars, objectVars, invariantVars

(***************************************************************************)
(* Collapsing the objects of a positive weight cycle's node keeps the      *)
(* types.                                                                  *)
(***************************************************************************)
LEMMA CollapseTypes ==
    ASSUME TypeOK, NEW n \in Nodes, collapsePWCNode(n)
    PROVE  TypeOK'
<1>1. toCollapse' \subseteq ObjNodes
    BY ToCollapseType DEF TypeOK, collapsePWCNode
<1> QED
    BY <1>1 DEF TypeOK, collapsePWCNode, graphVars, ptsVars, waveVars, objectVars, invariantVars

(***************************************************************************)
(* Processing a node, in any of its three ways, keeps the types.           *)
(***************************************************************************)
LEMMA NodeTypes ==
    ASSUME TypeOK, NEW n \in Nodes, processNode(n) \/ reprocessNode(n) \/ postProcessNode(n)
    PROVE  TypeOK'
<1>1. CASE processNode(n)
    <2>1. /\ pts' \in [Nodes -> PTS] /\ propa' \in [Nodes -> PTS]
          /\ worklist' \subseteq Nodes
          /\ fields' \subseteq ObjNodes /\ fieldInsensitive' \subseteq ObjNodes
          /\ toCollapse' \subseteq ObjNodes
          /\ varGepPtd' \subseteq Nodes \X ObjNodes
        BY <1>1, HandleCopyGepTypes DEF TypeOK, processNode
    <2> QED BY <1>1, <2>1 DEF TypeOK, processNode, graphVars
<1>2. CASE reprocessNode(n)
    <2>1. worklist \ Queued(n) \in SUBSET Nodes
        BY DEF TypeOK
    <2>2. /\ pts' \in [Nodes -> PTS] /\ propa' \in [Nodes -> PTS]
          /\ worklist' \subseteq Nodes
          /\ fields' \subseteq ObjNodes /\ fieldInsensitive' \subseteq ObjNodes
          /\ toCollapse' \subseteq ObjNodes
          /\ varGepPtd' \subseteq Nodes \X ObjNodes
        BY <1>2, <2>1, HandleCopyGepTypes DEF reprocessNode
    <2>3. tmpWorklist' \subseteq Nodes
        BY <1>2 DEF TypeOK, reprocessNode
    <2> QED BY <1>2, <2>2, <2>3 DEF TypeOK, reprocessNode, graphVars
<1>3. CASE postProcessNode(n)
    <2>1. LoadCopies(n) \cup StoreCopies(n) \in SUBSET Edges
        BY GraphAssumption DEF TypeOK, PTS, LoadCopies, StoreCopies, Edges
    <2>2. newCopies' \subseteq {e \in Edges : e[1] # e[2]}
        BY <1>3, <2>1, NewEdgesType DEF TypeOK, postProcessNode
    <2>3. worklist' \subseteq Nodes
        BY <1>3 DEF TypeOK, postProcessNode
    <2> QED
        BY <1>3, <2>2, <2>3
        DEF TypeOK, postProcessNode, graphVars, ptsVars, waveVars, objectVars, invariantVars
<1> QED BY <1>1, <1>2, <1>3

(***************************************************************************)
(* The steps that only move the solver to its next phase keep the types.   *)
(***************************************************************************)
LEMMA WaveStepTypes ==
    ASSUME TypeOK, skipQuiet \/ endWave \/ endRewave \/ endPost
    PROVE  TypeOK'
<1>1. CASE skipQuiet
    BY <1>1
    DEF TypeOK, skipQuiet, graphVars, ptsVars, objectVars, invariantVars
<1>2. CASE endWave
    BY <1>2
    DEF TypeOK, endWave, Phases, graphVars, ptsVars, waveVars, objectVars, invariantVars
<1>3. CASE endRewave
    <2>1. worklist' \subseteq Nodes /\ tmpWorklist' \subseteq Nodes /\ phase' \in Phases
        BY <1>3 DEF TypeOK, endRewave, Phases
    <2> QED
        BY <1>3, <2>1 DEF TypeOK, endRewave, graphVars, ptsVars, objectVars, invariantVars
<1>4. CASE endPost
    BY <1>4
    DEF TypeOK, endPost, Phases, graphVars, ptsVars, waveVars, objectVars, invariantVars
<1> QED BY <1>1, <1>2, <1>3, <1>4

(***************************************************************************)
(* The program stays what it is.                                           *)
(***************************************************************************)
LEMMA ProgramStays == [Next]_vars => prog' = prog
BY DEF Next, SCCDetect, mergeNodeToRep, mergeNode, collapsePWCNode, processNode, reprocessNode,
       postProcessNode, skipQuiet, endWave, endRewave, endPost, addCopyEdge, insertCopy, Common,
       finishScc, finishCollapse, collapseField, resolveIndCall, endIteration, removeGepNode,
       finish, Terminated, vars

(***************************************************************************)
(* The only step from solving to finalisation is the end of an iteration.  *)
(***************************************************************************)
LEMMA LastIteration ==
    ASSUME Next, Solving, ~Solving'
    PROVE  endIteration("scc")
BY DEF Next, SCCDetect, mergeNodeToRep, mergeNode, collapsePWCNode, processNode, reprocessNode,
       postProcessNode, skipQuiet, endWave, endRewave, endPost, addCopyEdge, insertCopy, Common,
       finishScc, finishCollapse, collapseField, resolveIndCall, removeGepNode, finish, Terminated,
       Solving, vars

(***************************************************************************)
(* After it redundant field nodes are removed, and nothing else happens.   *)
(***************************************************************************)
LEMMA FinalSteps ==
    ASSUME cycles = {}, toCollapse = {}, newCopies = {}, Next, ~Solving
    PROVE  (\E n \in redundantGepNodes : removeGepNode(n)) \/ finish \/ Terminated
BY DEF Next, SCCDetect, collapsePWCNode, processNode, reprocessNode, postProcessNode,
       skipQuiet, endWave, endRewave, endPost, Common, resolveIndCall, endIteration, Solving

(***************************************************************************)
(* The wave only ever processes nodes of the graph.                        *)
(***************************************************************************)
LEMMA ReadyNodes == TypeOK => Ready \subseteq Nodes /\ Fresh \subseteq Nodes
BY DEF TypeOK, Ready, Fresh

(***************************************************************************)
(* Every step keeps the types.                                             *)
(***************************************************************************)
LEMMA StepTypes == TypeOK /\ [Next]_vars => TypeOK'
<1> SUFFICES ASSUME TypeOK, [Next]_vars PROVE TypeOK'
    OBVIOUS
<1>1. CASE SCCDetect
    BY <1>1, SCCDetectTypes
<1>2. ASSUME NEW c \in cycles, NEW n \in c.left, mergeNodeToRep(c, n) PROVE TypeOK'
    BY <1>2, MergeTypes DEF mergeNodeToRep, TypeOK
<1>3. ASSUME NEW n \in Nodes, collapsePWCNode(n) PROVE TypeOK'
    BY <1>3, CollapseTypes
<1>4. ASSUME NEW n \in Nodes, processNode(n) \/ reprocessNode(n) \/ postProcessNode(n)
      PROVE  TypeOK'
    BY <1>4, NodeTypes
<1>5. CASE skipQuiet \/ endWave \/ endRewave \/ endPost
    BY <1>5, WaveStepTypes
<1>6. ASSUME NEW e \in newCopies, addCopyEdge(e) PROVE TypeOK'
    <2>1. worklist' \subseteq Nodes /\ reanalyze' \in BOOLEAN
        BY <1>6 DEF TypeOK, addCopyEdge, Edges
    <2> QED BY <1>6, <2>1, EdgeTypes DEF addCopyEdge
<1>7. CASE Common("scc")
    BY <1>7, CommonTypes DEF Phases
<1>8. CASE UNCHANGED vars
    BY <1>8, StutterTypes
<1>9. Ready \subseteq Nodes /\ Fresh \subseteq Nodes
    BY ReadyNodes
<1> QED BY <1>1, <1>2, <1>3, <1>4, <1>5, <1>6, <1>7, <1>8, <1>9 DEF Next

(***************************************************************************)
(* The solver's state is well typed.                                       *)
(***************************************************************************)
THEOREM TypeCorrect == Spec => []TypeOK
<1>1. Init => TypeOK
    BY ProgramsStart, InitTypes DEF Init, Phases
<1> QED BY <1>1, StepTypes, PTL DEF Spec

(***************************************************************************)
(* Every step keeps the invariant of copy propagation.                     *)
(***************************************************************************)
LEMMA CopyInvStep == TypeOK /\ CopyInv /\ [Next]_vars => CopyInv'
<1> SUFFICES ASSUME TypeOK, CopyInv, [Next]_vars PROVE CopyInv'
    OBVIOUS
<1>1. ASSUME NEW c \in cycles, NEW n \in c.left, mergeNodeToRep(c, n) PROVE CopyInv'
    BY <1>1, CopyInvMerge DEF mergeNodeToRep
<1>2. ASSUME NEW n \in Nodes, processNode(n) \/ reprocessNode(n) PROVE CopyInv'
    BY <1>2, CopyInvPropagate DEF processNode, reprocessNode, graphVars
<1>3. ASSUME NEW e \in newCopies, addCopyEdge(e) PROVE CopyInv'
    BY <1>3, CopyInvAddEdge DEF addCopyEdge
<1>4. CASE Common("scc")
    BY <1>4, CopyInvCommon DEF Phases
<1>5. CASE UNCHANGED <<copyE, pts, propa, fieldInsensitive>>
    BY <1>5, CopyInvGrows
<1>6. ASSUME NEW n \in Nodes, collapsePWCNode(n) \/ postProcessNode(n) PROVE CopyInv'
    BY <1>5, <1>6 DEF collapsePWCNode, postProcessNode, graphVars, ptsVars, objectVars
<1>7. CASE SCCDetect \/ skipQuiet \/ endWave \/ endRewave
    BY <1>5, <1>7 DEF SCCDetect, skipQuiet, endWave, endRewave, graphVars, ptsVars, objectVars
<1>8. CASE endPost \/ UNCHANGED vars
    BY <1>5, <1>8 DEF endPost, vars, graphVars, ptsVars, objectVars
<1>9. Ready \subseteq Nodes /\ Fresh \subseteq Nodes
    BY ReadyNodes
<1> QED BY <1>1, <1>2, <1>3, <1>4, <1>6, <1>7, <1>8, <1>9 DEF Next

(***************************************************************************)
(* No fact is ever skipped along a copy edge: for every program, order of  *)
(* processing, merge and collapse, what a node counts as propagated is in  *)
(* the points-to set of every copy successor.                              *)
(***************************************************************************)
THEOREM CopyPropagation == Spec => []CopiesPropagated
<1>1. Init => TypeOK /\ CopyInv
    BY ProgramsStart, InitTypes, CopyInvInit DEF Init, Phases
<1>2. TypeOK /\ CopyInv /\ [Next]_vars => (TypeOK /\ CopyInv)'
    BY StepTypes, CopyInvStep
<1>3. CopyInv => CopiesPropagated
    BY DEF CopyInv
<1> QED BY <1>1, <1>2, <1>3, PTL DEF Spec

-----------------------------------------------------------------------------
(***************************************************************************)
(* Merging and collapsing in the wave.  Detection starts with no merge     *)
(* under way: the waves before it have finished theirs.                    *)
(***************************************************************************)
DetectSettled == phase = "scc" => Settled

MergeInv == RepInv /\ DoneSettled /\ FieldInv /\ DetectSettled

(***************************************************************************)
(* Detection hands disjoint components of representatives to the merges.   *)
(***************************************************************************)
LEMMA DetectMerges ==
    ASSUME TypeOK, MergeInv, SCCDetect
    PROVE  MergeInv' /\ FactsStay
<1>1. Settled /\ Solving /\ UNCHANGED <<graphVars, newCopies, toCollapse, pts>>
    BY DEF MergeInv, DetectSettled, SCCDetect, Solving, ptsVars
<1>2. PICK big \in {BigComponents} :
          \E root \in {f \in [big -> Reps] : \A c \in big : f[c] \in c} :
              cycles' = {[rep |-> root[c], left |-> c \ {root[c]}, members |-> c,
                          geps |-> {}, scc |-> TRUE] : c \in big}
    BY DEF SCCDetect
<1> PICK root \in {f \in [big -> Reps] : \A c \in big : f[c] \in c} :
             cycles' = {[rep |-> root[c], left |-> c \ {root[c]}, members |-> c,
                         geps |-> {}, scc |-> TRUE] : c \in big}
    BY <1>2
<1>3. RepInv'
    BY <1>1, <1>2, RepInvFound DEF MergeInv, Settled
<1>4. phase' = "wave" /\ Solving'
    BY DEF SCCDetect, Solving
<1>5. FieldInv'
    BY <1>1, FieldInvFrame DEF MergeInv, FieldInv, BasesOnly, SCCDetect, objectVars
<1>6. FactsStay
    BY <1>1, FactsGrow DEF graphVars
<1> QED BY <1>3, <1>4, <1>5, <1>6 DEF MergeInv, DoneSettled, DetectSettled

(***************************************************************************)
(* Taking up a node of the wave or of the worklist.                        *)
(***************************************************************************)
LEMMA NodeMerges ==
    ASSUME TypeOK, MergeInv, NEW n \in Nodes,
           collapsePWCNode(n) \/ processNode(n) \/ reprocessNode(n) \/ postProcessNode(n)
    PROVE  MergeInv' /\ FactsStay
<1>1. /\ Settled /\ Solving /\ Solving' /\ phase' = phase /\ phase # "scc"
      /\ UNCHANGED <<graphVars, cycles>>
    BY DEF collapsePWCNode, processNode, reprocessNode, postProcessNode, Solving
<1>2. DoneSettled' /\ DetectSettled'
    BY <1>1 DEF DoneSettled, DetectSettled
<1>3. CASE collapsePWCNode(n)
    <2>1. UNCHANGED <<pts, fields, fieldInsensitive, newCopies>> /\ toCollapse' = ToCollapse(n)
        BY <1>3 DEF collapsePWCNode, ptsVars, objectVars
    <2>2. RepInv'
        BY <1>1, <2>1, RepInvFrame DEF MergeInv, Settled
    <2>3. FieldInv'
        BY <1>1, <2>1, FieldInvFrame, ToCollapseBases DEF MergeInv, Settled
    <2>4. FactsStay
        BY <1>1, <2>1, FactsGrow DEF graphVars
    <2> QED BY <1>2, <2>2, <2>3, <2>4 DEF MergeInv
<1>4. ASSUME NEW queue, handleCopyGep(n, queue), UNCHANGED newCopies
      PROVE  MergeInv' /\ FactsStay
    <2>1. RepInv'
        BY <1>1, <1>4, RepInvFrame DEF MergeInv, Settled
    <2>2. FieldInv'
        BY <1>1, <1>4, FieldInvPropagate DEF MergeInv, Settled
    <2>3. \A d \in Nodes : pts[d] \subseteq pts'[d]
        BY <1>4 DEF handleCopyGep
    <2>4. FactsStay
        BY <1>1, <2>3, FactsGrow DEF graphVars
    <2> QED BY <1>2, <2>1, <2>2, <2>4 DEF MergeInv
<1>5. CASE processNode(n) \/ reprocessNode(n)
    BY <1>4, <1>5 DEF processNode, reprocessNode
<1>6. CASE postProcessNode(n)
    <2>1. LoadCopies(n) \cup StoreCopies(n) \in SUBSET Edges
        BY GraphAssumption DEF TypeOK, PTS, LoadCopies, StoreCopies, Edges
    <2>2. /\ newCopies' = NewEdges(LoadCopies(n) \cup StoreCopies(n))
          /\ UNCHANGED <<pts, fields, fieldInsensitive, toCollapse>>
        BY <1>6 DEF postProcessNode, ptsVars, objectVars
    <2>3. RepInv'
        BY <1>1, <2>1, <2>2, RepInvAsk DEF MergeInv
    <2>4. FieldInv'
        BY <1>1, <2>2, FieldInvFrame DEF MergeInv, FieldInv, BasesOnly
    <2>5. FactsStay
        BY <1>1, <2>2, FactsGrow DEF graphVars
    <2> QED BY <1>2, <2>3, <2>4, <2>5 DEF MergeInv
<1> QED BY <1>3, <1>5, <1>6

(***************************************************************************)
(* Steps that leave the graph, the merges and the facts alone.             *)
(***************************************************************************)
LEMMA FrameMerges ==
    ASSUME TypeOK, MergeInv, skipQuiet \/ endWave \/ endRewave \/ endPost
    PROVE  MergeInv' /\ FactsStay
<1>1. /\ Settled /\ Solving /\ Solving' /\ phase' # "scc"
      /\ UNCHANGED <<graphVars, cycles, newCopies, toCollapse, pts, fields, fieldInsensitive>>
    BY DEF skipQuiet, endWave, endRewave, endPost, Solving, ptsVars, objectVars
<1>2. RepInv'
    BY <1>1, RepInvFrame DEF MergeInv, Settled
<1>3. FieldInv'
    BY <1>1, FieldInvFrame DEF MergeInv, FieldInv, BasesOnly
<1>4. FactsStay
    BY <1>1, FactsGrow DEF graphVars
<1> QED BY <1>1, <1>2, <1>3, <1>4 DEF MergeInv, DoneSettled, DetectSettled

(***************************************************************************)
(* Every step of the wave solver keeps the representatives in step, the    *)
(* facts while solving, and collapsed objects without fields.              *)
(***************************************************************************)
LEMMA MergeStep == TypeOK /\ MergeInv /\ [Next]_vars => MergeInv' /\ (Solving => FactsStay)
<1> SUFFICES ASSUME TypeOK, MergeInv, [Next]_vars
             PROVE  MergeInv' /\ (Solving => FactsStay)
    OBVIOUS
<1>1. CASE SCCDetect
    BY <1>1, DetectMerges
<1>2. ASSUME NEW c \in cycles, NEW n \in c.left, mergeNodeToRep(c, n)
      PROVE  MergeInv' /\ FactsStay
    <2>1. mergeNode(c, n) /\ phase' = phase
        BY <1>2 DEF mergeNodeToRep, mergeNode
    <2>2. Solving /\ phase # "scc"
        BY DEF MergeInv, DoneSettled, DetectSettled, Settled
    <2>3. RepInv' /\ FieldInv' /\ FactsStay
        BY <2>1, RepInvMerge, FieldInvMerge, FactsMerge DEF MergeInv
    <2> QED BY <2>1, <2>2, <2>3 DEF MergeInv, DoneSettled, DetectSettled, Solving
<1>3. ASSUME NEW n \in Nodes,
             collapsePWCNode(n) \/ processNode(n) \/ reprocessNode(n) \/ postProcessNode(n)
      PROVE  MergeInv' /\ FactsStay
    BY <1>3, NodeMerges
<1>4. CASE skipQuiet \/ endWave \/ endRewave \/ endPost
    BY <1>4, FrameMerges
<1>5. ASSUME NEW e \in newCopies, addCopyEdge(e) PROVE MergeInv' /\ FactsStay
    <2>1. insertCopy(e)
        BY <1>5 DEF addCopyEdge
    <2>2. UNCHANGED <<pts, rep, phase, toCollapse, cycles, fields, fieldInsensitive>>
        BY <2>1 DEF insertCopy, objectVars
    <2>3. Solving /\ phase # "scc"
        BY <2>1 DEF MergeInv, DoneSettled, DetectSettled, Settled, insertCopy
    <2>4. RepInv'
        BY <2>1, RepInvAddEdge DEF MergeInv
    <2>5. FieldInv'
        BY <2>2, FieldInvFrame DEF MergeInv, FieldInv, BasesOnly, Solving
    <2>6. FactsStay
        BY <2>2, FactsGrow
    <2> QED BY <2>2, <2>3, <2>4, <2>5, <2>6 DEF MergeInv, DoneSettled, DetectSettled, Solving
<1>6. CASE Common("scc")
    <2>1. RepInv' /\ DoneSettled' /\ FieldInv' /\ (Solving => FactsStay)
        BY <1>6, RepInvCommon, FieldInvCommon, FactsCommon DEF MergeInv, Phases
    <2>2. DetectSettled'
        <3>1. CASE endIteration("scc")
            BY <3>1 DEF endIteration, DetectSettled, Settled
        <3>2. CASE phase' = "done"
            BY <3>2 DEF DetectSettled
        <3>3. ASSUME phase' = phase, ~Settled \/ phase # "scc" PROVE DetectSettled'
            BY <3>3 DEF MergeInv, DetectSettled
        <3>4. ASSUME NEW c \in cycles, finishScc(c) \/ finishCollapse(c) PROVE DetectSettled'
            BY <3>3, <3>4 DEF finishScc, finishCollapse, Settled
        <3>5. ASSUME NEW b \in toCollapse, collapseField(b) PROVE DetectSettled'
            BY <3>3, <3>5 DEF collapseField, Settled
        <3>6. ASSUME NEW c \in prog.calls, resolveIndCall(c) PROVE DetectSettled'
            BY <3>3, <3>6 DEF resolveIndCall
        <3>7. ASSUME NEW n \in redundantGepNodes, removeGepNode(n) PROVE DetectSettled'
            BY <3>3, <3>7 DEF removeGepNode
        <3> QED BY <1>6, <3>1, <3>2, <3>4, <3>5, <3>6, <3>7 DEF Common, finish, Terminated, vars
    <2> QED BY <2>1, <2>2 DEF MergeInv
<1>7. CASE UNCHANGED vars
    <2>1. RepInv'
        BY <1>7, RepInvStutter DEF MergeInv
    <2>2. UNCHANGED <<pts, rep, phase, toCollapse, cycles, newCopies, fields, fieldInsensitive>>
        BY <1>7 DEF vars, graphVars, ptsVars, objectVars
    <2>3. FieldInv'
        BY <2>2, FieldInvFrame DEF MergeInv, FieldInv, BasesOnly, Solving
    <2>4. FactsStay
        BY <2>2, FactsGrow
    <2> QED BY <2>1, <2>2, <2>3, <2>4 DEF MergeInv, DoneSettled, DetectSettled, Settled, Solving
<1>8. Ready \subseteq Nodes /\ Fresh \subseteq Nodes
    BY ReadyNodes
<1> QED BY <1>1, <1>2, <1>3, <1>4, <1>5, <1>6, <1>7, <1>8 DEF Next

(***************************************************************************)
(* The wave solver starts with nothing merged and nothing collapsed.       *)
(***************************************************************************)
LEMMA MergeInvInit ==
    ASSUME IsProgram(prog), StartSolver("scc")
    PROVE  MergeInv
<1>1. RepInv /\ DoneSettled /\ FieldInv
    BY RepInvInit, FieldInvInit DEF Phases
<1>2. DetectSettled
    BY DEF StartSolver, DetectSettled, Settled
<1> QED BY <1>1, <1>2 DEF MergeInv

(***************************************************************************)
(* While the wave solver runs, representatives, sub nodes and edges agree, *)
(* for every program, choice of representatives and order of merges.       *)
(***************************************************************************)
THEOREM RepsInStep == Spec => []RepsAndSubs
<1>1. Init => TypeOK /\ MergeInv
    BY ProgramsStart, InitTypes, MergeInvInit DEF Init, Phases
<1>2. TypeOK /\ MergeInv /\ [Next]_vars => (TypeOK /\ MergeInv)'
    BY StepTypes, MergeStep
<1>3. MergeInv => RepsAndSubs
    BY DEF MergeInv, RepInv, RepMaps, EdgesAtReps, RepsAndSubs
<1> QED BY <1>1, <1>2, <1>3, PTL DEF Spec

(***************************************************************************)
(* No step of the wave solver loses a fact: what a node points to, it or   *)
(* the node it is merged into points to ever after, the fields of a        *)
(* collapsed object through the object.                                    *)
(***************************************************************************)
THEOREM NoFactLost == Spec => FactsKept
<1>1. Init => TypeOK /\ MergeInv
    BY ProgramsStart, InitTypes, MergeInvInit DEF Init, Phases
<1>2. TypeOK /\ MergeInv /\ [Next]_vars => (TypeOK /\ MergeInv)'
    BY StepTypes, MergeStep
<1>3. TypeOK /\ MergeInv /\ [Next]_vars
          => [Solving => \A n \in Nodes : Covers(pts'[rep'[n]], pts[rep[n]], fieldInsensitive')]_vars
    BY MergeStep DEF FactsStay, HasAfter
<1> QED BY <1>1, <1>2, <1>3, PTL DEF Spec, FactsKept

(***************************************************************************)
(* Once an object is collapsed no points-to set of the wave solver holds a *)
(* field of it, for every program and every order of geps and collapses.   *)
(***************************************************************************)
THEOREM CollapsedForGood == Spec => []FieldsGone
<1>1. Init => TypeOK /\ MergeInv
    BY ProgramsStart, InitTypes, MergeInvInit DEF Init, Phases
<1>2. TypeOK /\ MergeInv /\ [Next]_vars => (TypeOK /\ MergeInv)'
    BY StepTypes, MergeStep
<1>3. MergeInv => FieldsGone
    BY DEF MergeInv, FieldInv
<1> QED BY <1>1, <1>2, <1>3, PTL DEF Spec
-----------------------------------------------------------------------------
(* One wave is enough.                                                     *)

\* The node that has, or is about to take over, the edges of n.
StandsFor(n, t) ==
    \/ \E c \in cycles : n \in c.left /\ t = c.rep
    \/ (\A c \in cycles : n \notin c.left) /\ t = n

\* Unless an iteration was asked for, only detection's merges move anything.
MergesPending ==
    \A c \in cycles : c.left = {} \/ (phase = "wave" /\ c.rep \in pending)

\* The order of the wave is one of the edges there are.
OrderKept ==
    /\ \A e \in topo : e[1] \in pending => e[2] \in pending
    /\ \A e \in DirectEdges(MergePWC) : \A a, b \in Nodes :
           StandsFor(e[1], a) /\ StandsFor(e[2], b) => a = b \/ <<a, b>> \in topo

\* Where the solver will still look at a node that has something to send.
WillProcess(n) ==
    \/ phase = "scc"
    \/ phase = "wave" /\ (n \in pending \/ \E c \in cycles : n \in c.left)
    \/ phase = "wave" /\ ~MergePWC /\ Queued(n) # {}
    \/ phase = "rewave" /\ Queued(n) # {}

NothingSkipped == \A n \in Reps : diffPts(n) = {} \/ WillProcess(n)

(***************************************************************************)
(* Between two iterations, unless something has asked for another: the     *)
(* nodes still to be processed are closed under the edges, and no other    *)
(* node has anything to send.                                              *)
(***************************************************************************)
WaveInv ==
    /\ Solving => NoSelfGeps /\ FieldsInUse
    /\ phase \in {"wave", "rewave"} => newCopies = {}
    /\ Solving /\ ~reanalyze => MergesPending /\ NothingSkipped
    /\ phase = "wave" /\ ~reanalyze => OrderKept
    /\ phase = "finalize" => AllSent

(***************************************************************************)
(* With no merge left every node stands for itself.                        *)
(***************************************************************************)
LEMMA StandsForItself ==
    ASSUME \A c \in cycles : c.left = {}
    PROVE  \A n : StandsFor(n, n)
BY DEF StandsFor

(***************************************************************************)
(* When the last phase of an iteration has skipped nothing, nothing is     *)
(* left to send.                                                           *)
(***************************************************************************)
LEMMA NothingToSend ==
    ASSUME RepInv, Solving, NothingSkipped, phase \in {"post", "callgraph"}
    PROVE  AllSent
<1>1. \A n \in Reps : ~WillProcess(n)
    BY DEF WillProcess
<1>2. \A e \in DirectEdges(TRUE) : e[1] \in Reps
    BY DEF RepInv, EdgesAtReps
<1> QED BY <1>1, <1>2 DEF NothingSkipped, AllSent

(***************************************************************************)
(* Detection takes up every node and sorts by the edges as they will be.   *)
(***************************************************************************)
LEMMA WaveDetect ==
    ASSUME TypeOK, MergeInv, WaveInv, SCCDetect
    PROVE  /\ WaveInv'
           /\ \A c \in cycles' : c.rep \in pending'
           /\ \A n \in Reps : n \in pending' \/ \E c \in cycles' : n \in c.left
<1> DEFINE direct == DirectEdges(MergePWC)
<1>1. /\ Settled /\ Solving /\ phase = "scc" /\ phase' = "wave"
      /\ UNCHANGED <<copyE, gepE, rep, prog, pts, propa, fields, fieldInsensitive, newCopies,
                     toCollapse, reanalyze>>
    BY DEF MergeInv, DetectSettled, SCCDetect, Solving, ptsVars, graphVars, objectVars
<1>2. NoSelfGeps' /\ FieldsInUse'
    BY <1>1 DEF WaveInv, NoSelfGeps, FieldsInUse
<1>3. direct' = direct /\ Reps' = Reps
    BY <1>1 DEF DirectEdges, MergePWC, Reps
<1>4. PICK big \in {BigComponents} :
           \E root \in {f \in [big -> Reps] : \A c \in big : f[c] \in c} :
               LET top(n) == IF \E c \in big : n \in c
                             THEN root[CHOOSE c \in big : n \in c] ELSE n
               IN  /\ cycles' = {[rep |-> root[c], left |-> c \ {root[c]}, members |-> c,
                                  geps |-> {}, scc |-> TRUE] : c \in big}
                   /\ pending' = {top(n) : n \in Reps}
                   /\ topo' = {<<top(e[1]), top(e[2])>> : e \in direct}
    BY DEF SCCDetect
<1>5. PICK root \in {f \in [big -> Reps] : \A c \in big : f[c] \in c} :
          LET top(n) == IF \E c \in big : n \in c
                        THEN root[CHOOSE c \in big : n \in c] ELSE n
          IN  /\ cycles' = {[rep |-> root[c], left |-> c \ {root[c]}, members |-> c,
                             geps |-> {}, scc |-> TRUE] : c \in big}
              /\ pending' = {top(n) : n \in Reps}
              /\ topo' = {<<top(e[1]), top(e[2])>> : e \in direct}
    BY <1>4
<1> DEFINE top(n) == IF \E c \in big : n \in c
                     THEN root[CHOOSE c \in big : n \in c] ELSE n
<1>6. \A c, d \in big : c # d => c \cap d = {}
    BY ComponentsApart DEF BigComponents
<1>7. \A c \in big : \A n \in c : top(n) = root[c]
    BY <1>6
<1>8. \A n : (\A c \in big : n \notin c) => top(n) = n
    OBVIOUS
<1> HIDE DEF top, direct
<1>9. cycles' = {[rep |-> root[c], left |-> c \ {root[c]}, members |-> c,
                  geps |-> {}, scc |-> TRUE] : c \in big}
    BY <1>5
<1>10. pending' = {top(n) : n \in Reps} /\ topo' = {<<top(e[1]), top(e[2])>> : e \in direct}
    BY <1>5 DEF top
<1>11. \A c \in cycles' : \E d \in big : c.rep = root[d] /\ c.left = d \ {root[d]}
    BY <1>9
<1>12. ASSUME NEW d \in big
       PROVE  \E c \in cycles' : c.rep = root[d] /\ c.left = d \ {root[d]}
    <2> DEFINE merge == [rep |-> root[d], left |-> d \ {root[d]}, members |-> d,
                         geps |-> {}, scc |-> TRUE]
    <2>1. merge \in cycles'
        BY <1>9
    <2>2. merge.rep = root[d] /\ merge.left = d \ {root[d]}
        OBVIOUS
    <2> QED BY <2>1, <2>2
<1>13. \A c \in big : root[c] \in c /\ root[c] \in Reps
    OBVIOUS
<1>14. ASSUME NEW c \in cycles' PROVE c.rep \in pending'
    <2>1. PICK d \in big : c.rep = root[d]
        BY <1>11
    <2> QED BY <2>1, <1>7, <1>10, <1>13
<1>15. ASSUME NEW n, NEW t, StandsFor(n, t)' PROVE t = top(n)
    <2>1. CASE \E c \in cycles' : n \in c.left /\ t = c.rep
        BY <2>1, <1>7, <1>11
    <2>2. CASE (\A c \in cycles' : n \notin c.left) /\ t = n
        <3>1. \A d \in big : n \in d => n = root[d]
            BY <2>2, <1>12
        <3> QED BY <2>2, <3>1, <1>7, <1>8
    <2> QED BY <1>15, <2>1, <2>2 DEF StandsFor
<1>16. ASSUME NEW e \in topo' PROVE e[2] \in pending'
    <2>1. PICK f \in direct : e = <<top(f[1]), top(f[2])>>
        BY <1>10
    <2>2. f[2] \in Reps
        BY <1>1 DEF MergeInv, RepInv, EdgesAtReps, direct, DirectEdges
    <2> QED BY <2>1, <2>2, <1>10
<1>17. ASSUME NEW e \in direct', NEW a \in Nodes, NEW b \in Nodes,
              StandsFor(e[1], a)', StandsFor(e[2], b)'
       PROVE  <<a, b>> \in topo'
    BY <1>3, <1>10, <1>15, <1>17
<1>18. OrderKept'
    BY <1>16, <1>17 DEF OrderKept, direct
<1>19. ASSUME NEW n \in Reps PROVE n \in pending' \/ \E c \in cycles' : n \in c.left
    <2>1. CASE \E c \in big : n \in c /\ n # root[c]
        BY <2>1, <1>12
    <2>2. CASE \A c \in big : n \in c => n = root[c]
        <3>1. top(n) = n
            BY <2>2, <1>7, <1>8
        <3> QED BY <3>1, <1>10
    <2> QED BY <2>1, <2>2
<1>20. MergesPending' /\ NothingSkipped'
    BY <1>1, <1>3, <1>14, <1>19 DEF MergesPending, NothingSkipped, WillProcess
<1> QED BY <1>1, <1>2, <1>14, <1>18, <1>19, <1>20 DEF WaveInv, Settled

(***************************************************************************)
(* A merge moves edges and differences to a node that is still to be       *)
(* processed.                                                              *)
(***************************************************************************)
LEMMA WaveMerge ==
    ASSUME TypeOK, MergeInv, WaveInv, NEW c \in cycles, NEW node \in c.left, mergeNodeToRep(c, node)
    PROVE  WaveInv'
<1> DEFINE r == c.rep
           smaller == [c EXCEPT !.left = @ \ {node}, !.geps = @ \cup CriticalGeps(node, r)]
<1>1. /\ mergeNode(c, node)
      /\ UNCHANGED <<prog, phase, pending, topo, newCopies, reanalyze, fields, fieldInsensitive,
                     toCollapse, worklist>>
    BY DEF mergeNodeToRep, mergeNode, waveVars, objectVars
<1>2. Solving /\ Solving'
    BY <1>1 DEF MergeInv, DoneSettled, Settled, Solving
<1>3. /\ r \in Reps /\ node \in Reps /\ r # node /\ RepInv'
      /\ \A m \in Nodes : rep'[m] = IF rep[m] = node THEN r ELSE rep[m]
    BY <1>1, RepInvMerge DEF MergeInv
<1>4. r \in Nodes /\ node \in Nodes /\ Reps' = Reps \ {node}
    BY <1>3 DEF Reps
<1>5. /\ \A n \in Nodes : n # r => pts'[n] = pts[n] /\ propa'[n] = propa[n]
      /\ \A n \in Nodes : pts[n] \subseteq pts'[n]
    BY <1>1, <1>4 DEF TypeOK, mergeNode, unionPts, MergedPropa, updatePropaPts
<1>6. NoSelfGeps' /\ FieldsInUse'
    BY <1>1, <1>2, <1>4, <1>5, SelfGepsMerge, FieldsInUseFrame DEF WaveInv, mergeNode
<1>7. cycles' = (cycles \ {c}) \cup {smaller}
    BY <1>1 DEF mergeNode
<1>8. smaller.rep = r /\ smaller.left = c.left \ {node}
    BY DEF TypeOK, Cycles
<1> HIDE DEF smaller
<1>9. \A d \in cycles : r \notin d.left
    BY <1>2 DEF MergeInv, RepInv, MergesApart, Block
<1>10. ASSUME ~reanalyze
       PROVE  phase = "wave" /\ MergesPending' /\ NothingSkipped' /\ OrderKept'
    <2>1. MergesPending /\ NothingSkipped /\ phase = "wave" /\ r \in pending /\ OrderKept
        BY <1>2, <1>10 DEF WaveInv, MergesPending
    <2>2. MergesPending'
        BY <1>1, <1>7, <1>8, <2>1 DEF MergesPending
    <2>3. ASSUME NEW n \in Reps' PROVE diffPts(n)' = {} \/ WillProcess(n)'
        <3>1. CASE n = r
            BY <3>1, <1>1, <2>1 DEF WillProcess
        <3>2. CASE n # r
            <4>1. n \in Reps /\ n \in Nodes /\ n # node /\ diffPts(n)' = diffPts(n)
                BY <1>4, <1>5, <3>2 DEF diffPts, Reps
            <4>2. ASSUME NEW d \in cycles, n \in d.left PROVE \E e \in cycles' : n \in e.left
                BY <1>7, <1>8, <4>1, <4>2
            <4>3. Queued(n) \subseteq Queued(n)'
                BY <1>1, <1>3, <3>2, <4>1 DEF Queued, TypeOK
            <4>4. MergePWC' = MergePWC
                BY <1>1 DEF MergePWC
            <4> QED BY <1>1, <2>1, <4>1, <4>2, <4>3, <4>4 DEF WillProcess, NothingSkipped
        <3> QED BY <3>1, <3>2
    <2>4. ASSUME NEW m, NEW a, StandsFor(Retarget(m, node, r), a)' PROVE StandsFor(m, a)
        <3>1. CASE m = node
            <4>1. \A d \in cycles' : r \notin d.left
                BY <1>7, <1>8, <1>9
            <4>2. a = r
                BY <2>4, <3>1, <4>1 DEF StandsFor, Retarget
            <4> QED BY <3>1, <4>2 DEF StandsFor
        <3>2. CASE m # node
            <4>1. StandsFor(m, a)'
                BY <2>4, <3>2 DEF Retarget
            <4> QED BY <4>1, <1>7, <1>8, <3>2 DEF StandsFor
        <3> QED BY <3>1, <3>2
    <2>5. ASSUME NEW e \in DirectEdges(MergePWC)'
          PROVE  \E f \in DirectEdges(MergePWC) : e = RetargetEdge(f, node, r)
        <3>1. copyE' = MovedCopies(node, r) /\ gepE' = MovedGeps(node, r) /\ MergePWC' = MergePWC
            BY <1>1 DEF mergeNode, moveEdgesToRepNode, MergePWC
        <3>2. CASE e \in copyE'
            BY <3>1, <3>2 DEF MovedCopies, DirectEdges
        <3>3. ASSUME NEW g \in gepE', e = <<g.src, g.dst>>, MergePWC
              PROVE  \E f \in DirectEdges(MergePWC) : e = RetargetEdge(f, node, r)
            <4>1. PICK h \in gepE : (g = h /\ ~Touches(h, node)) \/ g = RetargetGep(h, node, r)
                BY <3>1 DEF MovedGeps
            <4>2. g.src = Retarget(h.src, node, r) /\ g.dst = Retarget(h.dst, node, r)
                BY <4>1 DEF TypeOK, GepEdges, RetargetGep, Retarget, Touches
            <4>3. <<h.src, h.dst>> \in DirectEdges(MergePWC)
                BY <3>3 DEF DirectEdges
            <4> QED BY <3>3, <4>2, <4>3 DEF RetargetEdge
        <3> QED BY <3>1, <3>2, <3>3 DEF DirectEdges
    <2>6. ASSUME NEW e \in DirectEdges(MergePWC)', NEW a \in Nodes, NEW b \in Nodes,
                 StandsFor(e[1], a)', StandsFor(e[2], b)'
          PROVE  a = b \/ <<a, b>> \in topo'
        <3>1. PICK f \in DirectEdges(MergePWC) : e = RetargetEdge(f, node, r)
            BY <2>5
        <3>2. e[1] = Retarget(f[1], node, r) /\ e[2] = Retarget(f[2], node, r)
            BY <3>1 DEF RetargetEdge
        <3>3. StandsFor(f[1], a) /\ StandsFor(f[2], b)
            BY <2>4, <2>6, <3>2
        <3> QED BY <1>1, <2>1, <3>3 DEF OrderKept
    <2>7. OrderKept'
        BY <1>1, <2>1, <2>6 DEF OrderKept
    <2> QED BY <2>1, <2>2, <2>3, <2>7 DEF NothingSkipped
<1> QED BY <1>1, <1>2, <1>6, <1>10 DEF WaveInv, Solving

(***************************************************************************)
(* Processing a node of the wave: whoever gains from it comes later in the *)
(* order, or is on the worklist.                                           *)
(***************************************************************************)
LEMMA WaveProcess ==
    ASSUME TypeOK, MergeInv, WaveInv, NEW n \in Fresh, processNode(n)
    PROVE  WaveInv'
<1>1. /\ Settled /\ Solving /\ phase = "wave" /\ n \in Nodes /\ handleCopyGep(n, worklist)
      /\ UNCHANGED <<graphVars, prog, phase, topo, cycles, newCopies, reanalyze>>
      /\ pending' = pending \ {n}
    BY ReadyNodes DEF processNode, Solving
<1>2. NoSelfGeps /\ FieldsInUse /\ newCopies = {}
    BY <1>1 DEF WaveInv
<1>3. FieldsInUse' /\ NoSelfGeps'
    BY <1>1, <1>2, FieldsInUsePropagate DEF Settled, NoSelfGeps, graphVars
<1>4. /\ Reps' = Reps /\ DirectEdges(MergePWC)' = DirectEdges(MergePWC) /\ MergePWC' = MergePWC
      /\ \A m : StandsFor(m, m) /\ \A t : StandsFor(m, t)' <=> StandsFor(m, t)
    BY <1>1 DEF Reps, DirectEdges, MergePWC, StandsFor, graphVars, Settled
<1>5. \A m \in pending \ {n} : <<m, n>> \notin topo
    BY DEF Fresh, Ready
<1>6. ASSUME ~reanalyze PROVE MergesPending' /\ NothingSkipped' /\ OrderKept'
    <2>1. NothingSkipped /\ OrderKept
        BY <1>1, <1>6 DEF WaveInv
    <2>2. OrderKept'
        <3>1. ASSUME NEW e \in topo, e[1] \in pending' PROVE e[2] \in pending'
            <4>1. e[1] \in pending \ {n} /\ e[2] \in pending
                BY <1>1, <2>1, <3>1 DEF OrderKept
            <4>2. e = <<e[1], e[2]>>
                BY DEF TypeOK, Edges
            <4> QED BY <1>1, <1>5, <4>1, <4>2
        <3>2. ASSUME NEW e \in DirectEdges(MergePWC), NEW a \in Nodes, NEW b \in Nodes,
                     StandsFor(e[1], a)', StandsFor(e[2], b)'
              PROVE  a = b \/ <<a, b>> \in topo'
            BY <1>1, <1>4, <2>1, <3>2 DEF OrderKept
        <3> QED BY <1>1, <1>4, <3>1, <3>2 DEF OrderKept
    <2>3. MergesPending'
        BY <1>1 DEF MergesPending, Settled
    <2>4. ASSUME NEW m \in Reps PROVE diffPts(m)' = {} \/ WillProcess(m)'
        <3>1. m \in Nodes /\ rep[m] = m
            BY DEF Reps
        <3>2. CASE m = n
            BY <1>1, <1>2, <3>2, PropagateSends DEF diffPts
        <3>3. CASE m # n /\ diffPts(m)' = diffPts(m)
            <4>1. Queued(m) \subseteq Queued(m)'
                BY <1>1, <1>2, PropagateSends DEF Queued, graphVars
            <4> QED BY <1>1, <1>4, <2>1, <3>3, <4>1 DEF NothingSkipped, WillProcess, Settled
        <3>4. CASE m # n /\ diffPts(m)' # diffPts(m)
            <4>1. <<n, m>> \in DirectEdges(TRUE) /\ m \in worklist'
                BY <1>1, <1>2, <3>1, <3>4, PropagateSends DEF diffPts
            <4>2. CASE MergePWC
                <5>1. <<n, m>> \in topo
                    BY <1>1, <1>4, <2>1, <3>1, <3>4, <4>1, <4>2 DEF OrderKept
                <5>2. m \in pending'
                    BY <1>1, <2>1, <3>4, <5>1 DEF OrderKept, Fresh, Ready
                <5> QED BY <1>1, <5>2 DEF WillProcess
            <4>3. CASE ~MergePWC
                BY <1>1, <1>4, <3>1, <4>1, <4>3 DEF WillProcess, Queued, graphVars
            <4> QED BY <4>2, <4>3
        <3> QED BY <3>2, <3>3, <3>4
    <2> QED BY <1>4, <2>2, <2>3, <2>4 DEF NothingSkipped
<1> QED BY <1>1, <1>2, <1>3, <1>6 DEF WaveInv

(***************************************************************************)
(* Processing a node of the worklist, when geps are not merged.            *)
(***************************************************************************)
LEMMA WaveReprocess ==
    ASSUME TypeOK, MergeInv, WaveInv, NEW n \in Nodes, reprocessNode(n)
    PROVE  WaveInv'
<1>1. /\ Settled /\ Solving /\ phase = "rewave" /\ handleCopyGep(n, worklist \ Queued(n))
      /\ UNCHANGED <<graphVars, prog, phase, topo, pending, cycles, newCopies, reanalyze>>
    BY DEF reprocessNode, Solving
<1>2. NoSelfGeps /\ FieldsInUse /\ newCopies = {}
    BY <1>1 DEF WaveInv
<1>3. FieldsInUse' /\ NoSelfGeps'
    BY <1>1, <1>2, FieldsInUsePropagate DEF Settled, NoSelfGeps, graphVars
<1>4. Reps' = Reps /\ rep' = rep
    BY <1>1 DEF Reps, graphVars
<1>5. ASSUME ~reanalyze PROVE MergesPending' /\ NothingSkipped'
    <2>1. NothingSkipped
        BY <1>1, <1>5 DEF WaveInv
    <2>3. MergesPending'
        BY <1>1 DEF MergesPending, Settled
    <2>4. ASSUME NEW m \in Reps PROVE diffPts(m)' = {} \/ WillProcess(m)'
        <3>1. m \in Nodes /\ rep[m] = m
            BY DEF Reps
        <3>2. CASE m = n
            BY <1>1, <1>2, <3>2, PropagateSends DEF diffPts
        <3>3. CASE m # n /\ diffPts(m)' = diffPts(m)
            <4>1. Queued(m) \subseteq worklist \ Queued(n)
                BY <3>3 DEF Queued
            <4>2. worklist \ Queued(n) \subseteq worklist'
                BY <1>1, <1>2, PropagateSends
            <4>3. Queued(m) \subseteq Queued(m)'
                BY <1>4, <4>1, <4>2 DEF Queued
            <4> QED BY <1>1, <2>1, <3>3, <4>3 DEF NothingSkipped, WillProcess
        <3>4. CASE m # n /\ diffPts(m)' # diffPts(m)
            <4>1. m \in worklist'
                BY <1>1, <1>2, <3>1, <3>4, PropagateSends DEF diffPts
            <4> QED BY <1>1, <1>4, <3>1, <4>1 DEF WillProcess, Queued
        <3> QED BY <3>2, <3>3, <3>4
    <2> QED BY <1>4, <2>3, <2>4 DEF NothingSkipped
<1> QED BY <1>1, <1>2, <1>3, <1>5 DEF WaveInv

(***************************************************************************)
(* Steps that touch neither the graph nor a points-to set.                 *)
(***************************************************************************)
LEMMA WaveQuiet ==
    ASSUME TypeOK, MergeInv, WaveInv, skipQuiet
    PROVE  WaveInv'
<1>1. /\ Settled /\ Solving /\ phase = "wave" /\ pending' = pending \ Quiet
      /\ UNCHANGED <<graphVars, prog, phase, topo, cycles, newCopies, reanalyze, worklist, pts,
                     propa, fields, fieldInsensitive, toCollapse>>
    BY DEF skipQuiet, Solving, ptsVars, objectVars
<1>2. NoSelfGeps' /\ FieldsInUse'
    BY <1>1 DEF WaveInv, NoSelfGeps, FieldsInUse, graphVars
<1>3. /\ Reps' = Reps /\ DirectEdges(MergePWC)' = DirectEdges(MergePWC) /\ MergePWC' = MergePWC
      /\ \A m : Queued(m)' = Queued(m) /\ \A t : StandsFor(m, t)' <=> StandsFor(m, t)
    BY <1>1 DEF Reps, DirectEdges, MergePWC, StandsFor, Queued, graphVars
<1>4. ASSUME ~reanalyze PROVE MergesPending' /\ NothingSkipped' /\ OrderKept'
    <2>1. NothingSkipped /\ OrderKept
        BY <1>1, <1>4 DEF WaveInv
    <2>2. ASSUME NEW e \in topo, e[1] \in pending' PROVE e[2] \in pending'
        <3>1. e[1] \in pending \ Quiet /\ e[2] \in pending /\ e = <<e[1], e[2]>>
            BY <1>1, <2>1, <2>2 DEF OrderKept, TypeOK, Edges
        <3>2. e[2] \notin Quiet
            BY <3>1 DEF Quiet, Ready
        <3> QED BY <1>1, <3>1, <3>2
    <2>3. OrderKept'
        BY <1>1, <1>3, <2>1, <2>2 DEF OrderKept
    <2>4. ASSUME NEW m \in Reps PROVE diffPts(m)' = {} \/ WillProcess(m)'
        <3>1. CASE m \in Quiet
            BY <1>1, <3>1 DEF Quiet, Reps, diffPts
        <3>2. CASE m \notin Quiet
            BY <1>1, <1>3, <2>1, <3>2 DEF NothingSkipped, WillProcess, diffPts
        <3> QED BY <3>1, <3>2
    <2> QED BY <1>1, <1>3, <2>3, <2>4 DEF NothingSkipped, MergesPending, Settled
<1> QED BY <1>1, <1>2, <1>4 DEF WaveInv

(***************************************************************************)
(* The ends of a wave and the steps that propagate nothing keep the order  *)
(* in which the wave visits the nodes.                                     *)
(***************************************************************************)
LEMMA WaveFrame ==
    ASSUME TypeOK, MergeInv, WaveInv,
           \/ endWave \/ endRewave \/ endPost
           \/ \E n \in Nodes : collapsePWCNode(n) \/ postProcessNode(n)
    PROVE  WaveInv'
<1>1. /\ Settled /\ Solving /\ Solving'
      /\ UNCHANGED <<graphVars, prog, topo, pending, cycles, reanalyze, pts, propa, fields,
                     fieldInsensitive>>
    BY DEF endWave, endRewave, endPost, collapsePWCNode, postProcessNode, Solving, ptsVars,
           objectVars, waveVars
<1>2. toCollapse' \cap fieldInsensitive \subseteq toCollapse
    <2>1. \A n : ToCollapse(n) \cap fieldInsensitive = {}
        BY ToCollapseNew
    <2> QED BY <2>1 DEF endWave, endRewave, endPost, collapsePWCNode, postProcessNode
<1>3. NoSelfGeps' /\ FieldsInUse'
    BY <1>1, <1>2, FieldsInUseFrame DEF WaveInv, NoSelfGeps, graphVars
<1>4. MergesPending'
    BY <1>1 DEF MergesPending, Settled
<1>5. /\ Reps' = Reps /\ DirectEdges(MergePWC)' = DirectEdges(MergePWC) /\ MergePWC' = MergePWC
      /\ \A n : diffPts(n)' = diffPts(n)
      /\ \A m, t : StandsFor(m, t)' <=> StandsFor(m, t)
    BY <1>1 DEF Reps, DirectEdges, MergePWC, StandsFor, diffPts, graphVars
<1>6. CASE endWave
    <2>1. /\ phase = "wave" /\ pending = {} /\ cycles = {} /\ UNCHANGED <<newCopies, worklist>>
          /\ phase' = IF MergePWC THEN "post" ELSE "rewave"
        BY <1>6 DEF endWave, Settled
    <2>2. ASSUME ~reanalyze PROVE NothingSkipped'
        BY <1>1, <1>5, <2>1, <2>2 DEF WaveInv, NothingSkipped, WillProcess, Queued, graphVars
    <2> QED BY <1>1, <1>3, <1>4, <2>1, <2>2 DEF WaveInv
<1>7. CASE endRewave
    <2>1. phase = "rewave" /\ worklist = {} /\ phase' = "post"
        BY <1>7 DEF endRewave
    <2>2. ASSUME ~reanalyze PROVE NothingSkipped'
        BY <1>1, <1>5, <2>1, <2>2 DEF WaveInv, NothingSkipped, WillProcess, Queued
    <2> QED BY <1>1, <1>3, <1>4, <2>1, <2>2 DEF WaveInv
<1>8. CASE endPost \/ \E n \in Nodes : postProcessNode(n)
    <2>1. phase = "post" /\ phase' \in {"post", "callgraph"}
        BY <1>8 DEF endPost, postProcessNode
    <2>2. ASSUME ~reanalyze PROVE NothingSkipped'
        BY <1>1, <1>5, <2>1, <2>2 DEF WaveInv, NothingSkipped, WillProcess
    <2> QED BY <1>1, <1>3, <1>4, <2>1, <2>2 DEF WaveInv
<1>9. ASSUME NEW n \in Nodes, collapsePWCNode(n) PROVE WaveInv'
    <2>1. phase = "wave" /\ UNCHANGED <<phase, newCopies, worklist>>
        BY <1>9 DEF collapsePWCNode
    <2>2. ASSUME ~reanalyze PROVE NothingSkipped' /\ OrderKept'
        <3>1. NothingSkipped /\ OrderKept
            BY <1>1, <2>1, <2>2 DEF WaveInv
        <3>2. OrderKept'
            BY <1>1, <1>5, <3>1 DEF OrderKept
        <3>3. \A m : WillProcess(m)' <=> WillProcess(m)
            BY <1>1, <1>5, <2>1 DEF WillProcess, Queued, graphVars
        <3> QED BY <1>5, <3>1, <3>2, <3>3 DEF NothingSkipped
    <2> QED BY <1>1, <1>3, <1>4, <2>1, <2>2 DEF WaveInv
<1> QED BY <1>6, <1>7, <1>8, <1>9

(***************************************************************************)
(* A new edge asks for another iteration.                                  *)
(***************************************************************************)
LEMMA WaveAddEdge ==
    ASSUME TypeOK, MergeInv, WaveInv, NEW e \in newCopies, addCopyEdge(e)
    PROVE  WaveInv'
<1>1. /\ insertCopy(e) /\ reanalyze' = TRUE
      /\ UNCHANGED <<phase, gepE, fields, fieldInsensitive, toCollapse, pts>>
    BY DEF addCopyEdge, insertCopy, objectVars
<1>2. Solving /\ phase \notin {"wave", "rewave"}
    BY DEF MergeInv, DoneSettled, Settled, WaveInv
<1>3. NoSelfGeps' /\ FieldsInUse'
    BY <1>1, <1>2 DEF WaveInv, NoSelfGeps, FieldsInUse
<1> QED BY <1>1, <1>2, <1>3 DEF WaveInv, Solving

(***************************************************************************)
(* The steps that do not depend on the loop.                               *)
(***************************************************************************)
LEMMA WaveCommon ==
    ASSUME TypeOK, MergeInv, WaveInv, Common("scc")
    PROVE  WaveInv'
<1>1. ASSUME NEW c \in cycles, finishScc(c) \/ finishCollapse(c) PROVE WaveInv'
    <2>1. /\ cycles' = cycles \ {c} /\ c.left = {}
          /\ UNCHANGED <<graphVars, prog, topo, pending, reanalyze, pts, propa, fields, phase,
                         fieldInsensitive, newCopies, worklist>>
        BY <1>1 DEF finishScc, finishCollapse, ptsVars, objectVars, waveVars
    <2>2. Solving /\ Solving'
        BY <2>1 DEF MergeInv, DoneSettled, Settled, Solving
    <2>3. toCollapse' \cap fieldInsensitive \subseteq toCollapse
        BY <1>1, ToCollapseNew DEF finishScc, finishCollapse
    <2>4. NoSelfGeps' /\ FieldsInUse'
        BY <2>1, <2>2, <2>3, FieldsInUseFrame DEF WaveInv, NoSelfGeps, graphVars
    <2>5. \A m, t : StandsFor(m, t)' <=> StandsFor(m, t)
        BY <2>1 DEF StandsFor
    <2>6. /\ Reps' = Reps /\ DirectEdges(MergePWC)' = DirectEdges(MergePWC)
          /\ \A m : diffPts(m)' = diffPts(m) /\ (WillProcess(m)' <=> WillProcess(m))
        BY <2>1 DEF Reps, DirectEdges, MergePWC, diffPts, WillProcess, Queued, graphVars
    <2>7. MergesPending => MergesPending'
        BY <2>1 DEF MergesPending
    <2>8. NothingSkipped => NothingSkipped'
        BY <2>6 DEF NothingSkipped
    <2>9. OrderKept => OrderKept'
        BY <2>1, <2>5, <2>6 DEF OrderKept
    <2> QED BY <2>1, <2>2, <2>4, <2>7, <2>8, <2>9 DEF WaveInv, Solving
<1>2. ASSUME NEW b \in toCollapse, collapseField(b) PROVE WaveInv'
    <2>1. /\ cycles = {} /\ Base[b] = b
          /\ UNCHANGED <<graphVars, prog, topo, pending, propa, phase, newCopies>>
        BY <1>2 DEF collapseField, waveVars, MergeInv, FieldInv, BasesOnly
    <2>2. Solving /\ Solving'
        BY <1>2, <2>1 DEF MergeInv, DoneSettled, Settled, Solving
    <2>3. NoSelfGeps' /\ FieldsInUse'
        BY <1>2, <2>1, <2>2, FieldsInUseCollapse DEF WaveInv, NoSelfGeps, graphVars
    <2>4. ASSUME ~reanalyze'
          PROVE  MergesPending' /\ NothingSkipped' /\ (phase = "wave" => OrderKept')
        <3>1. ~reanalyze /\ UNCHANGED <<pts, worklist>> /\ \A c \in cycles' : c.left = {}
            BY <1>2, <2>2, <2>4, NoHitNoMerge DEF WaveInv
        <3>2. NothingSkipped /\ (phase = "wave" => OrderKept)
            BY <2>2, <3>1 DEF WaveInv
        <3>3. \A m, t : StandsFor(m, t)' <=> StandsFor(m, t)
            BY <2>1, <3>1 DEF StandsFor
        <3>4. /\ Reps' = Reps /\ DirectEdges(MergePWC)' = DirectEdges(MergePWC)
              /\ \A m : diffPts(m)' = diffPts(m) /\ (WillProcess(m)' <=> WillProcess(m))
            BY <2>1, <3>1 DEF Reps, DirectEdges, MergePWC, diffPts, WillProcess, Queued, graphVars
        <3>5. phase = "wave" => OrderKept'
            BY <2>1, <3>2, <3>3, <3>4 DEF OrderKept
        <3> QED BY <3>1, <3>2, <3>4, <3>5 DEF MergesPending, NothingSkipped
    <2> QED BY <2>1, <2>2, <2>3, <2>4 DEF WaveInv, Solving
<1>3. ASSUME NEW c \in prog.calls, resolveIndCall(c) PROVE WaveInv'
    <2>1. /\ phase = "callgraph" /\ phase' = phase /\ reanalyze' = TRUE
          /\ UNCHANGED <<gepE, fields, fieldInsensitive, toCollapse>>
          /\ \A n \in Nodes : pts[n] \subseteq pts'[n]
        BY <1>3 DEF resolveIndCall, graphVars, objectVars
    <2>2. NoSelfGeps' /\ FieldsInUse'
        BY <2>1, FieldsInUseFrame DEF WaveInv, NoSelfGeps, Solving
    <2> QED BY <2>1, <2>2 DEF WaveInv
<1>4. CASE endIteration("scc")
    <2>1. /\ phase = "callgraph" /\ phase' = IF reanalyze THEN "scc" ELSE "finalize"
          /\ Settled /\ Solving
          /\ UNCHANGED <<graphVars, prog, cycles, pts, propa, fields, fieldInsensitive, toCollapse>>
        BY <1>4 DEF endIteration, Solving, ptsVars, objectVars
    <2>2. NoSelfGeps' /\ FieldsInUse'
        BY <2>1 DEF WaveInv, NoSelfGeps, FieldsInUse, graphVars
    <2>3. ASSUME phase' = "finalize" PROVE AllSent'
        <3>1. AllSent
            BY <2>1, <2>3, NothingToSend DEF WaveInv, MergeInv
        <3> QED BY <2>1, <3>1 DEF AllSent, DirectEdges, diffPts, graphVars
    <2>4. MergesPending'
        BY <2>1 DEF MergesPending, Settled
    <2>5. phase' = "scc" => NothingSkipped'
        BY DEF NothingSkipped, WillProcess
    <2> QED BY <2>1, <2>2, <2>3, <2>4, <2>5 DEF WaveInv, Solving
<1>5. ASSUME NEW n \in redundantGepNodes, removeGepNode(n) PROVE WaveInv'
    <2>1. phase = "finalize" /\ phase' = phase /\ UNCHANGED <<copyE, gepE, pts, propa>>
        BY <1>5 DEF removeGepNode, ptsVars
    <2>2. AllSent'
        BY <2>1 DEF WaveInv, AllSent, DirectEdges, diffPts
    <2> QED BY <2>1, <2>2 DEF WaveInv, Solving
<1>6. ASSUME phase' = "done" PROVE WaveInv'
    BY <1>6 DEF WaveInv, Solving
<1> QED BY <1>1, <1>2, <1>3, <1>4, <1>5, <1>6 DEF Common, finish, Terminated, vars

(***************************************************************************)
(* Every step keeps the invariant of the wave.                             *)
(***************************************************************************)
LEMMA WaveStep == TypeOK /\ MergeInv /\ WaveInv /\ [Next]_vars => WaveInv'
<1> SUFFICES ASSUME TypeOK, MergeInv, WaveInv, [Next]_vars PROVE WaveInv'
    OBVIOUS
<1>1. CASE SCCDetect
    BY <1>1, WaveDetect
<1>2. ASSUME NEW c \in cycles, NEW n \in c.left, mergeNodeToRep(c, n) PROVE WaveInv'
    BY <1>2, WaveMerge
<1>3. ASSUME NEW n \in Fresh, processNode(n) PROVE WaveInv'
    BY <1>3, WaveProcess
<1>4. ASSUME NEW n \in Nodes, reprocessNode(n) PROVE WaveInv'
    BY <1>4, WaveReprocess
<1>5. CASE skipQuiet
    BY <1>5, WaveQuiet
<1>6. ASSUME \/ endWave \/ endRewave \/ endPost
             \/ \E n \in Nodes : collapsePWCNode(n) \/ postProcessNode(n)
      PROVE  WaveInv'
    BY <1>6, WaveFrame
<1>7. ASSUME NEW e \in newCopies, addCopyEdge(e) PROVE WaveInv'
    BY <1>7, WaveAddEdge
<1>8. CASE Common("scc")
    BY <1>8, WaveCommon
<1>9. CASE UNCHANGED vars
    BY <1>9 DEF WaveInv, NoSelfGeps, FieldsInUse, MergesPending, NothingSkipped, OrderKept,
        AllSent, WillProcess, StandsFor, Queued, DirectEdges, diffPts, Reps, MergePWC, Solving,
        vars, graphVars, ptsVars, waveVars, objectVars
<1>10. Ready \subseteq Nodes
    BY ReadyNodes
<1> QED BY <1>1, <1>2, <1>3, <1>4, <1>5, <1>6, <1>7, <1>8, <1>9, <1>10 DEF Next

(***************************************************************************)
(* The first iteration starts with nothing propagated and no field.        *)
(***************************************************************************)
LEMMA WaveInvInit ==
    ASSUME IsProgram(prog), StartSolver("scc")
    PROVE  WaveInv
<1>1. NoSelfGeps
    BY DEF StartSolver, NoSelfGeps, IsProgram
<1>2. FieldsInUse /\ MergesPending
    BY DEF StartSolver, FieldsInUse, MergesPending
<1>3. phase = "scc" /\ NothingSkipped
    BY DEF StartSolver, NothingSkipped, WillProcess
<1> QED BY <1>1, <1>2, <1>3 DEF WaveInv

(***************************************************************************)
(* One wave is enough, for every program, choice of representatives and    *)
(* order of nodes: an iteration that added no edge and collapsed no set    *)
(* leaves nothing to send along a copy or gep edge.                        *)
(***************************************************************************)
THEOREM WaveIsEnough == Spec => []WaveComplete
<1>1. Init => TypeOK /\ MergeInv /\ WaveInv
    BY ProgramsStart, InitTypes, MergeInvInit, WaveInvInit DEF Init, Phases
<1>2. TypeOK /\ MergeInv /\ WaveInv /\ [Next]_vars => (TypeOK /\ MergeInv /\ WaveInv)'
    BY StepTypes, MergeStep, WaveStep
<1>3. MergeInv /\ WaveInv => WaveComplete
    BY NothingToSend DEF MergeInv, WaveInv, WaveComplete, AllSent, Solving
<1> QED BY <1>1, <1>2, <1>3, PTL DEF Spec

-----------------------------------------------------------------------------
(* The fixpoint.                                                           *)

\* A pointer that was not merged is queued or its loads and stores are done.
LoadsDone ==
    \A e \in prog.load : Unmerged(e[1]) =>
        \/ e[1] \in worklist \cup tmpWorklist
        \/ \A o \in pts[e[1]] \ PointerlessObjs : Linked(o, e[2])
StoresDone ==
    \A e \in prog.store : Unmerged(e[2]) =>
        \/ e[2] \in worklist \cup tmpWorklist
        \/ \A o \in pts[e[2]] \ PointerlessObjs : Linked(e[1], o)

\* Collapsing and queueing belong to the waves.
PhasesApart ==
    /\ phase \in {"post", "callgraph"} => cycles = {} /\ toCollapse = {}
    /\ phase # "rewave" => tmpWorklist = {}
    /\ phase = "callgraph" /\ ~reanalyze => worklist = {}

FixInv ==
    /\ Solving => LoadsDone /\ StoresDone /\ PhasesApart
    /\ phase = "finalize" /\ fieldInsensitive = {} => GraphConstraintsHold /\ UnmergedHold

(***************************************************************************)
(* Every step of the wave solver keeps the graph's links.                  *)
(***************************************************************************)
LEMMA LinkInvStep == TypeOK /\ MergeInv /\ LinkInv /\ [Next]_vars => LinkInv'
<1> SUFFICES ASSUME TypeOK, MergeInv, LinkInv, [Next]_vars PROVE LinkInv'
    OBVIOUS
<1>1. RepInv /\ DoneSettled /\ FieldInv
    BY DEF MergeInv
<1>2. CASE SCCDetect \/ skipQuiet \/ endWave \/ endRewave \/ endPost
    <2>1. Solving /\ UNCHANGED <<graphVars, prog, ptsVars, objectVars, indCalls, varGepPtd,
                                 newCopies, toCollapse>>
        BY <1>2 DEF SCCDetect, skipQuiet, endWave, endRewave, endPost, Solving, invariantVars
    <2> QED BY <2>1, LinkInvFrame DEF Collapsed, objectVars
<1>3. ASSUME NEW n \in Nodes, postProcessNode(n) PROVE LinkInv'
    <2>1. Solving /\ newCopies = {}
          /\ UNCHANGED <<graphVars, prog, ptsVars, objectVars, indCalls, varGepPtd, toCollapse>>
        BY <1>3 DEF postProcessNode, Solving, Settled, invariantVars
    <2> QED BY <2>1, LinkInvFrame DEF Collapsed, objectVars
<1>4. ASSUME NEW n \in Nodes, collapsePWCNode(n) PROVE LinkInv'
    <2>1. Solving /\ toCollapse = {} /\ toCollapse' = ToCollapse(n)
          /\ UNCHANGED <<graphVars, prog, ptsVars, objectVars, indCalls, varGepPtd, newCopies>>
        BY <1>4 DEF collapsePWCNode, Solving, Settled, invariantVars
    <2>2. Collapsed' = Collapsed
        BY <2>1, ToCollapseNew DEF Collapsed, objectVars
    <2> QED BY <2>1, <2>2, LinkInvFrame
<1>5. ASSUME NEW c \in cycles, NEW n \in c.left, mergeNodeToRep(c, n) PROVE LinkInv'
    BY <1>1, <1>5, LinkInvMerge DEF mergeNodeToRep
<1>6. ASSUME NEW n \in Nodes, processNode(n) \/ reprocessNode(n) PROVE LinkInv'
    <2>1. /\ Settled /\ Solving /\ UNCHANGED <<graphVars, prog, newCopies, redundantGepNodes, indCalls>>
          /\ handleCopyGep(n, worklist) \/ handleCopyGep(n, worklist \ Queued(n))
        BY <1>6 DEF processNode, reprocessNode, Solving
    <2> QED BY <1>1, <2>1, LinkInvPropagate DEF Settled
<1>7. ASSUME NEW e \in newCopies, addCopyEdge(e) PROVE LinkInv'
    BY <1>1, <1>7, LinkInvAddEdge DEF addCopyEdge
<1>8. CASE Common("scc")
    BY <1>1, <1>8, LinkInvCommon DEF Phases
<1>9. CASE UNCHANGED vars
    <2>1. UNCHANGED <<graphVars, prog, ptsVars, objectVars, indCalls, varGepPtd, newCopies,
                      toCollapse, phase>>
        BY <1>9 DEF vars, invariantVars
    <2>2. Solving' <=> Solving
        BY <2>1 DEF Solving
    <2>3. CASE Solving
        BY <2>1, <2>3, LinkInvFrame DEF Collapsed, objectVars
    <2>4. CASE ~Solving
        BY <2>1, <2>2, <2>4 DEF LinkInv, RedundantKnown, objectVars
    <2> QED BY <2>3, <2>4
<1>10. Ready \subseteq Nodes /\ Fresh \subseteq Nodes
    BY ReadyNodes
<1> QED BY <1>2, <1>3, <1>4, <1>5, <1>6, <1>7, <1>8, <1>9, <1>10 DEF Next

(***************************************************************************)
(* A pointer's loads and stores stay done while it is not merged, unless   *)
(* it gains something, and then it is queued.                              *)
(***************************************************************************)
Accessed == {e[1] : e \in prog.load} \cup {e[2] : e \in prog.store}
Waiting == worklist \cup tmpWorklist

(***************************************************************************)
(* Loads and stores stay done when no link is cut and a pointer that       *)
(* learns something waits for its turn.                                    *)
(***************************************************************************)
LEMMA AccessesStayDone ==
    ASSUME TypeOK, LoadsDone, StoresDone, prog' = prog,
           \A a \in Nodes, b \in Nodes : Linked(a, b) => Linked(a, b)',
           \A p \in Accessed : Unmerged(p)' =>
               /\ Unmerged(p)
               /\ \/ p \in Waiting'
                  \/ p \notin Waiting /\ pts'[p] \subseteq pts[p]
    PROVE  LoadsDone' /\ StoresDone'
<1>1. \A e \in prog.load \cup prog.store : e[1] \in Nodes /\ e[2] \in Nodes
    BY ProgramTypes DEF TypeOK, Edges
<1>2. ASSUME NEW p \in Nodes PROVE pts[p] \subseteq Nodes
    BY GraphAssumption DEF TypeOK, PTS
<1>3. ASSUME NEW e \in prog.load, Unmerged(e[1])',
             e[1] \notin worklist' \cup tmpWorklist',
             NEW o \in pts'[e[1]] \ PointerlessObjs
      PROVE  Linked(o, e[2])'
    <2>1. e[1] \in Accessed
        BY DEF Accessed
    <2>2. Unmerged(e[1]) /\ e[1] \notin Waiting /\ o \in pts[e[1]]
        BY <1>3, <2>1 DEF Waiting
    <2>3. Linked(o, e[2])
        BY <2>2 DEF LoadsDone, Waiting
    <2> QED BY <1>1, <1>2, <2>2, <2>3
<1>4. ASSUME NEW e \in prog.store, Unmerged(e[2])',
             e[2] \notin worklist' \cup tmpWorklist',
             NEW o \in pts'[e[2]] \ PointerlessObjs
      PROVE  Linked(e[1], o)'
    <2>1. e[2] \in Accessed
        BY DEF Accessed
    <2>2. Unmerged(e[2]) /\ e[2] \notin Waiting /\ o \in pts[e[2]]
        BY <1>4, <2>1 DEF Waiting
    <2>3. Linked(e[1], o)
        BY <2>2 DEF StoresDone, Waiting
    <2> QED BY <1>1, <1>2, <2>2, <2>3
<1> QED BY <1>3, <1>4 DEF LoadsDone, StoresDone

(***************************************************************************)
(* A node that represents no other represents itself.                      *)
(***************************************************************************)
LEMMA UnmergedItself ==
    ASSUME RepMaps, NEW p \in Nodes, Unmerged(p)
    PROVE  rep[p] = p
BY DEF RepMaps, Reps, Unmerged

(***************************************************************************)
(* Steps that move no fact and no queued pointer.                          *)
(***************************************************************************)
LEMMA AccessFrame ==
    ASSUME TypeOK, LoadsDone, StoresDone, UNCHANGED <<prog, rep, pts>>,
           copyE \cup newCopies \subseteq copyE' \cup newCopies', Waiting \subseteq Waiting'
    PROVE  LoadsDone' /\ StoresDone'
<1>1. \A a \in Nodes, b \in Nodes : Linked(a, b) => Linked(a, b)'
    BY LinkedFrame
<1>2. \A p \in Accessed : Unmerged(p)' => Unmerged(p)
    BY DEF Unmerged
<1> QED BY <1>1, <1>2, AccessesStayDone

(***************************************************************************)
(* Merging: the pointers concerned are merged ones from now on.            *)
(***************************************************************************)
LEMMA AccessMerge ==
    ASSUME TypeOK, MergeInv, LoadsDone, StoresDone,
           NEW c \in cycles, NEW node \in c.left, mergeNodeToRep(c, node)
    PROVE  LoadsDone' /\ StoresDone'
<1> DEFINE r == c.rep
<1>1. mergeNode(c, node) /\ UNCHANGED <<prog, worklist, tmpWorklist>> /\ RepInv /\ DoneSettled
    BY DEF mergeNodeToRep, mergeNode, waveVars, MergeInv
<1>2. /\ r \in Nodes /\ node \in Nodes /\ rep[r] = r /\ rep[node] = node /\ r # node
      /\ \A m \in Nodes : rep'[m] = IF rep[m] = node THEN r ELSE rep[m]
    BY <1>1, RepInvMerge DEF Reps
<1>3. \A n \in Nodes : n # r => pts'[n] = pts[n]
    BY <1>1, <1>2 DEF TypeOK, mergeNode, unionPts
<1>4. \A a \in Nodes, b \in Nodes : Linked(a, b) => Linked(a, b)'
    BY <1>1, LinkedMerge
<1>5. ASSUME NEW p \in Accessed, Unmerged(p)' PROVE Unmerged(p) /\ pts'[p] = pts[p]
    <2>1. p \in Nodes
        BY ProgramTypes DEF TypeOK, Edges, Accessed
    <2>2. \A m \in Nodes : rep'[m] = rep'[p] => m = p
        BY <1>5 DEF Unmerged
    <2>3. \A m \in Nodes : rep[m] = rep[p] => m = p
        BY <1>2, <2>1, <2>2
    <2>4. p # r
        BY <1>2, <2>2
    <2> QED BY <1>3, <2>1, <2>3, <2>4 DEF Unmerged
<1> QED BY <1>1, <1>4, <1>5, AccessesStayDone DEF Waiting

(***************************************************************************)
(* Propagating: who gains is queued, and who is taken up is kept for later.*)
(***************************************************************************)
LEMMA AccessPropagate ==
    ASSUME TypeOK, MergeInv, WaveInv, LoadsDone, StoresDone,
           NEW n \in Nodes, processNode(n) \/ reprocessNode(n)
    PROVE  LoadsDone' /\ StoresDone'
<1>1. /\ Solving /\ RepMaps /\ NoSelfGeps
      /\ UNCHANGED <<graphVars, prog, newCopies>>
    BY DEF processNode, reprocessNode, Solving, MergeInv, RepInv, WaveInv
<1>2. ASSUME NEW p \in Accessed, Unmerged(p)'
      PROVE  /\ Unmerged(p)
             /\ p \in Waiting' \/ (p \notin Waiting /\ pts'[p] \subseteq pts[p])
    <2>1. p \in Nodes
        BY ProgramTypes DEF TypeOK, Edges, Accessed
    <2>2. Unmerged(p)
        BY <1>1, <1>2 DEF Unmerged, graphVars
    <2>3. rep[p] = p
        BY <1>1, <2>1, <2>2, UnmergedItself
    <2>4. CASE processNode(n)
        <3>1. handleCopyGep(n, worklist) /\ tmpWorklist' = tmpWorklist
            BY <2>4 DEF processNode
        <3>2. worklist \subseteq worklist' /\ (pts'[p] = pts[p] \/ p \in worklist')
            BY <1>1, <2>1, <3>1, PropagateSends
        <3> QED BY <2>2, <3>1, <3>2 DEF Waiting
    <2>5. CASE reprocessNode(n)
        <3>1. handleCopyGep(n, worklist \ Queued(n)) /\ tmpWorklist' = tmpWorklist \cup {n}
            BY <2>5 DEF reprocessNode
        <3>2. worklist \ Queued(n) \subseteq worklist' /\ (pts'[p] = pts[p] \/ p \in worklist')
            BY <1>1, <2>1, <3>1, PropagateSends
        <3>3. p \in Queued(n) => p = n
            BY <2>3 DEF Queued
        <3> QED BY <2>2, <3>1, <3>2, <3>3 DEF Waiting
    <2> QED BY <2>4, <2>5
<1>3. \A a \in Nodes, b \in Nodes : Linked(a, b) => Linked(a, b)'
    BY <1>1, LinkedFrame DEF graphVars
<1> QED BY <1>1, <1>2, <1>3, AccessesStayDone

(***************************************************************************)
(* Processing the loads and stores of a node links all it points to.       *)
(***************************************************************************)
LEMMA AccessPost ==
    ASSUME TypeOK, MergeInv, LinkInv, LoadsDone, StoresDone, NEW n \in Nodes, postProcessNode(n)
    PROVE  LoadsDone' /\ StoresDone'
<1>1. /\ Solving /\ RepMaps /\ AccessesKept /\ newCopies = {}
      /\ UNCHANGED <<graphVars, prog, pts, tmpWorklist>>
      /\ worklist' = worklist \ Queued(n)
      /\ newCopies' = NewEdges(LoadCopies(n) \cup StoreCopies(n))
    BY DEF postProcessNode, Solving, Settled, MergeInv, RepInv, LinkInv, ptsVars, waveVars
<1>2. \A a, b : Linked(a, b) => Linked(a, b)'
    BY <1>1, LinkedFrame DEF graphVars
<1>3. ASSUME NEW a, NEW b, <<a, b>> \in LoadCopies(n) \cup StoreCopies(n)
      PROVE  rep[a] = rep[b] \/ <<rep[a], rep[b]>> \in copyE' \cup newCopies'
    BY <1>1, <1>3 DEF NewEdges, graphVars
<1>4. \A e \in prog.load \cup prog.store :
          e[1] \in Nodes /\ e[2] \in Nodes /\ rep[rep[e[1]]] = rep[e[1]] /\ rep[rep[e[2]]] = rep[e[2]]
    <2>1. \A e \in prog.load \cup prog.store : e[1] \in Nodes /\ e[2] \in Nodes
        BY ProgramTypes DEF TypeOK, Edges
    <2> QED BY <1>1, <2>1 DEF RepMaps, Reps
<1>5. rep' = rep
    BY <1>1 DEF graphVars
<1>6. \A p \in Nodes : Unmerged(p)' => Unmerged(p)
    BY <1>5 DEF Unmerged
<1>7. ASSUME NEW e \in prog.load, Unmerged(e[1])',
             e[1] \notin worklist' \cup tmpWorklist',
             NEW o \in pts[e[1]] \ PointerlessObjs
      PROVE  Linked(o, e[2])'
    <2>1. Unmerged(e[1]) /\ e[1] \in Nodes /\ rep[e[1]] = e[1]
        BY <1>1, <1>4, <1>6, <1>7, UnmergedItself
    <2>2. CASE e[1] \notin worklist \cup tmpWorklist
        BY <1>2, <1>7, <2>1, <2>2 DEF LoadsDone
    <2>3. CASE e[1] \in worklist \cup tmpWorklist
        <3>1. e[1] = n
            BY <1>1, <1>7, <2>1, <2>3 DEF Queued
        <3>2. <<n, rep[e[2]]>> \in loadE
            BY <1>1, <2>1, <3>1 DEF AccessesKept
        <3>3. <<o, rep[e[2]]>> \in LoadCopies(n)
            BY <3>1, <3>2 DEF LoadCopies
        <3>4. rep[o] = rep[e[2]] \/ <<rep[o], rep[e[2]]>> \in copyE' \cup newCopies'
            BY <1>3, <1>4, <3>3
        <3> QED BY <1>5, <3>4 DEF Linked
    <2> QED BY <2>2, <2>3
<1>8. ASSUME NEW e \in prog.store, Unmerged(e[2])',
             e[2] \notin worklist' \cup tmpWorklist',
             NEW o \in pts[e[2]] \ PointerlessObjs
      PROVE  Linked(e[1], o)'
    <2>1. Unmerged(e[2]) /\ e[2] \in Nodes /\ rep[e[2]] = e[2]
        BY <1>1, <1>4, <1>6, <1>8, UnmergedItself
    <2>2. CASE e[2] \notin worklist \cup tmpWorklist
        BY <1>2, <1>8, <2>1, <2>2 DEF StoresDone
    <2>3. CASE e[2] \in worklist \cup tmpWorklist
        <3>1. e[2] = n
            BY <1>1, <1>8, <2>1, <2>3 DEF Queued
        <3>2. <<rep[e[1]], n>> \in storeE
            BY <1>1, <2>1, <3>1 DEF AccessesKept
        <3>3. <<rep[e[1]], o>> \in StoreCopies(n)
            BY <3>1, <3>2 DEF StoreCopies
        <3>4. rep[e[1]] = rep[o] \/ <<rep[e[1]], rep[o]>> \in copyE' \cup newCopies'
            BY <1>3, <1>4, <3>3
        <3> QED BY <1>5, <3>4 DEF Linked
    <2> QED BY <2>2, <2>3
<1> QED BY <1>1, <1>7, <1>8 DEF LoadsDone, StoresDone

(***************************************************************************)
(* Who pointed to a collapsed field is queued again.                       *)
(***************************************************************************)
LEMMA AccessCollapse ==
    ASSUME TypeOK, MergeInv, LoadsDone, StoresDone, NEW b \in toCollapse, collapseField(b)
    PROVE  LoadsDone' /\ StoresDone'
<1> DEFINE fs == AllFieldsObjNode(b)
           hit == {m \in Nodes : pts[m] \cap fs # {}}
<1>1. Solving /\ RepMaps
    BY DEF MergeInv, RepInv, DoneSettled, Settled
<1>2. /\ UNCHANGED <<graphVars, prog, newCopies, tmpWorklist>>
      /\ worklist' = worklist \cup {rep[m] : m \in hit}
      /\ pts' = [m \in Nodes |-> CollapsedPts(m, fs, b)]
    BY DEF collapseField, waveVars
<1>3. ASSUME NEW p \in Accessed, Unmerged(p)'
      PROVE  Unmerged(p) /\ (p \in worklist' \/ pts'[p] = pts[p])
    <2>1. p \in Nodes
        BY ProgramTypes DEF TypeOK, Edges, Accessed
    <2>2. Unmerged(p)
        BY <1>2, <1>3 DEF Unmerged, graphVars
    <2>3. rep[p] = p
        BY <1>1, <2>1, <2>2, UnmergedItself
    <2>4. CASE p \in hit
        BY <1>2, <2>2, <2>3, <2>4
    <2>5. CASE p \notin hit
        BY <1>2, <2>1, <2>2, <2>5 DEF CollapsedPts
    <2> QED BY <2>4, <2>5
<1>4. worklist \subseteq worklist'
    BY <1>2
<1>5. \A a \in Nodes, c \in Nodes : Linked(a, c) => Linked(a, c)'
    BY <1>2, LinkedFrame DEF graphVars
<1>6. \A p \in Accessed : Unmerged(p)' =>
          Unmerged(p) /\ (p \in Waiting' \/ (p \notin Waiting /\ pts'[p] \subseteq pts[p]))
    BY <1>2, <1>3, <1>4 DEF Waiting
<1> QED BY <1>2, <1>5, <1>6, AccessesStayDone

(***************************************************************************)
(* A resolved call gives new objects to its dummies only.                  *)
(***************************************************************************)
LEMMA AccessCall ==
    ASSUME TypeOK, LoadsDone, StoresDone, NEW c \in prog.calls, resolveIndCall(c)
    PROVE  LoadsDone' /\ StoresDone'
<1>1. /\ UNCHANGED <<graphVars, prog, worklist, tmpWorklist>> /\ newCopies = {}
      /\ \A n \in Nodes : pts'[n] \subseteq pts[n] \cup {o \in ObjNodes : <<n, o>> \in c.heap}
    BY DEF resolveIndCall, Settled, waveVars
<1>2. ASSUME NEW p \in Accessed PROVE {o \in ObjNodes : <<p, o>> \in c.heap} = {}
    <2>1. \A h \in c.heap : h[1] # p
        BY DEF TypeOK, IsProgram, FreshDummies, Accessed
    <2> QED BY <2>1
<1>3. \A p \in Accessed : pts'[p] \subseteq pts[p]
    <2>1. Accessed \subseteq Nodes
        BY ProgramTypes DEF TypeOK, Edges, Accessed
    <2> QED BY <1>1, <1>2, <2>1
<1>4. \A p \in Accessed : Unmerged(p)' => Unmerged(p)
    BY <1>1 DEF Unmerged, graphVars
<1>5. \A a \in Nodes, b \in Nodes : Linked(a, b) => Linked(a, b)'
    BY <1>1, LinkedFrame DEF graphVars
<1> QED BY <1>1, <1>3, <1>4, <1>5, AccessesStayDone DEF Waiting

(***************************************************************************)
(* Collapsing and queueing stay where they belong.                         *)
(***************************************************************************)
LEMMA PhasesStayApart ==
    ASSUME TypeOK, MergeInv, Solving, PhasesApart, Next, Solving'
    PROVE  PhasesApart'
<1>1. MergesApart /\ EdgesApart
    BY DEF MergeInv, RepInv
<1>2. CASE SCCDetect \/ skipQuiet \/ \E n \in Ready : collapsePWCNode(n)
    BY <1>2 DEF SCCDetect, skipQuiet, collapsePWCNode, PhasesApart, waveVars
<1>3. ASSUME NEW c \in cycles, NEW n \in c.left, mergeNodeToRep(c, n) PROVE PhasesApart'
    BY <1>3 DEF mergeNodeToRep, mergeNode, PhasesApart, waveVars
<1>4. ASSUME NEW n, processNode(n) \/ reprocessNode(n) PROVE PhasesApart'
    BY <1>4 DEF processNode, reprocessNode, PhasesApart
<1>5. ASSUME NEW n, postProcessNode(n) PROVE PhasesApart'
    BY <1>5 DEF postProcessNode, PhasesApart, waveVars
<1>6. CASE endWave \/ endRewave \/ endPost
    BY <1>6 DEF endWave, endRewave, endPost, PhasesApart, Settled, waveVars
<1>7. ASSUME NEW e \in newCopies, addCopyEdge(e) PROVE PhasesApart'
    BY <1>7 DEF addCopyEdge, insertCopy, PhasesApart, waveVars
<1>8. CASE Common("scc")
    <2>1. ASSUME NEW c \in cycles, finishScc(c) \/ finishCollapse(c) PROVE PhasesApart'
        BY <2>1 DEF finishScc, finishCollapse, PhasesApart, waveVars
    <2>2. ASSUME NEW b \in toCollapse, collapseField(b) PROVE PhasesApart'
        BY <2>2 DEF collapseField, PhasesApart, waveVars
    <2>3. ASSUME NEW c \in prog.calls, resolveIndCall(c) PROVE PhasesApart'
        BY <2>3 DEF resolveIndCall, PhasesApart, waveVars
    <2>4. CASE endIteration("scc")
        BY <2>4 DEF endIteration, PhasesApart, waveVars
    <2>5. ~(finish \/ Terminated \/ \E n \in redundantGepNodes : removeGepNode(n))
        BY DEF finish, Terminated, removeGepNode, Solving
    <2> QED BY <1>8, <2>1, <2>2, <2>3, <2>4, <2>5 DEF Common
<1> QED BY <1>2, <1>3, <1>4, <1>5, <1>6, <1>7, <1>8 DEF Next

(***************************************************************************)
(* Every step while solving keeps the loads and stores done.               *)
(***************************************************************************)
LEMMA AccessStep ==
    ASSUME TypeOK, MergeInv, WaveInv, LinkInv, Solving, PhasesApart, LoadsDone, StoresDone, Next
    PROVE  LoadsDone' /\ StoresDone'
<1>1. CASE SCCDetect \/ skipQuiet \/ endWave \/ endPost \/ \E n \in Ready : collapsePWCNode(n)
    <2>1. UNCHANGED <<graphVars, prog, pts, newCopies, worklist, tmpWorklist>>
        BY <1>1 DEF SCCDetect, skipQuiet, endWave, endPost, collapsePWCNode, waveVars, ptsVars
    <2> QED BY <2>1, AccessFrame DEF Waiting, graphVars
<1>2. CASE endRewave
    <2>1. /\ UNCHANGED <<graphVars, prog, pts, newCopies>>
          /\ worklist = {} /\ worklist' = {rep[n] : n \in tmpWorklist}
        BY <1>2 DEF endRewave, ptsVars
    <2>2. RepMaps
        BY DEF MergeInv, RepInv
    <2>3. ASSUME NEW p \in Accessed, Unmerged(p)'
          PROVE  /\ Unmerged(p) /\ pts'[p] = pts[p]
                 /\ p \in Waiting => p \in Waiting'
        <3>1. p \in Nodes
            BY ProgramTypes DEF TypeOK, Edges, Accessed
        <3>2. Unmerged(p)
            BY <2>1, <2>3 DEF Unmerged, graphVars
        <3>3. rep[p] = p
            BY <2>2, <3>1, <3>2, UnmergedItself
        <3> QED BY <2>1, <3>2, <3>3 DEF Waiting
    <2>4. \A a \in Nodes, b \in Nodes : Linked(a, b) => Linked(a, b)'
        BY <2>1, LinkedFrame DEF graphVars
    <2> QED BY <2>1, <2>3, <2>4, AccessesStayDone
<1>3. ASSUME NEW c \in cycles, NEW n \in c.left, mergeNodeToRep(c, n) PROVE LoadsDone' /\ StoresDone'
    BY <1>3, AccessMerge
<1>4. ASSUME NEW n \in Nodes, processNode(n) \/ reprocessNode(n) PROVE LoadsDone' /\ StoresDone'
    BY <1>4, AccessPropagate
<1>5. ASSUME NEW n \in Nodes, postProcessNode(n) PROVE LoadsDone' /\ StoresDone'
    BY <1>5, AccessPost
<1>6. ASSUME NEW e \in newCopies, addCopyEdge(e) PROVE LoadsDone' /\ StoresDone'
    <2>1. /\ UNCHANGED <<prog, rep, pts, tmpWorklist>> /\ worklist \subseteq worklist'
          /\ copyE \cup newCopies \subseteq copyE' \cup newCopies'
        BY <1>6 DEF addCopyEdge, insertCopy, waveVars
    <2> QED BY <2>1, AccessFrame DEF Waiting
<1>7. CASE Common("scc")
    <2>1. ASSUME (\E c \in cycles : finishScc(c) \/ finishCollapse(c)) \/ endIteration("scc")
          PROVE  LoadsDone' /\ StoresDone'
        <3>1. UNCHANGED <<graphVars, prog, pts, newCopies, worklist, tmpWorklist>>
            BY <2>1 DEF finishScc, finishCollapse, endIteration, waveVars, ptsVars
        <3> QED BY <3>1, AccessFrame DEF Waiting, graphVars
    <2>2. ASSUME NEW b \in toCollapse, collapseField(b) PROVE LoadsDone' /\ StoresDone'
        BY <2>2, AccessCollapse
    <2>3. ASSUME NEW c \in prog.calls, resolveIndCall(c) PROVE LoadsDone' /\ StoresDone'
        BY <2>3, AccessCall
    <2>4. ~(finish \/ Terminated \/ \E n \in redundantGepNodes : removeGepNode(n))
        BY DEF finish, Terminated, removeGepNode, Solving
    <2> QED BY <1>7, <2>1, <2>2, <2>3, <2>4 DEF Common
<1>8. Fresh \subseteq Nodes
    BY ReadyNodes
<1> QED BY <1>1, <1>2, <1>3, <1>4, <1>5, <1>6, <1>7, <1>8 DEF Next

(***************************************************************************)
(* With the queues empty, what is done holds.                              *)
(***************************************************************************)
LEMMA FixpointHolds ==
    ASSUME TypeOK, MergeInv, CopyInv, WaveInv, LinkInv, FixInv, AtFixpoint
    PROVE  GraphConstraintsHold /\ UnmergedHold
<1>1. /\ Solving /\ RepInv /\ RepMaps /\ newCopies = {} /\ CopiesPropagated
      /\ LoadsDone /\ StoresDone /\ worklist = {} /\ tmpWorklist = {} /\ FieldInv
    BY DEF AtFixpoint, Solving, MergeInv, RepInv, FixInv, PhasesApart, Settled, CopyInv
<1>2. AllSent
    BY <1>1, NothingToSend DEF WaveInv, AtFixpoint
<1>3. GraphConstraintsHold
    BY <1>1, <1>2, GraphConstraints
<1>4. \A e \in prog.load \cup prog.store : e[1] \in Nodes /\ e[2] \in Nodes
    BY ProgramTypes DEF TypeOK, Edges
<1>5. \A p \in Nodes : pts[p] \subseteq Nodes
    BY GraphAssumption DEF TypeOK, PTS
<1>6. ASSUME NEW e \in prog.load, Unmerged(e[1]) PROVE LoadHolds(e)
    <2>1. getPts(e[1]) = pts[e[1]]
        BY <1>1, <1>4, <1>6, UnmergedItself DEF getPts, sccRepNode
    <2>2. ASSUME NEW o \in pts[e[1]] \ PointerlessObjs PROVE HasAll(getPts(e[2]), getPts(o))
        <3>1. Linked(o, e[2]) /\ o \in Nodes
            BY <1>1, <1>4, <1>5, <1>6 DEF LoadsDone
        <3> QED BY <1>1, <1>2, <1>4, <3>1, LinkedCopies
    <2> QED BY <2>1, <2>2 DEF LoadHolds
<1>7. ASSUME NEW e \in prog.store, Unmerged(e[2]) PROVE StoreHolds(e)
    <2>1. getPts(e[2]) = pts[e[2]]
        BY <1>1, <1>4, <1>7, UnmergedItself DEF getPts, sccRepNode
    <2>2. ASSUME NEW o \in pts[e[2]] \ PointerlessObjs PROVE HasAll(getPts(o), getPts(e[1]))
        <3>1. Linked(e[1], o) /\ o \in Nodes
            BY <1>1, <1>4, <1>5, <1>7 DEF StoresDone
        <3> QED BY <1>1, <1>2, <1>4, <3>1, LinkedCopies
    <2> QED BY <2>1, <2>2 DEF StoreHolds
<1> QED BY <1>3, <1>6, <1>7 DEF UnmergedHold

(***************************************************************************)
(* Every step keeps the invariant of the fixpoint.                         *)
(***************************************************************************)
LEMMA FixStep ==
    TypeOK /\ MergeInv /\ CopyInv /\ WaveInv /\ LinkInv /\ FixInv /\ [Next]_vars => FixInv'
<1> SUFFICES ASSUME TypeOK, MergeInv, CopyInv, WaveInv, LinkInv, FixInv, [Next]_vars PROVE FixInv'
    OBVIOUS
<1>1. ASSUME Solving, Solving' PROVE FixInv'
    <2>1. LoadsDone /\ StoresDone /\ PhasesApart
        BY <1>1 DEF FixInv
    <2>2. CASE Next
        BY <1>1, <2>1, <2>2, PhasesStayApart, AccessStep DEF FixInv, Solving
    <2>3. CASE UNCHANGED vars
        <3>1. UNCHANGED <<graphVars, prog, pts, newCopies, worklist, tmpWorklist>>
            BY <2>3 DEF vars, ptsVars, waveVars
        <3>2. LoadsDone' /\ StoresDone'
            BY <2>1, <3>1, AccessFrame DEF Waiting, graphVars
        <3>3. PhasesApart'
            BY <2>1, <2>3 DEF PhasesApart, vars, waveVars
        <3> QED BY <1>1, <3>2, <3>3 DEF FixInv, Solving
    <2> QED BY <2>2, <2>3
<1>2. ASSUME Solving, ~Solving' PROVE FixInv'
    <2>1. endIteration("scc")
        BY <1>2 DEF Next, SCCDetect, mergeNodeToRep, mergeNode, collapsePWCNode, processNode,
            reprocessNode, postProcessNode, skipQuiet, endWave, endRewave, endPost, addCopyEdge,
            insertCopy, Common, finishScc, finishCollapse, collapseField, resolveIndCall,
            removeGepNode, finish, Terminated, Solving, vars
    <2>2. AtFixpoint /\ UNCHANGED <<rep, gepE, prog, pts, fieldInsensitive, indCalls, varGepPtd>>
        BY <1>2, <2>1 DEF endIteration, AtFixpoint, Solving, graphVars, ptsVars, objectVars,
            invariantVars
    <2>3. GraphConstraintsHold /\ UnmergedHold
        BY <2>2, FixpointHolds
    <2>4. GraphConstraintsHold' /\ UnmergedHold'
        BY <2>2, <2>3, SolutionFrame
    <2> QED BY <1>2, <2>4 DEF FixInv
<1>3. ASSUME ~Solving PROVE FixInv'
    <2>1. finish \/ Terminated \/ (\E n \in redundantGepNodes : removeGepNode(n)) \/ UNCHANGED vars
        <3>1. cycles = {} /\ toCollapse = {} /\ newCopies = {}
            BY <1>3 DEF MergeInv, DoneSettled, Settled
        <3> QED BY <1>3, <3>1 DEF Next, SCCDetect, collapsePWCNode, processNode, reprocessNode,
                postProcessNode, skipQuiet, endWave, endRewave, endPost, Common, resolveIndCall,
                endIteration, Solving
    <2>2. CASE finish \/ Terminated
        BY <2>2 DEF finish, Terminated, FixInv, Solving, vars
    <2>3. ASSUME NEW n \in redundantGepNodes, removeGepNode(n) PROVE FixInv'
        BY <2>3 DEF removeGepNode, FixInv, LinkInv, RedundantKnown, Solving
    <2>4. CASE UNCHANGED vars
        <3>1. UNCHANGED <<rep, gepE, prog, pts, fieldInsensitive, indCalls, varGepPtd, phase>>
            BY <2>4 DEF vars, graphVars, ptsVars, objectVars, invariantVars
        <3>2. /\ GraphConstraintsHold => GraphConstraintsHold'
              /\ UnmergedHold => UnmergedHold'
            BY <3>1, SolutionFrame
        <3> QED BY <1>3, <3>1, <3>2 DEF FixInv, Solving
    <2> QED BY <2>1, <2>2, <2>3, <2>4
<1> QED BY <1>1, <1>2, <1>3

(***************************************************************************)
(* All that points to anything is on the first worklist.                   *)
(***************************************************************************)
LEMMA FixInvInit ==
    ASSUME IsProgram(prog), StartSolver("scc")
    PROVE  FixInv
<1>1. \A e \in prog.load \cup prog.store : e[1] \in Nodes /\ e[2] \in Nodes
    BY ProgramTypes DEF StartSolver, Edges
<1>2. \A p \in Nodes : p \notin worklist => pts[p] = {}
    BY DEF StartSolver
<1> QED BY <1>1, <1>2 DEF StartSolver, FixInv, LoadsDone, StoresDone, PhasesApart, Solving

SolverInv == TypeOK /\ MergeInv /\ CopyInv /\ WaveInv /\ LinkInv /\ FixInv

(***************************************************************************)
(* The wave solver's inductive invariant: types, merges, copies, order,    *)
(* links and the fixpoint, each part with its own lemmas above.            *)
(***************************************************************************)
LEMMA SolverInvariant == Spec => []SolverInv
<1>1. Init => SolverInv
    BY ProgramsStart, InitTypes, MergeInvInit, CopyInvInit, WaveInvInit, LinkInvInit, FixInvInit
       DEF Init, Phases, SolverInv
<1>2. SolverInv /\ [Next]_vars => SolverInv'
    BY StepTypes, MergeStep, CopyInvStep, WaveStep, LinkInvStep, FixStep DEF SolverInv
<1> QED BY <1>1, <1>2, PTL DEF Spec

(***************************************************************************)
(* The solver never stops early: when no iteration has been asked for and  *)
(* no call is left to resolve, the constraints of the graph hold, and the  *)
(* loads and stores of the pointers that were not merged.                  *)
(***************************************************************************)
THEOREM StopsAtFixpoint == Spec => []FixpointReached
<1>1. SolverInv => FixpointReached
    BY FixpointHolds DEF SolverInv, FixpointReached
<1> QED BY <1>1, SolverInvariant, PTL

-----------------------------------------------------------------------------
(***************************************************************************)
(* Every step keeps track of the geps, whatever it merges.                 *)
(***************************************************************************)
LEMMA GepStep == SolverInv /\ GepInv /\ [Next]_vars => GepInv'
<1> SUFFICES ASSUME SolverInv, GepInv, [Next]_vars, SingleDefs(prog)', (Solving \/ fieldInsensitive = {})'
             PROVE  GepsTraced'
    BY DEF GepInv
<1>1. /\ TypeOK /\ RepInv /\ DoneSettled /\ RedundantKnown /\ prog' = prog
      /\ Solving => NoSelfGeps
    BY ProgramStays DEF SolverInv, MergeInv, WaveInv, LinkInv
<1>2. ASSUME ~Solving PROVE ~Solving' /\ fieldInsensitive' = fieldInsensitive
    <2>1. CASE Next
        <3>1. (\E n \in redundantGepNodes : removeGepNode(n)) \/ finish \/ Terminated
            BY <1>1, <1>2, <2>1, FinalSteps DEF DoneSettled, Settled
        <3> QED BY <1>2, <3>1 DEF removeGepNode, finish, Terminated, Solving, objectVars, vars
    <2>2. CASE UNCHANGED vars
        BY <1>2, <2>2 DEF Solving, objectVars, vars
    <2> QED BY <2>1, <2>2
<1>3. (Solving \/ fieldInsensitive = {}) /\ SingleDefs(prog) /\ GepsTraced
    BY <1>1, <1>2 DEF GepInv
<1>4. CASE SCCDetect
    <2>1. UNCHANGED <<graphVars, newCopies, prog, pwcNodes, pwcInvariants>>
        BY <1>4 DEF SCCDetect, invariantVars
    <2>5. cycles = {} /\ EdgesAtReps /\ RepMaps
        BY <1>1, <1>4 DEF SCCDetect, Settled, SolverInv, MergeInv, DetectSettled, RepInv, Solving
    <2>2. PICK big \in {BigComponents} :
              \E root \in {f \in [big -> Reps] : \A c \in big : f[c] \in c} :
                  cycles' = {[rep |-> root[c], left |-> c \ {root[c]}, members |-> c,
                              geps |-> {}, scc |-> TRUE] : c \in big}
        BY <1>4 DEF SCCDetect
    <2>3. PICK root \in {f \in [big -> Reps] : \A c \in big : f[c] \in c} :
              cycles' = {[rep |-> root[c], left |-> c \ {root[c]}, members |-> c,
                          geps |-> {}, scc |-> TRUE] : c \in big}
        BY <2>2
    <2>4. big \subseteq BigComponents /\ \A c \in big : root[c] \in c
        BY <2>2, <2>3
    <2> QED BY <1>1, <1>3, <2>1, <2>3, <2>4, <2>5, GepsFound
<1>5. ASSUME NEW c \in cycles, NEW n \in c.left, mergeNodeToRep(c, n) PROVE GepsTraced'
    BY <1>1, <1>3, <1>5, GepsMerge DEF mergeNodeToRep
<1>6. ASSUME NEW n \in Nodes, postProcessNode(n) PROVE GepsTraced'
    BY <1>1, <1>3, <1>6, GepsAsk DEF postProcessNode, invariantVars
<1>7. ASSUME NEW e \in newCopies, addCopyEdge(e) PROVE GepsTraced'
    BY <1>3, <1>7, GepsAddEdge DEF addCopyEdge
<1>8. ASSUME \/ \E n \in Nodes : collapsePWCNode(n) \/ processNode(n) \/ reprocessNode(n)
             \/ skipQuiet \/ endWave \/ endRewave \/ endPost \/ UNCHANGED vars
      PROVE  GepsTraced'
    <2>1. UNCHANGED <<graphVars, newCopies, cycles, prog, pwcNodes, pwcInvariants>>
        BY <1>8 DEF collapsePWCNode, processNode, reprocessNode, skipQuiet, endWave, endRewave, endPost,
            invariantVars, vars
    <2> QED BY <1>3, <2>1, GepsStay
<1>9. CASE Common("scc")
    BY <1>1, <1>3, <1>9, GepsCommon
<1> QED BY <1>1, <1>4, <1>5, <1>6, <1>7, <1>8, <1>9, ReadyNodes DEF Next

(***************************************************************************)
(* Whatever is merged, every gep of a program in SSA form stays in the     *)
(* graph, adds no offset, is in a recorded cycle or runs inside a node     *)
(* whose objects get collapsed - unless it was merged into one node with a *)
(* gep of its kind that adds no offset, and may have been dropped for it.  *)
(***************************************************************************)
THEOREM GepsAccounted ==
    Spec => [](SingleDefs(prog) /\ (\A g \in prog.gep : ~Swallowed(g)) => LostGepsAccounted)
<1>1. Init => GepInv
    BY ProgramsStart, GepsInit DEF Init, GepInv
<1>2. SolverInv /\ GepInv => (SingleDefs(prog) /\ (\A g \in prog.gep : ~Swallowed(g)) => LostGepsAccounted)
    BY TracedLost DEF SolverInv
<1> QED BY <1>1, <1>2, GepStep, SolverInvariant, PTL DEF Spec

(***************************************************************************)
(* No step of the wave collapses a field when it speculates.               *)
(***************************************************************************)
LEMMA KeptStep == TypeOK /\ KeptInv /\ [Next]_vars => KeptInv'
<1> SUFFICES ASSUME TypeOK, KeptInv, [Next]_vars PROVE KeptInv'
    OBVIOUS
<1>1. CASE SCCDetect
    <2>1. \A c \in cycles' : c.scc
        BY <1>1 DEF SCCDetect
    <2> QED BY <1>1, <2>1, KeptFrame DEF SCCDetect, objectVars
<1>2. ASSUME NEW c \in cycles, NEW n \in c.left, mergeNodeToRep(c, n) PROVE KeptInv'
    BY <1>2, KeptMerge DEF mergeNodeToRep
<1>3. ASSUME NEW n, processNode(n) \/ reprocessNode(n) PROVE KeptInv'
    BY <1>3, KeptPropagate DEF processNode, reprocessNode
<1>4. ASSUME NEW n, collapsePWCNode(n) PROVE KeptInv'
    <2>1. ~KeepsFields
        BY <1>4, KeptNeedsNone DEF collapsePWCNode
    <2> QED BY <1>4, <2>1 DEF collapsePWCNode, KeptInv, KeepsFields, InvariantVGEP, InvariantPWC, MergePWC
<1>5. ASSUME \/ \E n \in Nodes : postProcessNode(n)
             \/ skipQuiet \/ endWave \/ endRewave \/ endPost
             \/ \E e \in newCopies : addCopyEdge(e)
             \/ UNCHANGED vars
      PROVE  KeptInv'
    <2>1. UNCHANGED <<prog, fieldInsensitive, toCollapse, pwcNodes, cycles>>
        BY <1>5 DEF postProcessNode, skipQuiet, endWave, endRewave, endPost, addCopyEdge, insertCopy,
            objectVars, vars
    <2> QED BY <2>1, KeptFrame
<1>6. CASE Common("scc")
    BY <1>6, KeptCommon
<1> QED BY <1>1, <1>2, <1>3, <1>4, <1>5, <1>6 DEF Next

(***************************************************************************)
(* In the optimistic round, where both invariants are speculated on, the   *)
(* solver always ends with every call connected and every load and store   *)
(* through an unmerged pointer closed: nothing is collapsed, so there is   *)
(* no field node for finalisation to forget.                               *)
(***************************************************************************)
THEOREM OptimisticSolution ==
    Spec => [](KeepsFields => fieldInsensitive = {} /\ CallsConnected /\ UnmergedLoadStoresHold)
<1>1. Init => KeptInv
    BY ProgramsStart, KeptInvInit DEF Init
<1>2. TypeOK /\ KeptInv /\ [Next]_vars => KeptInv'
    BY KeptStep
<1>3. SolverInv => TypeOK
    BY DEF SolverInv
<1>4. /\ SolverInv /\ fieldInsensitive = {} => CallsConnected /\ UnmergedLoadStoresHold
      /\ KeptInv /\ KeepsFields => fieldInsensitive = {}
    BY DEF SolverInv, FixInv, CallsConnected, GraphConstraintsHold, UnmergedLoadStoresHold, Solved, KeptInv
<1> QED BY <1>1, <1>2, <1>3, <1>4, SolverInvariant, PTL DEF Spec

(***************************************************************************)
(* In the optimistic round that is enough for the solution to satisfy all  *)
(* addresses, copies and geps but those of the recorded cycles.            *)
(***************************************************************************)
LEMMA SpeculatedDirect ==
    ASSUME SolverInv, KeptInv, GepInv, KeepsFields, InvariantPWC,
           SingleDefs(prog), \A g \in prog.gep : ~Swallowed(g)
    PROVE  DirectConstraintsHold
<1> SUFFICES ASSUME Solved PROVE DirectConstraintsHold
    BY DEF DirectConstraintsHold
<1>1. fieldInsensitive = {}
    BY DEF KeptInv
<1>2. TypeOK /\ cycles = {} /\ GraphConstraintsHold
    BY <1>1 DEF SolverInv, MergeInv, DoneSettled, Settled, Solved, Solving, FixInv
<1> QED BY <1>1, <1>2, TracedDirect

(***************************************************************************)
(* The optimistic round of the solver on its own.                          *)
(***************************************************************************)
THEOREM OptimisticDirect ==
    Spec => [](KeepsFields /\ InvariantPWC /\ SingleDefs(prog) /\ (\A g \in prog.gep : ~Swallowed(g))
                   => DirectConstraintsHold)
<1>1. Init => KeptInv /\ GepInv
    BY ProgramsStart, KeptInvInit, GepsInit DEF Init, GepInv
<1>2. SolverInv /\ KeptInv /\ [Next]_vars => KeptInv'
    BY KeptStep DEF SolverInv
<1>3. SolverInv /\ KeptInv /\ GepInv
          => (KeepsFields /\ InvariantPWC /\ SingleDefs(prog) /\ (\A g \in prog.gep : ~Swallowed(g))
                  => DirectConstraintsHold)
    BY SpeculatedDirect
<1> QED BY <1>1, <1>2, <1>3, GepStep, SolverInvariant, PTL DEF Spec

-----------------------------------------------------------------------------
(***************************************************************************)
(* No step of the wave derives a fact the constraints do not.              *)
(***************************************************************************)
LEMMA PreciseStep == TypeOK /\ MergeInv /\ PreciseInv /\ [Next]_vars => PreciseInv'
<1> SUFFICES ASSUME TypeOK, MergeInv, PreciseInv, [Next]_vars, NEW L, Closed(L)' PROVE Within(L)'
    BY DEF PreciseInv
<1>1. prog' = prog
    BY ProgramStays
<1>2. Closed(L) /\ Within(L)
    BY <1>1 DEF Closed, PreciseInv
<1>3. CASE SCCDetect
    <2>1. UNCHANGED <<graphVars, pts, newCopies>>
        BY <1>3 DEF SCCDetect, ptsVars
    <2>2. PICK big \in {BigComponents} :
              \E root \in {f \in [big -> Reps] : \A c \in big : f[c] \in c} :
                  cycles' = {[rep |-> root[c], left |-> c \ {root[c]}, members |-> c,
                              geps |-> {}, scc |-> TRUE] : c \in big}
        BY <1>3 DEF SCCDetect
    <2>3. PICK root \in {f \in [big -> Reps] : \A c \in big : f[c] \in c} :
              cycles' = {[rep |-> root[c], left |-> c \ {root[c]}, members |-> c,
                          geps |-> {}, scc |-> TRUE] : c \in big}
        BY <2>2
    <2> QED BY <1>2, <2>1, <2>2, <2>3, WithinFound
<1>4. ASSUME NEW c \in cycles, NEW n \in c.left, mergeNodeToRep(c, n) PROVE Within(L)'
    BY <1>2, <1>4, WithinMerge DEF mergeNodeToRep, MergeInv
<1>5. ASSUME NEW n \in Nodes, processNode(n) \/ reprocessNode(n) PROVE Within(L)'
    <2>1. UNCHANGED <<graphVars, newCopies, cycles>> /\ \E queue : handleCopyGep(n, queue)
        BY <1>5 DEF processNode, reprocessNode
    <2> QED BY <1>2, <2>1, WithinPropagate
<1>6. ASSUME NEW n \in Nodes, postProcessNode(n) PROVE Within(L)'
    <2>1. /\ UNCHANGED <<graphVars, pts, cycles>>
          /\ newCopies' = NewEdges(LoadCopies(n) \cup StoreCopies(n))
        BY <1>6 DEF postProcessNode, ptsVars
    <2> QED BY <1>2, <2>1, WithinAsk
<1>7. ASSUME NEW e \in newCopies, addCopyEdge(e) PROVE Within(L)'
    BY <1>2, <1>7, WithinAddEdge DEF addCopyEdge
<1>8. ASSUME \/ \E n \in Ready : collapsePWCNode(n)
             \/ skipQuiet \/ endWave \/ endRewave \/ endPost \/ UNCHANGED vars
      PROVE  Within(L)'
    <2>1. UNCHANGED <<graphVars, pts, newCopies, cycles>>
        BY <1>8 DEF collapsePWCNode, skipQuiet, endWave, endRewave, endPost, vars, ptsVars
    <2> QED BY <1>2, <2>1, WithinFrame
<1>9. CASE Common("scc")
    BY <1>2, <1>9, WithinCommon
<1> QED BY <1>3, <1>4, <1>5, <1>6, <1>7, <1>8, <1>9, ReadyNodes DEF Next

(***************************************************************************)
(* For every program, order and choice of options, no fact of the wave     *)
(* solver, finalised or not, is outside the least solution of the          *)
(* inclusion constraints, in which address arithmetic is a copy.           *)
(***************************************************************************)
THEOREM WaveIsPrecise == Spec => []Precise
<1>1. Init => PreciseInv
    BY ProgramsStart, WithinInit DEF Init
<1>2. TypeOK /\ MergeInv /\ PreciseInv /\ [Next]_vars => PreciseInv'
    BY PreciseStep
<1>3. SolverInv => TypeOK /\ MergeInv
    BY DEF SolverInv
<1>4. TypeOK /\ PreciseInv => Precise
    BY FactsWithin
<1> QED BY <1>1, <1>2, <1>3, <1>4, SolverInvariant, PTL DEF Spec

-----------------------------------------------------------------------------
(* The call graph.  What merging has put together stays together in the    *)
(* points-to sets, so finalisation gives no call pointer a new target.     *)

\* A target the solution has is connected, over the budget, or filtered out.
Answered(c) ==
    \/ c.fun \notin getPts(c.fptr)
    \/ c \in indCalls
    \/ ~(Cardinality(indCalls) < IndirectCallLimit)
    \/ InvariantPWC /\ ~(c.argsMatch /\ c.typesMatch)

\* What the second round expects of the end of the first.
NothingLeft ==
    /\ ~Solving => ~reanalyze /\ tmpWorklist = {}
    /\ phase = "done" => redundantGepNodes = {}

CallInv ==
    /\ DummiesAlone /\ SetsBelow /\ NothingLeft
    /\ ~Solving => \A c \in prog.calls : Answered(c)

(***************************************************************************)
(* No step gives a node alone an edge or a cycle.                          *)
(***************************************************************************)
LEMMA AloneStep ==
    ASSUME TypeOK, MergeInv, [Next]_vars, NEW v, Alone(v), v \notin ObjNodes,
           \A n \in Nodes : v \notin pts[n],
           \A c \in prog.calls : \A e \in c.params : e[2] # v
    PROVE  Alone(v)'
<1>1. RepInv /\ DoneSettled
    BY DEF MergeInv
<1>2. CASE SCCDetect
    <2>1. UNCHANGED <<graphVars, newCopies>>
        BY <1>2 DEF SCCDetect
    <2>2. PICK big \in {BigComponents} :
              \E root \in {f \in [big -> Reps] : \A c \in big : f[c] \in c} :
                  cycles' = {[rep |-> root[c], left |-> c \ {root[c]}, members |-> c,
                              geps |-> {}, scc |-> TRUE] : c \in big}
        BY <1>2 DEF SCCDetect
    <2>3. PICK root \in {f \in [big -> Reps] : \A c \in big : f[c] \in c} :
              cycles' = {[rep |-> root[c], left |-> c \ {root[c]}, members |-> c,
                          geps |-> {}, scc |-> TRUE] : c \in big}
        BY <2>2
    <2>4. big \subseteq BigComponents /\ \A c \in big : root[c] \in c
        BY <2>2, <2>3
    <2> QED BY <2>1, <2>3, <2>4, AloneFound
<1>3. ASSUME NEW c \in cycles, NEW n \in c.left, mergeNodeToRep(c, n) PROVE Alone(v)'
    BY <1>1, <1>3, AloneMerge DEF mergeNodeToRep
<1>4. ASSUME NEW n \in Nodes, postProcessNode(n) PROVE Alone(v)'
    BY <1>4, AloneAsk DEF postProcessNode
<1>5. ASSUME NEW e \in newCopies, addCopyEdge(e) PROVE Alone(v)'
    BY <1>5, AloneAddEdge DEF addCopyEdge
<1>6. ASSUME UNCHANGED <<graphVars, newCopies>>, cycles' \subseteq cycles PROVE Alone(v)'
    BY <1>6, AloneFrame DEF Alone
<1>7. ASSUME NEW n \in Nodes, collapsePWCNode(n) \/ processNode(n) \/ reprocessNode(n)
      PROVE  Alone(v)'
    BY <1>6, <1>7 DEF collapsePWCNode, processNode, reprocessNode
<1>8. CASE skipQuiet \/ endWave \/ endRewave \/ endPost \/ UNCHANGED vars
    BY <1>6, <1>8 DEF skipQuiet, endWave, endRewave, endPost, vars
<1>9. CASE Common("scc")
    BY <1>1, <1>9, AloneCommon
<1> QED BY <1>2, <1>3, <1>4, <1>5, <1>7, <1>8, <1>9, ReadyNodes DEF Next

(***************************************************************************)
(* A node that was merged never has a fact its representative lacks.       *)
(***************************************************************************)
LEMMA SetsBelowStep ==
    TypeOK /\ MergeInv /\ DummiesAlone /\ SetsBelow /\ [Next]_vars => SetsBelow'
<1> SUFFICES ASSUME TypeOK, MergeInv, DummiesAlone, SetsBelow, [Next]_vars PROVE SetsBelow'
    OBVIOUS
<1>1. ASSUME NEW c \in cycles, NEW n \in c.left, mergeNodeToRep(c, n) PROVE SetsBelow'
    BY <1>1, SetsBelowMerge DEF mergeNodeToRep, MergeInv
<1>2. ASSUME NEW n \in Nodes, processNode(n) \/ reprocessNode(n) PROVE SetsBelow'
    <2>1. rep' = rep /\ EdgesAtReps /\ \E queue : handleCopyGep(n, queue)
        BY <1>2 DEF processNode, reprocessNode, graphVars, Solving, MergeInv, RepInv
    <2> QED BY <2>1, SetsBelowPropagate
<1>3. ASSUME \/ SCCDetect \/ skipQuiet \/ endWave \/ endRewave \/ endPost \/ UNCHANGED vars
             \/ \E n \in Ready : collapsePWCNode(n)
             \/ \E n \in Nodes : postProcessNode(n)
             \/ \E e \in newCopies : addCopyEdge(e)
      PROVE  SetsBelow'
    <2>1. UNCHANGED <<pts, rep>>
        BY <1>3 DEF SCCDetect, skipQuiet, endWave, endRewave, endPost, collapsePWCNode, postProcessNode,
            addCopyEdge, insertCopy, vars, graphVars, ptsVars
    <2> QED BY <2>1 DEF SetsBelow
<1>4. CASE Common("scc")
    BY <1>4, SetsBelowCommon
<1> QED BY <1>1, <1>2, <1>3, <1>4, ReadyNodes DEF Next

(***************************************************************************)
(* An iteration is the last only if no call is left to connect, and what   *)
(* finalisation forgets adds no target.                                    *)
(***************************************************************************)
LEMMA CallInvStep == SolverInv /\ CallInv /\ [Next]_vars => CallInv'
<1> SUFFICES ASSUME SolverInv, CallInv, [Next]_vars PROVE CallInv'
    OBVIOUS
<1>1. /\ TypeOK /\ MergeInv /\ DummiesAlone /\ SetsBelow /\ NothingLeft /\ prog' = prog
      /\ ~Solving => \A c \in prog.calls : Answered(c)
    BY ProgramStays DEF SolverInv, CallInv
<1>2. DummiesAlone'
    <2> SUFFICES ASSUME NEW c \in prog.calls, NEW h \in c.heap PROVE Alone(h[1])'
        BY <1>1 DEF DummiesAlone
    <2>1. h[1] \notin ObjNodes /\ \A d \in prog.calls : \A e \in d.params : e[2] # h[1]
        BY <1>1, DummyTypes
    <2>2. \A n \in Nodes : h[1] \notin pts[n]
        BY <1>1, <2>1 DEF TypeOK, PTS
    <2> QED BY <1>1, <2>1, <2>2, AloneStep DEF DummiesAlone
<1>3. SetsBelow'
    BY <1>1, SetsBelowStep
<1>4. CASE Solving'
    BY <1>2, <1>3, <1>4 DEF CallInv, NothingLeft, Solving
<1>5. CASE Solving /\ ~Solving'
    <2>1. endIteration("scc")
        BY <1>5, LastIteration DEF vars, Solving
    <2>2. /\ reanalyze' = FALSE /\ UNCHANGED <<rep, pts, tmpWorklist, indCalls>> /\ phase' = "finalize"
          /\ \A c \in prog.calls : ~Resolvable(c)
        BY <1>5, <2>1 DEF endIteration, Solving, graphVars, ptsVars, waveVars
    <2>3. tmpWorklist = {}
        BY <1>5, <2>1 DEF SolverInv, FixInv, PhasesApart, endIteration
    <2>4. \A c \in prog.calls : Answered(c)'
        BY <1>1, <2>2 DEF Resolvable, Answered, getPts, sccRepNode, InvariantPWC
    <2> QED BY <1>1, <1>2, <1>3, <2>2, <2>3, <2>4 DEF CallInv, NothingLeft
<1>6. CASE ~Solving
    <2>1. CASE UNCHANGED vars
        BY <1>1, <1>2, <1>3, <1>6, <2>1
        DEF CallInv, NothingLeft, Answered, getPts, sccRepNode, InvariantPWC, Solving, vars, graphVars,
            ptsVars, waveVars, objectVars
    <2>2. CASE Next
        <3>1. (\E n \in redundantGepNodes : removeGepNode(n)) \/ finish \/ Terminated
            BY <1>1, <1>6, <2>2, FinalSteps DEF MergeInv, DoneSettled, Settled
        <3>2. /\ UNCHANGED <<pts, reanalyze, tmpWorklist, indCalls>>
              /\ \A n \in Nodes : rep'[n] \in {n, rep[n]}
              /\ phase' = "done" => redundantGepNodes' = {}
              /\ ~Solving'
            BY <1>1, <1>6, <3>1 DEF removeGepNode, cleanConsCG, finish, Terminated, NothingLeft, Solving,
                TypeOK, vars, graphVars, ptsVars, waveVars, objectVars
        <3>3. ASSUME NEW c \in prog.calls PROVE Answered(c)'
            <4>1. c.fptr \in Nodes
                BY <1>1, ProgramTypes DEF TypeOK
            <4>2. pts'[rep'[c.fptr]] \subseteq pts[rep[c.fptr]]
                BY <1>1, <3>2, <4>1 DEF SetsBelow
            <4> QED BY <1>1, <1>6, <3>2, <4>2 DEF Answered, getPts, sccRepNode, InvariantPWC
        <3> QED BY <1>1, <1>2, <1>3, <1>6, <3>2, <3>3 DEF CallInv, NothingLeft
    <2> QED BY <2>1, <2>2
<1> QED BY <1>4, <1>5, <1>6

(***************************************************************************)
(* A call is connected only to a target that every solution gives it.      *)
(***************************************************************************)
CallsWithin == \A L : Closed(L) => \A c \in indCalls : <<c.fun, c.fptr>> \in L

(***************************************************************************)
(* Only resolving a call connects one, and it reads the target from a      *)
(* points-to set that lies within every solution.                          *)
(***************************************************************************)
LEMMA CallsWithinStep == TypeOK /\ PreciseInv /\ CallsWithin /\ [Next]_vars => CallsWithin'
<1> SUFFICES ASSUME TypeOK, PreciseInv, CallsWithin, [Next]_vars,
                    NEW L, Closed(L)', NEW c \in indCalls'
             PROVE  <<c.fun, c.fptr>> \in L
    BY DEF CallsWithin
<1>1. Closed(L) /\ Within(L)
    BY ProgramStays DEF Closed, PreciseInv
<1>2. CASE c \in indCalls
    BY <1>1, <1>2 DEF CallsWithin
<1>3. CASE c \notin indCalls
    <2>1. c \in prog.calls /\ resolveIndCall(c)
        BY <1>3 DEF Next, SCCDetect, mergeNodeToRep, mergeNode, collapsePWCNode, processNode,
            reprocessNode, postProcessNode, skipQuiet, endWave, endRewave, endPost, addCopyEdge,
            insertCopy, Common, finishScc, finishCollapse, collapseField, resolveIndCall,
            endIteration, removeGepNode, finish, Terminated, vars
    <2>2. c.fptr \in Nodes /\ c.fun \in ObjNodes /\ Base[c.fun] = c.fun /\ Whole(c.fptr) = c.fptr
        <3>1. c.fptr \in Pointers /\ c.fun \in WholeObjs
            BY <2>1 DEF TypeOK, IsProgram, Calls
        <3> QED BY <3>1 DEF Pointers, WholeObjs, Whole
    <2>3. rep[c.fptr] \in Nodes /\ c.fun \in pts[rep[c.fptr]]
        BY <2>1, <2>2 DEF TypeOK, resolveIndCall, Resolvable, getPts, sccRepNode
    <2>4. <<c.fun, Whole(rep[c.fptr])>> \in L
        BY <1>1, <2>2, <2>3 DEF Within, PtsWithin
    <2> QED BY <1>1, <2>2, <2>4 DEF Within, RepsWithin, Alike, Below
<1> QED BY <1>2, <1>3

-----------------------------------------------------------------------------
(* Positive weight cycles.  The objects that one of their nodes points to  *)
(* are collapsed, or the node is still to be visited by the wave.          *)

WillCollapse(n) ==
    \/ phase = "scc"
    \/ phase = "wave" /\ (n \in pending \/ \E c \in cycles : n \in c.left)

CyclesCollapsed == \A n \in Reps \cap pwcNodes : ToCollapse(n) \subseteq toCollapse \/ WillCollapse(n)

(***************************************************************************)
(* Unless an iteration was asked for, nothing gets past collapsePWCNode;   *)
(* the cycles that detection has found are merged before the wave starts.  *)
(***************************************************************************)
CollapseInv ==
    /\ phase = "rewave" => ~MergePWC
    /\ \A c \in cycles : c.scc => phase = "wave" /\ c.rep \in pending
    /\ Solving /\ ~reanalyze /\ MergePWC => CyclesCollapsed

(***************************************************************************)
(* A node that gains nothing needs no other collapse.                      *)
(***************************************************************************)
LEMMA CollapsedFrame ==
    ASSUME CyclesCollapsed, Reps' \subseteq Reps, pwcNodes' \subseteq pwcNodes,
           \A n \in Reps' : pts'[n] = pts[n] \/ WillCollapse(n)',
           \A n \in Reps' \cap pwcNodes' : WillCollapse(n) => WillCollapse(n)' \/ ToCollapse(n) = {},
           fieldInsensitive \subseteq fieldInsensitive',
           toCollapse \subseteq toCollapse' \cup fieldInsensitive'
    PROVE  CyclesCollapsed'
<1> SUFFICES ASSUME NEW n \in Reps', n \in pwcNodes', ~WillCollapse(n)'
             PROVE  ToCollapse(n)' \subseteq toCollapse'
    BY DEF CyclesCollapsed
<1>1. ToCollapse(n) \subseteq toCollapse
    BY DEF CyclesCollapsed
<1>2. rep[n] = n /\ rep'[n] = n /\ pts'[n] = pts[n]
    BY DEF Reps
<1>3. ToCollapse(n)' \subseteq ToCollapse(n) \ fieldInsensitive'
    BY <1>2 DEF ToCollapse, getPts, sccRepNode
<1> QED BY <1>1, <1>3

(***************************************************************************)
(* A merge found by detection makes a node the wave will visit; one that   *)
(* collapsing makes asks for another iteration, if it merges anything.     *)
(***************************************************************************)
LEMMA CollapseInvMerge ==
    ASSUME SolverInv, CollapseInv, NEW c \in cycles, NEW node \in c.left, mergeNodeToRep(c, node)
    PROVE  CollapseInv'
<1> DEFINE r == c.rep
           smaller == [c EXCEPT !.left = @ \ {node}, !.geps = @ \cup CriticalGeps(node, r)]
<1>1. /\ mergeNode(c, node) /\ TypeOK /\ RepInv /\ DoneSettled /\ WaveInv
      /\ UNCHANGED <<prog, phase, pending, reanalyze, fieldInsensitive, toCollapse>>
    BY DEF SolverInv, MergeInv, mergeNodeToRep, mergeNode, waveVars, objectVars
<1>2. Solving
    BY <1>1 DEF DoneSettled, Settled
<1>3. /\ r \in Reps /\ node \in Reps /\ r # node
      /\ \A m \in Nodes : rep'[m] = IF rep[m] = node THEN r ELSE rep[m]
    BY <1>1, RepInvMerge
<1>4. /\ Reps' = Reps \ {node}
      /\ \A n \in Nodes : n # r => pts'[n] = pts[n]
      /\ pwcNodes' \subseteq pwcNodes \cup {r}
    BY <1>1, <1>3 DEF Reps, TypeOK, mergeNode, unionPts
<1>5. cycles' = (cycles \ {c}) \cup {smaller}
    BY <1>1 DEF mergeNode
<1>6. smaller.rep = r /\ smaller.left = c.left \ {node} /\ smaller.scc = c.scc
    BY <1>1 DEF TypeOK, Cycles
<1> HIDE DEF smaller
<1>7. \A d \in cycles' : d.scc => phase' = "wave" /\ d.rep \in pending'
    BY <1>1, <1>5, <1>6 DEF CollapseInv
<1>8. ASSUME ~reanalyze, MergePWC PROVE CyclesCollapsed'
    <2>1. phase = "wave" /\ r \in pending /\ CyclesCollapsed
        BY <1>1, <1>2, <1>8 DEF WaveInv, MergesPending, CollapseInv
    <2> SUFFICES ASSUME NEW n \in Reps', n \in pwcNodes', n # r
                 PROVE  ToCollapse(n)' \subseteq toCollapse' \/ WillCollapse(n)'
        BY <1>1, <2>1 DEF CyclesCollapsed, WillCollapse
    <2>2. n \in Reps \cap pwcNodes /\ n \in Nodes /\ n # node /\ rep'[n] = n /\ rep[n] = n
        BY <1>4 DEF Reps
    <2>3. ToCollapse(n)' = ToCollapse(n)
        BY <1>1, <1>4, <2>2 DEF ToCollapse, getPts, sccRepNode
    <2>4. WillCollapse(n) => WillCollapse(n)'
        BY <1>1, <1>5, <1>6, <2>2 DEF WillCollapse
    <2> QED BY <1>1, <2>1, <2>2, <2>3, <2>4 DEF CyclesCollapsed
<1> QED BY <1>1, <1>7, <1>8 DEF CollapseInv, MergePWC

(***************************************************************************)
(* Processing a node of the wave: its objects have been collapsed, and     *)
(* whoever gains from it comes later in the order.                         *)
(***************************************************************************)
LEMMA CollapseInvProcess ==
    ASSUME SolverInv, CollapseInv, NEW n \in Fresh, processNode(n)
    PROVE  CollapseInv'
<1>1. /\ TypeOK /\ RepInv /\ WaveInv
      /\ Settled /\ Solving /\ phase = "wave" /\ n \in Nodes /\ handleCopyGep(n, worklist)
      /\ UNCHANGED <<graphVars, prog, phase, cycles, reanalyze, pwcNodes>>
      /\ pending' = pending \ {n}
    BY ReadyNodes DEF SolverInv, MergeInv, processNode, Solving
<1>2. Reps' = Reps /\ cycles = {} /\ toCollapse = {} /\ NoSelfGeps
    BY <1>1 DEF Reps, graphVars, Settled, WaveInv
<1>3. fieldInsensitive \subseteq fieldInsensitive'
    BY <1>1 DEF handleCopyGep
<1>4. rep[n] = n /\ ~NeedsCollapse(n) /\ n \in Ready
    BY DEF Fresh, Quiet
<1>5. ASSUME ~reanalyze, MergePWC PROVE CyclesCollapsed'
    <2>1. CyclesCollapsed /\ OrderKept
        BY <1>1, <1>5 DEF CollapseInv, WaveInv
    <2>2. ASSUME NEW m \in Reps PROVE pts'[m] = pts[m] \/ WillCollapse(m)'
        <3>1. m \in Nodes
            BY DEF Reps
        <3>2. CASE m = n
            BY <1>1, <1>2, <3>2, PropagateSends
        <3>3. CASE m # n /\ pts'[m] # pts[m]
            <4>1. <<n, m>> \in DirectEdges(MergePWC)
                BY <1>1, <1>2, <1>5, <3>1, <3>3, PropagateSends
            <4>2. <<n, m>> \in topo
                BY <1>1, <1>2, <2>1, <3>1, <3>3, <4>1 DEF OrderKept, StandsFor
            <4>3. m \in pending'
                BY <1>1, <1>4, <2>1, <3>3, <4>2 DEF OrderKept, Ready
            <4> QED BY <1>1, <4>3 DEF WillCollapse
        <3> QED BY <3>2, <3>3
    <2>3. ASSUME NEW m \in Reps, m \in pwcNodes, WillCollapse(m)
          PROVE  WillCollapse(m)' \/ ToCollapse(m) = {}
        <3>1. m # n => m \in pending'
            BY <1>1, <1>2, <2>3 DEF WillCollapse
        <3> QED BY <1>1, <1>4, <1>5, <2>3, <3>1 DEF WillCollapse, NeedsCollapse, sccRepNode
    <2> QED BY <1>1, <1>2, <1>3, <2>1, <2>2, <2>3, CollapsedFrame
<1> QED BY <1>1, <1>2, <1>5 DEF CollapseInv, MergePWC

(***************************************************************************)
(* The steps that change neither the graph nor a points-to set.            *)
(***************************************************************************)
LEMMA CollapseInvQuiet ==
    ASSUME SolverInv, CollapseInv,
           \/ skipQuiet \/ endWave \/ endRewave \/ endPost
           \/ \E n \in Nodes : collapsePWCNode(n) \/ postProcessNode(n)
    PROVE  CollapseInv'
<1>1. /\ Settled /\ Solving /\ cycles = {} /\ toCollapse = {}
      /\ UNCHANGED <<graphVars, prog, pts, cycles, reanalyze, fieldInsensitive, pwcNodes>>
    BY DEF skipQuiet, endWave, endRewave, endPost, collapsePWCNode, postProcessNode, Solving, Settled,
           ptsVars, objectVars
<1>2. Reps' = Reps /\ MergePWC' = MergePWC
    BY <1>1 DEF Reps, MergePWC, graphVars
<1>3. phase' = "rewave" => ~MergePWC
    BY DEF CollapseInv, skipQuiet, endWave, endRewave, endPost, collapsePWCNode, postProcessNode
<1>4. ASSUME MergePWC, NEW n \in Reps \cap pwcNodes, WillCollapse(n)
      PROVE  WillCollapse(n)' \/ ToCollapse(n) = {}
    <2>1. CASE skipQuiet
        <3>1. CASE n \in Quiet
            BY <1>4, <3>1 DEF Quiet, NeedsCollapse, sccRepNode, Reps
        <3>2. CASE n \notin Quiet
            BY <1>1, <1>4, <2>1, <3>2 DEF skipQuiet, WillCollapse
        <3> QED BY <3>1, <3>2
    <2>2. CASE endWave \/ endRewave \/ endPost \/ \E m \in Nodes : postProcessNode(m)
        BY <1>1, <1>4, <2>2 DEF endWave, endRewave, endPost, postProcessNode, WillCollapse
    <2>3. ASSUME NEW m \in Nodes, collapsePWCNode(m) PROVE WillCollapse(n)'
        BY <1>1, <1>4, <2>3 DEF collapsePWCNode, WillCollapse, waveVars
    <2> QED BY <2>1, <2>2, <2>3
<1>5. ASSUME ~reanalyze, MergePWC PROVE CyclesCollapsed'
    <2>1. CyclesCollapsed
        BY <1>1, <1>5 DEF CollapseInv
    <2> QED BY <1>1, <1>2, <1>4, <1>5, <2>1, CollapsedFrame
<1> QED BY <1>1, <1>2, <1>3, <1>5 DEF CollapseInv

(***************************************************************************)
(* The steps that do not depend on the loop: finishScc adds a node that is *)
(* still to be visited, finishCollapse what a merged one needs.            *)
(***************************************************************************)
LEMMA CollapseInvCommon ==
    ASSUME SolverInv, CollapseInv, Common("scc")
    PROVE  CollapseInv'
<1>1. TypeOK /\ MergeInv /\ WaveInv
    BY DEF SolverInv
<1>2. ASSUME NEW c \in cycles, finishScc(c) \/ finishCollapse(c) PROVE CollapseInv'
    <2>1. /\ cycles' = cycles \ {c} /\ c.left = {} /\ toCollapse \subseteq toCollapse'
          /\ UNCHANGED <<rep, prog, phase, pending, reanalyze, pts, fieldInsensitive>>
          /\ pwcNodes' \subseteq pwcNodes \cup (IF c.scc THEN {c.rep} ELSE {})
        BY <1>2 DEF finishScc, finishCollapse, ptsVars, objectVars, waveVars, graphVars
    <2>2. Solving /\ Reps' = Reps /\ MergePWC' = MergePWC
        BY <1>1, <2>1 DEF MergeInv, DoneSettled, Settled, Reps, MergePWC
    <2>3. \A d \in cycles' : d.scc => phase' = "wave" /\ d.rep \in pending'
        BY <2>1 DEF CollapseInv
    <2>4. ASSUME ~reanalyze, MergePWC, NEW n \in Reps, n \in pwcNodes'
          PROVE  ToCollapse(n)' \subseteq toCollapse' \/ WillCollapse(n)'
        <3>1. ToCollapse(n)' = ToCollapse(n) /\ (WillCollapse(n) => WillCollapse(n)')
            BY <2>1 DEF ToCollapse, getPts, sccRepNode, WillCollapse
        <3>2. CASE n \in pwcNodes
            BY <2>1, <2>2, <2>4, <3>1, <3>2 DEF CollapseInv, CyclesCollapsed
        <3>3. CASE c.scc /\ n = c.rep
            BY <2>1, <3>3 DEF CollapseInv, WillCollapse
        <3> QED BY <2>1, <2>4, <3>2, <3>3
    <2> QED BY <2>1, <2>2, <2>3, <2>4 DEF CollapseInv, CyclesCollapsed
<1>3. ASSUME NEW b \in toCollapse, collapseField(b) PROVE CollapseInv'
    <2>1. /\ cycles = {} /\ UNCHANGED <<rep, prog, pending, phase, pwcNodes>>
          /\ toCollapse' = toCollapse \ {b} /\ fieldInsensitive' = fieldInsensitive \cup {b}
          /\ \A c \in cycles' : ~c.scc
        BY <1>3 DEF collapseField, waveVars, graphVars
    <2>2. Solving /\ Reps' = Reps /\ MergePWC' = MergePWC
        BY <1>1, <1>3, <2>1 DEF MergeInv, DoneSettled, Settled, Reps, MergePWC
    <2>3. ASSUME ~reanalyze', MergePWC PROVE CyclesCollapsed'
        <3>1. ~reanalyze /\ UNCHANGED pts
            BY <1>1, <1>3, <2>2, <2>3, NoHitNoMerge DEF WaveInv
        <3>2. CyclesCollapsed
            BY <2>2, <2>3, <3>1 DEF CollapseInv
        <3>3. \A n : WillCollapse(n) => WillCollapse(n)'
            BY <2>1 DEF WillCollapse
        <3> QED BY <2>1, <2>2, <3>1, <3>2, <3>3, CollapsedFrame
    <2> QED BY <2>1, <2>2, <2>3 DEF CollapseInv
<1>4. ASSUME NEW c \in prog.calls, resolveIndCall(c) PROVE CollapseInv'
    BY <1>4 DEF resolveIndCall, CollapseInv, Settled
<1>5. CASE endIteration("scc")
    <2>1. cycles' = {} /\ phase' \in {"scc", "finalize"}
        BY <1>5 DEF endIteration, Settled
    <2>2. phase' = "scc" => CyclesCollapsed'
        BY DEF CyclesCollapsed, WillCollapse
    <2> QED BY <2>1, <2>2 DEF CollapseInv, Solving
<1>6. CASE finish \/ Terminated \/ \E n \in redundantGepNodes : removeGepNode(n)
    <2>1. ~Solving' /\ cycles' = {} /\ phase' # "rewave"
        BY <1>1, <1>6 DEF finish, Terminated, removeGepNode, Solving, MergeInv, DoneSettled, Settled, vars
    <2> QED BY <2>1 DEF CollapseInv
<1> QED BY <1>2, <1>3, <1>4, <1>5, <1>6 DEF Common

(***************************************************************************)
(* Every step of the wave solver keeps its positive weight cycles          *)
(* collapsed.                                                              *)
(***************************************************************************)
LEMMA CollapseInvStep == SolverInv /\ CollapseInv /\ [Next]_vars => CollapseInv'
<1> SUFFICES ASSUME SolverInv, CollapseInv, [Next]_vars PROVE CollapseInv'
    OBVIOUS
<1>1. TypeOK /\ MergeInv /\ WaveInv
    BY DEF SolverInv
<1>2. CASE SCCDetect
    <2>1. /\ phase = "scc" /\ phase' = "wave" /\ UNCHANGED <<rep, prog>>
        BY <1>2 DEF SCCDetect, graphVars
    <2>2. /\ \A c \in cycles' : c.rep \in pending'
          /\ \A n \in Reps : n \in pending' \/ \E c \in cycles' : n \in c.left
        BY <1>1, <1>2, WaveDetect
    <2>3. Reps' = Reps
        BY <2>1 DEF Reps
    <2>4. CyclesCollapsed'
        BY <2>1, <2>2, <2>3 DEF CyclesCollapsed, WillCollapse
    <2> QED BY <2>1, <2>2, <2>4 DEF CollapseInv
<1>3. ASSUME NEW c \in cycles, NEW n \in c.left, mergeNodeToRep(c, n) PROVE CollapseInv'
    BY <1>3, CollapseInvMerge
<1>4. ASSUME NEW n \in Fresh, processNode(n) PROVE CollapseInv'
    BY <1>4, CollapseInvProcess
<1>5. ASSUME NEW n \in Nodes, reprocessNode(n) PROVE CollapseInv'
    <2>1. UNCHANGED <<phase, prog, cycles>> /\ cycles = {} /\ phase = "rewave"
        BY <1>5 DEF reprocessNode, Settled
    <2> QED BY <2>1 DEF CollapseInv, MergePWC
<1>6. ASSUME \/ skipQuiet \/ endWave \/ endRewave \/ endPost
             \/ \E n \in Nodes : collapsePWCNode(n) \/ postProcessNode(n)
      PROVE  CollapseInv'
    BY <1>6, CollapseInvQuiet
<1>7. ASSUME NEW e \in newCopies, addCopyEdge(e) PROVE CollapseInv'
    <2>1. UNCHANGED <<phase, pending, prog, cycles>> /\ reanalyze' = TRUE
        BY <1>7 DEF addCopyEdge, insertCopy, waveVars
    <2> QED BY <2>1 DEF CollapseInv, MergePWC
<1>8. CASE Common("scc")
    BY <1>8, CollapseInvCommon
<1>9. CASE UNCHANGED vars
    BY <1>9 DEF CollapseInv, CyclesCollapsed, WillCollapse, ToCollapse, getPts, sccRepNode, Reps, MergePWC,
        Solving, vars, graphVars, ptsVars, waveVars, objectVars
<1>10. Ready \subseteq Nodes
    BY <1>1, ReadyNodes
<1> QED BY <1>2, <1>3, <1>4, <1>5, <1>6, <1>7, <1>8, <1>9, <1>10 DEF Next

-----------------------------------------------------------------------------
(* All that holds of one analysis.                                         *)

AnalysisInv == SolverInv /\ KeptInv /\ GepInv /\ PreciseInv /\ CallInv /\ CallsWithin /\ CollapseInv

(***************************************************************************)
(* Any program can be analysed, with any options.                          *)
(***************************************************************************)
LEMMA AnalysisStarts == IsProgram(prog) /\ StartSolver("scc") => AnalysisInv
<1> SUFFICES ASSUME IsProgram(prog), StartSolver("scc") PROVE AnalysisInv
    OBVIOUS
<1>1. SolverInv
    BY InitTypes, MergeInvInit, CopyInvInit, WaveInvInit, LinkInvInit, FixInvInit DEF Phases, SolverInv
<1>2. KeptInv /\ GepInv /\ PreciseInv
    BY KeptInvInit, GepsInit, WithinInit DEF GepInv
<1>3. DummiesAlone
    BY <1>1, DummyTypes, AloneInit DEF SolverInv, DummiesAlone
<1>4. SetsBelow /\ NothingLeft /\ Solving /\ CallsWithin
    BY DEF StartSolver, SetsBelow, NothingLeft, Solving, CallsWithin
<1>5. CollapseInv
    BY DEF StartSolver, CollapseInv, CyclesCollapsed
<1> QED BY <1>1, <1>2, <1>3, <1>4, <1>5 DEF AnalysisInv, CallInv

(***************************************************************************)
(* The invariants of one round are kept together: those of the solver, of  *)
(* the option that keeps fields, of the geps, of precision, of the calls   *)
(* and of the positive weight cycles.                                      *)
(***************************************************************************)
LEMMA AnalysisStep == AnalysisInv /\ [Next]_vars => AnalysisInv'
<1>1. SolverInv /\ [Next]_vars => SolverInv'
    BY StepTypes, MergeStep, CopyInvStep, WaveStep, LinkInvStep, FixStep DEF SolverInv
<1>2. SolverInv => TypeOK /\ MergeInv
    BY DEF SolverInv
<1> QED BY <1>1, <1>2, KeptStep, GepStep, PreciseStep, CallInvStep, CallsWithinStep, CollapseInvStep
       DEF AnalysisInv

(***************************************************************************)
(* One analysis: the invariants above.                                     *)
(***************************************************************************)
LEMMA AnalysisInvariant == Spec => []AnalysisInv
<1>1. Init => AnalysisInv
    BY ProgramsStart, AnalysisStarts DEF Init
<1> QED BY <1>1, AnalysisStep, PTL DEF Spec

-----------------------------------------------------------------------------
(* What is left of the solution once the fields of collapsed objects are   *)
(* removed: all of it, if none of them stands for another node.            *)

FinalInv ==
    /\ FieldsJoined
    /\ phase = "finalize" => GraphConstraintsHold /\ UnmergedHold /\ GepsHold

(***************************************************************************)
(* Every step keeps a redundant field with its object.                     *)
(***************************************************************************)
LEMMA JoinedStep ==
    TypeOK /\ MergeInv /\ FieldsJoined /\ FieldsStandAlone /\ [Next]_vars => FieldsJoined'
<1> SUFFICES ASSUME TypeOK, MergeInv, FieldsJoined, FieldsStandAlone, [Next]_vars PROVE FieldsJoined'
    OBVIOUS
<1>1. CASE SCCDetect
    BY <1>1, JoinedFrame DEF SCCDetect, MergeInv, DetectSettled, Settled, graphVars, objectVars
<1>2. ASSUME NEW c \in cycles, NEW n \in c.left, mergeNodeToRep(c, n) PROVE FieldsJoined'
    BY <1>2, JoinedMerge DEF mergeNodeToRep, MergeInv
<1>3. ASSUME \/ \E n \in Nodes : collapsePWCNode(n) \/ processNode(n) \/ reprocessNode(n)
                                    \/ postProcessNode(n)
             \/ skipQuiet \/ endWave \/ endRewave \/ endPost
             \/ \E e \in newCopies : addCopyEdge(e)
             \/ UNCHANGED vars
      PROVE  FieldsJoined'
    <2>1. UNCHANGED <<rep, redundantGepNodes, cycles>>
        BY <1>3 DEF collapsePWCNode, processNode, reprocessNode, postProcessNode, skipQuiet, endWave,
            endRewave, endPost, addCopyEdge, insertCopy, graphVars, objectVars, vars
    <2> QED BY <2>1, JoinedFrame
<1>4. CASE Common("scc")
    BY <1>4, JoinedCommon DEF MergeInv
<1> QED BY <1>1, <1>2, <1>3, <1>4, ReadyNodes DEF Next

(***************************************************************************)
(* The last iteration ends at a fixpoint, and removing a field that stands *)
(* alone changes no answer.                                                *)
(***************************************************************************)
LEMMA FinalStep == AnalysisInv /\ FinalInv /\ FieldsStandAlone /\ [Next]_vars => FinalInv'
<1> SUFFICES ASSUME AnalysisInv, FinalInv, FieldsStandAlone, [Next]_vars, phase' = "finalize"
             PROVE  FieldsJoined' /\ GraphConstraintsHold' /\ UnmergedHold' /\ GepsHold'
    BY JoinedStep DEF FinalInv, AnalysisInv, SolverInv
<1>1. /\ TypeOK /\ MergeInv /\ RedundantKnown /\ SetsBelow /\ FieldsJoined
      /\ phase = "finalize" => GraphConstraintsHold /\ UnmergedHold /\ GepsHold
    BY DEF AnalysisInv, SolverInv, LinkInv, CallInv, FinalInv
<1>2. FieldsJoined'
    BY <1>1, JoinedStep
<1>3. CASE Solving /\ Next
    <2>1. endIteration("scc")
        BY <1>3, LastIteration DEF Solving
    <2>2. /\ AtFixpoint
          /\ UNCHANGED <<rep, gepE, prog, pts, fieldInsensitive, indCalls, varGepPtd, pwcInvariants>>
        BY <2>1 DEF endIteration, AtFixpoint, graphVars, ptsVars, objectVars, invariantVars
    <2>3. GraphConstraintsHold /\ UnmergedHold
        BY <2>2, FixpointHolds DEF AnalysisInv, SolverInv
    <2>4. GepsHold
        <3>1. CollapseInv /\ GepInv /\ FieldsGone /\ RepMaps
            BY <1>3 DEF AnalysisInv, SolverInv, MergeInv, RepInv, FieldInv
        <3>2. \A n : ~WillCollapse(n)
            BY <2>2 DEF AtFixpoint, WillCollapse
        <3>3. MergePWC => \A n \in Reps \cap pwcNodes : ToCollapse(n) = {}
            BY <1>3, <2>2, <3>1, <3>2 DEF AtFixpoint, Settled, CollapseInv, CyclesCollapsed
        <3> QED BY <1>1, <1>3, <2>2, <2>3, <3>1, <3>3, TracedGepsHold DEF AtFixpoint, Settled
    <2> QED BY <1>1, <1>2, <2>2, <2>3, <2>4, SolutionFrame, GepsHoldFrame DEF Pointers
<1>4. ASSUME NEW n \in redundantGepNodes, removeGepNode(n)
      PROVE  GraphConstraintsHold' /\ UnmergedHold' /\ GepsHold'
    <2>1. phase = "finalize"
        BY <1>4 DEF removeGepNode
    <2> QED BY <1>1, <1>4, <2>1, RemovalFrame, GepsHoldRemoval DEF MergeInv
<1>5. CASE ~Solving /\ Next
    <2>1. (\E n \in redundantGepNodes : removeGepNode(n)) \/ finish \/ Terminated
        BY <1>1, <1>5, FinalSteps DEF MergeInv, DoneSettled, Settled
    <2> QED BY <1>2, <1>4, <2>1 DEF finish, Terminated, vars
<1>6. CASE UNCHANGED vars
    <2>1. /\ phase = "finalize"
          /\ UNCHANGED <<rep, gepE, prog, pts, fieldInsensitive, indCalls, varGepPtd, pwcInvariants>>
        BY <1>6 DEF vars, graphVars, ptsVars, objectVars, invariantVars
    <2> QED BY <1>1, <1>2, <2>1, SolutionFrame, GepsHoldFrame DEF Pointers
<1> QED BY <1>2, <1>3, <1>5, <1>6

(***************************************************************************)
(* At first no field is redundant.                                         *)
(***************************************************************************)
LEMMA FinalInvInit == ASSUME StartSolver("scc") PROVE FinalInv
BY DEF StartSolver, FinalInv, FieldsJoined

(***************************************************************************)
(* The program's constraints, in the words of the properties.              *)
(***************************************************************************)
LEMMA FinalSolution ==
    ASSUME FinalInv
    PROVE  /\ CallsConnected /\ UnmergedLoadStoresHold
           /\ GepsTraceable \/ (\A g \in prog.gep : Monitored(g) \/ InGraph(g)) => DirectConstraintsHold
BY DEF FinalInv, CallsConnected, GraphConstraintsHold, UnmergedLoadStoresHold, DirectConstraintsHold,
       GepsHold, Solved

(***************************************************************************)
(* Collapsing loses nothing but what the fields it makes redundant stand   *)
(* for: if that is nothing, no object collapsed being the simplest case.   *)
(***************************************************************************)
LEMMA FinalInvariant == Spec /\ []FieldsStandAlone => []FinalInv
<1>1. Init => FinalInv
    BY ProgramsStart, FinalInvInit DEF Init
<1> QED BY <1>1, AnalysisInvariant, FinalStep, PTL DEF Spec

(***************************************************************************)
(* Whatever objects were collapsed, every call is connected when the       *)
(* solver is done, unless finalisation removes a field that represents     *)
(* another node.                                                           *)
(***************************************************************************)
THEOREM SolvedCalls == Spec /\ []FieldsStandAlone => []CallsConnected
BY FinalInvariant, FinalSolution, PTL

(***************************************************************************)
(* The loads and stores through the pointers that were not merged hold     *)
(* likewise in the solution.                                               *)
(***************************************************************************)
THEOREM SolvedAccesses == Spec /\ []FieldsStandAlone => []UnmergedLoadStoresHold
BY FinalInvariant, FinalSolution, PTL

(***************************************************************************)
(* So do the addresses, copies and geps of a program in SSA form of which  *)
(* no gep was swallowed: one that a merge took out of the graph is in a    *)
(* recorded cycle, or in a node whose objects have all been collapsed.  In *)
(* any program they do if each gep is in the graph or recorded.            *)
(***************************************************************************)
THEOREM SolvedDirect ==
    Spec /\ []FieldsStandAlone
        => [](GepsTraceable \/ (\A g \in prog.gep : Monitored(g) \/ InGraph(g))
                  => DirectConstraintsHold)
BY FinalInvariant, FinalSolution, PTL

(***************************************************************************)
(* A step of the wave solver infers something or changes nothing, and the  *)
(* last one finds the copies satisfied; finalisation changes nothing while *)
(* fields stand alone.                                                     *)
(***************************************************************************)
LEMMA InclusionStep ==
    ASSUME AnalysisInv, [Next]_vars, AnalysisInv', Solving \/ (FinalInv /\ FieldsStandAlone)
    PROVE  [Inclusion!AbsNext]_Inclusion!absVars
<1>1. /\ TypeOK /\ TypeOK' /\ MergeInv /\ MergeInv' /\ SolverInv /\ PreciseInv /\ PreciseInv'
      /\ RedundantKnown /\ SetsBelow
    BY DEF AnalysisInv, SolverInv, LinkInv, CallInv
<1>2. ASSUME prog' = prog, Facts' = Facts,
             phase \in {"finalize", "done"} <=> phase' \in {"finalize", "done"}
      PROVE  UNCHANGED Inclusion!absVars
    <2>1. (phase \in {"finalize", "done"})' = (phase \in {"finalize", "done"})
        BY <1>2
    <2> QED BY <1>2, <2>1 DEF Inclusion!absVars
<1>3. ASSUME UNCHANGED <<prog, pts, rep>>,
             phase \in {"finalize", "done"} <=> phase' \in {"finalize", "done"}
      PROVE  UNCHANGED Inclusion!absVars
    <2>1. Facts' = Facts
        BY <1>3 DEF Facts, getPts, sccRepNode
    <2> QED BY <1>2, <1>3, <2>1
<1>4. CASE UNCHANGED vars
    BY <1>3, <1>4 DEF vars, graphVars, ptsVars
<1>5. CASE Next /\ Solving /\ Solving'
    <2>1. prog' = prog
        BY <1>5, ProgramStays
    <2>2. FactsStay
        BY <1>1, <1>5, MergeStep
    <2>3. Inclusion!Derive \/ UNCHANGED Inclusion!absVars
        BY <1>1, <1>5, <2>1, <2>2, FactsDerived
    <2> QED BY <2>3 DEF Inclusion!AbsNext
<1>6. CASE Next /\ Solving /\ ~Solving'
    <2>1. endIteration("scc")
        BY <1>6, LastIteration
    <2>2. AtFixpoint /\ UNCHANGED <<prog, pts, rep>>
        BY <1>6, <2>1 DEF endIteration, AtFixpoint, Solving, graphVars, ptsVars
    <2>3. GraphConstraintsHold
        BY <1>1, <2>2, FixpointHolds DEF SolverInv
    <2> QED BY <1>1, <1>6, <2>2, <2>3, FactsFinish DEF Inclusion!AbsNext
<1>7. CASE Next /\ ~Solving
    <2>1. (\E n \in redundantGepNodes : removeGepNode(n)) \/ finish \/ Terminated
        BY <1>1, <1>7, FinalSteps DEF MergeInv, DoneSettled, Settled
    <2>2. CASE finish \/ Terminated
        BY <1>3, <1>7, <2>2 DEF finish, Terminated, vars, graphVars, ptsVars, Solving
    <2>3. ASSUME NEW n \in redundantGepNodes, removeGepNode(n) PROVE UNCHANGED Inclusion!absVars
        <3>1. Facts' = Facts
            BY <1>1, <1>7, <2>3, RemovalFrame DEF MergeInv, FinalInv
        <3>2. UNCHANGED <<prog, phase>>
            BY <2>3 DEF removeGepNode
        <3> QED BY <1>2, <3>1, <3>2
    <2> QED BY <2>1, <2>2, <2>3
<1> QED BY <1>4, <1>5, <1>6, <1>7

(***************************************************************************)
(* The wave solver implements the inclusion constraints: it starts from    *)
(* the facts the addresses give, each step while solving derives facts of  *)
(* the least solution or none, the last one finds the program's copies     *)
(* satisfied, and finalisation changes nothing, unless it removes a field  *)
(* that represents another node.                                           *)
(***************************************************************************)
THEOREM WaveImplementsInclusion ==
    Spec => /\ Inclusion!AbsInit
            /\ [][Solving => Inclusion!AbsNext]_Inclusion!absVars
            /\ []FieldsStandAlone => [][Inclusion!AbsNext]_Inclusion!absVars
<1>1. Init => Inclusion!AbsInit
    BY ProgramsStart, FactsInit DEF Init
<1>2. AnalysisInv /\ [Next]_vars /\ AnalysisInv' => [Solving => Inclusion!AbsNext]_Inclusion!absVars
    BY InclusionStep
<1>3. AnalysisInv /\ FinalInv /\ FieldsStandAlone /\ [Next]_vars /\ AnalysisInv'
          => [Inclusion!AbsNext]_Inclusion!absVars
    BY InclusionStep
<1> QED BY <1>1, <1>2, <1>3, AnalysisInvariant, FinalInvariant, PTL DEF Spec

-----------------------------------------------------------------------------
(* Field-sensitive precision.  A solution of the program with fields is a  *)
(* points-to set L[n] for every node, the objects F that it takes as one   *)
(* with their fields, and the nodes P that it orders by the constraints    *)
(* between them, so that what a cycle merges has one set.  The round that  *)
(* keeps all fields finds nothing outside of any of them.                  *)

Flow(L, P, m, n) == <<m, n>> \in P /\ L[m] \subseteq L[n]
Tied(L, P, m, n) == Flow(L, P, m, n) /\ Flow(L, P, n, m)

\* Nodes before each other have the same objects.
FlowOrder(L, P) ==
    /\ L \in [Nodes -> PTS]
    /\ \A n \in Nodes : <<n, n>> \in P
    /\ \A m, n, k \in Nodes : <<m, n>> \in P /\ <<n, k>> \in P => <<m, k>> \in P
    /\ \A m, n \in Nodes : <<m, n>> \in P /\ <<n, m>> \in P => L[m] = L[n]

\* A gep gives the fields of what it gets, or the object that has none.
GepFlows(L, F, P, g) ==
    /\ MergePWC => <<g.src, g.dst>> \in P
    /\ L[g.src] \cap OpaqueObjs \subseteq L[g.dst]
    /\ \A o \in L[g.src] \ OpaqueObjs :
           /\ g.kind = "normal" => GepObjNode(o, g.off, F) \in L[g.dst]
           /\ g.kind = "variant" => Base[o] \in L[g.dst] \cap F

LoadFlows(L, P, e) == \A o \in L[e[1]] \ PointerlessObjs : Flow(L, P, o, e[2])
StoreFlows(L, P, e) == \A o \in L[e[2]] \ PointerlessObjs : Flow(L, P, e[1], o)

FieldClosed(L, F, P) ==
    /\ FlowOrder(L, P)
    /\ \A o \in ObjNodes : Base[o] \in F => Tied(L, P, o, Base[o])
    /\ \A e \in prog.addr : e[1] \in L[e[2]]
    /\ \A e \in prog.copy : Flow(L, P, e[1], e[2])
    /\ \A g \in prog.gep : GepFlows(L, F, P, g)
    /\ \A e \in prog.load : LoadFlows(L, P, e)
    /\ \A e \in prog.store : StoreFlows(L, P, e)
    /\ \A c \in prog.calls : c.argsMatch /\ c.fun \in L[c.fptr] =>
           /\ \A e \in c.params : Flow(L, P, e[1], e[2])
           /\ \A h \in c.heap : h[2] \in L[h[1]]

PtsCovered(L, F) == \A n \in Nodes : Covers(L[n], pts[n], F)
RepsTied(L, P) ==
    /\ \A n \in Nodes : Tied(L, P, n, rep[n])
    /\ \A c \in cycles : \A m \in c.left : Tied(L, P, m, c.rep)
CopiesFlow(L, P) == \A e \in copyE \cup newCopies : Flow(L, P, e[1], e[2])
GepsFlow(L, F, P) == \A g \in gepE : GepFlows(L, F, P, g)
AccessesFlow(L, P) ==
    /\ \A e \in loadE : LoadFlows(L, P, e)
    /\ \A e \in storeE : StoreFlows(L, P, e)
CallsCovered(L) == \A c \in indCalls : c.fun \in L[c.fptr]

FieldWithin(L, F, P) ==
    /\ PtsCovered(L, F) /\ RepsTied(L, P) /\ CopiesFlow(L, P) /\ GepsFlow(L, F, P)
    /\ AccessesFlow(L, P) /\ CallsCovered(L)

OptimisticInv == KeepsFields => \A L, F, P : FieldClosed(L, F, P) => FieldWithin(L, F, P)

(***************************************************************************)
(* What flows on flows further.                                            *)
(***************************************************************************)
LEMMA FlowOn ==
    ASSUME NEW L, NEW P, FlowOrder(L, P)
    PROVE  /\ \A n \in Nodes : Flow(L, P, n, n)
           /\ \A m, n, k \in Nodes : Flow(L, P, m, n) /\ Flow(L, P, n, k) => Flow(L, P, m, k)
BY DEF FlowOrder, Flow

(***************************************************************************)
(* Nodes that are tied to the ends of a flow have one between them.        *)
(***************************************************************************)
LEMMA FlowMoves ==
    ASSUME NEW L, NEW P, FlowOrder(L, P), NEW m \in Nodes, NEW n \in Nodes, Flow(L, P, m, n),
           NEW x \in Nodes, NEW y \in Nodes, Tied(L, P, m, x), Tied(L, P, n, y)
    PROVE  Flow(L, P, x, y)
<1>1. Flow(L, P, x, m) /\ Flow(L, P, n, y)
    BY DEF Tied
<1>2. Flow(L, P, x, n)
    BY <1>1, FlowOn
<1> QED BY <1>1, <1>2, FlowOn

(***************************************************************************)
(* Tied nodes have the same objects; being tied is an equivalence.         *)
(***************************************************************************)
LEMMA TiedNodes ==
    ASSUME NEW L, NEW P, FlowOrder(L, P)
    PROVE  /\ \A m, n \in Nodes : Tied(L, P, m, n) => L[m] = L[n] /\ Tied(L, P, n, m)
           /\ \A n \in Nodes : Tied(L, P, n, n)
           /\ \A m, n, k \in Nodes : Tied(L, P, m, n) /\ Tied(L, P, n, k) => Tied(L, P, m, k)
<1>1. \A m, n \in Nodes : Tied(L, P, m, n) => L[m] = L[n] /\ Tied(L, P, n, m)
    BY DEF FlowOrder, Tied, Flow
<1> QED BY <1>1, FlowOn DEF Tied

(***************************************************************************)
(* The nodes of a component come before each other.                        *)
(***************************************************************************)
LEMMA ComponentsTied ==
    ASSUME TypeOK, NEW L, NEW F, NEW P, FlowOrder(L, P), CopiesFlow(L, P), GepsFlow(L, F, P),
           NEW c \in Components(DirectEdges(MergePWC)), NEW m \in c, NEW n \in c
    PROVE  Tied(L, P, m, n)
<1> DEFINE edges == DirectEdges(MergePWC)
           reach == [x \in Reps |-> ReachableFrom(x, edges)]
<1>1. edges \in SUBSET Edges
    <2>1. copyE \subseteq Edges /\ \A g \in gepE : <<g.src, g.dst>> \in Edges
        BY DEF TypeOK, GepEdges, Edges
    <2> QED BY <2>1 DEF DirectEdges
<1>2. \A e \in edges : e \in P
    <2>1. ASSUME NEW e \in copyE PROVE e \in P
        <3>1. <<e[1], e[2]>> \in P /\ e = <<e[1], e[2]>>
            BY DEF CopiesFlow, Flow, TypeOK, Edges
        <3> QED BY <3>1
    <2>2. \A g \in gepE : MergePWC => <<g.src, g.dst>> \in P
        BY DEF GepsFlow, GepFlows
    <2> QED BY <2>1, <2>2 DEF DirectEdges
<1>3. PICK x \in Reps : c = {y \in Reps : reach[y] = reach[x]}
    BY DEF Components
<1>4. m \in Reps /\ n \in Reps /\ ReachableFrom(m, edges) = ReachableFrom(n, edges)
    BY <1>3
<1>5. m \in Nodes /\ n \in Nodes
    BY <1>4 DEF Reps
<1> HIDE DEF edges
<1>6. m \in ReachableFrom(n, edges) /\ n \in ReachableFrom(m, edges)
    BY <1>1, <1>4, <1>5, Reach
<1>7. ASSUME NEW a \in Nodes PROVE \A b \in ReachableFrom(a, edges) : <<a, b>> \in P
    <2> DEFINE bound == {b \in Nodes : <<a, b>> \in P}
    <2>1. a \in bound
        BY DEF FlowOrder
    <2>2. ASSUME NEW e \in edges, e[1] \in bound PROVE e[2] \in bound
        <3>1. e[1] \in Nodes /\ e[2] \in Nodes /\ e = <<e[1], e[2]>>
            BY <1>1 DEF Edges
        <3>2. <<a, e[1]>> \in P /\ <<e[1], e[2]>> \in P
            BY <1>2, <2>2, <3>1
        <3> QED BY <3>1, <3>2 DEF FlowOrder
    <2> HIDE DEF bound
    <2>3. ReachableFrom(a, edges) \subseteq bound
        BY <1>1, <2>1, <2>2, Reach
    <2> QED BY <2>3 DEF bound
<1>8. <<m, n>> \in P /\ <<n, m>> \in P
    BY <1>5, <1>6, <1>7
<1> QED BY <1>5, <1>8 DEF FlowOrder, Tied, Flow

(***************************************************************************)
(* What a solution covers of one node it covers of what a gep makes of it. *)
(***************************************************************************)
LEMMA GepCovered ==
    ASSUME NEW L, NEW F, NEW P, NEW g \in GepEdges, GepFlows(L, F, P, g), InvariantVGEP,
           NEW objs \in SUBSET ObjNodes, Covers(L[g.src], objs, F)
    PROVE  Covers(L[g.dst], GepTargets(g, objs, {}), F)
<1>1. /\ \A o \in L[g.src] \cap OpaqueObjs : o \in L[g.dst]
      /\ g.kind = "normal" =>
             \A o \in L[g.src] \ OpaqueObjs : GepObjNode(o, g.off, F) \in L[g.dst]
      /\ g.kind = "variant" => \A o \in L[g.src] \ OpaqueObjs : Base[o] \in L[g.dst] \cap F
    BY DEF GepFlows
<1>2. /\ g.off \in Offsets /\ 0 \in Offsets /\ (g.kind = "normal" \/ g.kind = "variant")
      /\ \A o \in ObjNodes : Base[o] \in ObjNodes /\ Base[Base[o]] = Base[o] /\ FieldOf[o][0] = o
      /\ \A o \in ObjNodes : Base[FieldOf[o][g.off]] = Base[o]
    BY GraphAssumption DEF GepEdges
<1>3. ASSUME NEW o \in objs, Base[o] \in L[g.src] \cap F
      PROVE  Base[o] \in L[g.dst] \cap F
    <2>1. GepObjNode(Base[o], g.off, F) = Base[o] /\ Base[Base[o]] = Base[o]
        BY <1>2, <1>3 DEF GepObjNode
    <2> QED BY <1>1, <1>2, <1>3, <2>1
<1>4. ASSUME NEW o \in objs \ OpaqueObjs, g.kind = "normal"
      PROVE  LET t == GepObjNode(o, g.off, {}) IN t \in L[g.dst] \/ Base[t] \in L[g.dst] \cap F
    <2>1. GepObjNode(o, g.off, {}) = FieldOf[o][g.off] /\ Base[FieldOf[o][g.off]] = Base[o]
        BY <1>2 DEF GepObjNode
    <2>2. CASE Base[o] \in L[g.src] \cap F
        BY <1>3, <2>1, <2>2
    <2>3. CASE o \in L[g.src] /\ Base[o] \notin F
        <3>1. GepObjNode(o, g.off, F) = FieldOf[o][g.off]
            BY <2>3 DEF GepObjNode
        <3> QED BY <1>1, <1>4, <2>1, <2>3, <3>1
    <2>4. CASE o \in L[g.src] /\ Base[o] \in F
        <3>1. GepObjNode(o, g.off, F) = Base[o]
            BY <2>4 DEF GepObjNode
        <3> QED BY <1>1, <1>4, <2>1, <2>4, <3>1
    <2> QED BY <2>2, <2>3, <2>4 DEF Covers
<1>5. ASSUME NEW o \in objs \ OpaqueObjs, g.kind = "variant"
      PROVE  Base[o] \in L[g.dst] \cap F
    BY <1>1, <1>3, <1>5 DEF Covers
<1> SUFFICES ASSUME NEW t \in GepTargets(g, objs, {})
             PROVE  t \in L[g.dst] \/ Base[t] \in L[g.dst] \cap F
    BY DEF Covers
<1>6. CASE t \in objs \cap OpaqueObjs
    BY <1>1, <1>3, <1>6 DEF Covers
<1>7. CASE g.kind = "normal" /\ t \notin objs \cap OpaqueObjs
    <2>1. PICK o \in objs \ OpaqueObjs : t = GepObjNode(o, g.off, {})
        BY <1>7 DEF GepTargets
    <2> QED BY <1>4, <1>7, <2>1
<1>8. CASE g.kind = "variant" /\ t \notin objs \cap OpaqueObjs
    <2>1. t \in VariantTargets(objs \ OpaqueObjs, {})
        BY <1>8 DEF GepTargets
    <2>2. PICK o \in objs \ OpaqueObjs : t = Base[o] \/ t = GepObjNode(o, 0, {})
        BY <2>1 DEF VariantTargets
    <2>3. Base[t] = Base[o]
        BY <1>2, <2>2 DEF GepObjNode
    <2> QED BY <1>5, <1>8, <2>3
<1> QED BY <1>2, <1>6, <1>7, <1>8

(***************************************************************************)
(* Steps that neither derive a fact nor add an edge.                       *)
(***************************************************************************)
LEMMA FieldFrame ==
    ASSUME NEW L, NEW F, NEW P, FieldWithin(L, F, P), UNCHANGED <<graphVars, pts, prog, indCalls>>,
           newCopies' \subseteq newCopies, cycles' \subseteq cycles
    PROVE  FieldWithin(L, F, P)'
<1>1. /\ PtsCovered(L, F)' /\ GepsFlow(L, F, P)' /\ CallsCovered(L)'
      /\ RepsTied(L, P)' /\ CopiesFlow(L, P)'
    BY DEF FieldWithin, PtsCovered, GepsFlow, GepFlows, MergePWC, CallsCovered, RepsTied, CopiesFlow, graphVars
<1>2. AccessesFlow(L, P)'
    BY DEF FieldWithin, AccessesFlow, LoadFlows, StoreFlows, graphVars
<1> QED BY <1>1, <1>2 DEF FieldWithin

(***************************************************************************)
(* A search starts to merge nodes that every solution ties.                *)
(***************************************************************************)
LEMMA FieldFound ==
    ASSUME TypeOK, NEW L, NEW F, NEW P, FlowOrder(L, P), FieldWithin(L, F, P),
           UNCHANGED <<graphVars, pts, prog, indCalls, newCopies>>,
           NEW found, found \subseteq BigComponents, NEW root, \A c \in found : root[c] \in c,
           cycles' = {[rep |-> root[c], left |-> c \ {root[c]}, members |-> c,
                       geps |-> {}, scc |-> TRUE] : c \in found}
    PROVE  FieldWithin(L, F, P)'
<1>1. ASSUME NEW d \in cycles', NEW m \in d.left PROVE Tied(L, P, m, d.rep)
    <2>1. PICK c \in found : d = [rep |-> root[c], left |-> c \ {root[c]}, members |-> c,
                                  geps |-> {}, scc |-> TRUE]
        OBVIOUS
    <2>2. d.rep = root[c] /\ d.left = c \ {root[c]}
        BY <2>1
    <2>3. m \in c /\ d.rep \in c /\ c \in Components(DirectEdges(MergePWC))
        BY <2>2 DEF BigComponents
    <2> QED BY <2>3, ComponentsTied DEF FieldWithin
<1>2. /\ PtsCovered(L, F)' /\ GepsFlow(L, F, P)' /\ CallsCovered(L)' /\ CopiesFlow(L, P)'
    BY DEF FieldWithin, PtsCovered, GepsFlow, GepFlows, MergePWC, CallsCovered, CopiesFlow, graphVars
<1>3. AccessesFlow(L, P)'
    BY DEF FieldWithin, AccessesFlow, LoadFlows, StoreFlows, graphVars
<1>4. RepsTied(L, P)'
    BY <1>1 DEF FieldWithin, RepsTied, graphVars
<1> QED BY <1>2, <1>3, <1>4 DEF FieldWithin

(***************************************************************************)
(* Merging tied nodes derives nothing new.                                 *)
(***************************************************************************)
LEMMA FieldMerge ==
    ASSUME TypeOK, RepInv, DoneSettled, NEW L, NEW F, NEW P, FlowOrder(L, P), FieldWithin(L, F, P),
           NEW c \in cycles, NEW node \in c.left, mergeNode(c, node)
    PROVE  FieldWithin(L, F, P)'
<1> DEFINE r == c.rep
<1>1. /\ Tied(L, P, node, r) /\ node \in Nodes /\ r \in Nodes /\ L[node] = L[r]
      /\ newCopies' = {} /\ newCopies = {} /\ UNCHANGED <<prog, indCalls>>
    <2>1. Tied(L, P, node, r) /\ node \in Nodes /\ r \in Nodes
        BY DEF FieldWithin, RepsTied, TypeOK, Cycles
    <2> QED BY <2>1, TiedNodes DEF RepInv, DoneSettled, Settled, EdgesApart, mergeNode
<1>2. \A x \in Nodes : /\ Retarget(x, node, r) \in Nodes /\ Tied(L, P, x, Retarget(x, node, r))
                       /\ L[Retarget(x, node, r)] = L[x]
    BY <1>1, TiedNodes DEF Retarget
<1>3. ASSUME NEW x \in Nodes, NEW y \in Nodes, Flow(L, P, x, y)
      PROVE  Flow(L, P, Retarget(x, node, r), Retarget(y, node, r))
    <2> DEFINE x1 == Retarget(x, node, r)
               y1 == Retarget(y, node, r)
    <2>1. x1 \in Nodes /\ y1 \in Nodes /\ Tied(L, P, x, x1) /\ Tied(L, P, y, y1)
        BY <1>2
    <2> HIDE DEF x1, y1
    <2>2. Flow(L, P, x1, y1)
        BY <1>3, <2>1, FlowMoves
    <2> QED BY <2>2 DEF x1, y1
<1>4. PtsCovered(L, F)'
    <2> SUFFICES ASSUME NEW n \in Nodes PROVE Covers(L[n], pts'[n], F)
        BY DEF PtsCovered
    <2>1. pts' = [pts EXCEPT ![r] = @ \cup pts[node]]
        BY DEF mergeNode, unionPts
    <2>2. Covers(L[n], pts[n], F) /\ Covers(L[r], pts[node], F)
        BY <1>1 DEF FieldWithin, PtsCovered
    <2>3. pts'[n] = pts[n] \/ (n = r /\ pts'[n] = pts[n] \cup pts[node])
        BY <1>1, <2>1 DEF TypeOK
    <2> QED BY <2>2, <2>3 DEF Covers
<1>5. RepsTied(L, P)'
    <2>1. ASSUME NEW n \in Nodes PROVE Tied(L, P, n, rep'[n])
        <3>1. rep'[n] = Retarget(rep[n], node, r)
            BY RepInvMerge DEF Retarget
        <3>2. Tied(L, P, n, rep[n]) /\ rep[n] \in Nodes
            BY DEF FieldWithin, RepsTied, TypeOK
        <3>3. Tied(L, P, rep[n], rep'[n]) /\ rep'[n] \in Nodes
            BY <1>2, <3>1, <3>2
        <3> QED BY <3>2, <3>3, TiedNodes
    <2>2. ASSUME NEW d \in cycles', NEW m \in d.left PROVE Tied(L, P, m, d.rep)
        <3> DEFINE smaller == [c EXCEPT !.left = @ \ {node}, !.geps = @ \cup CriticalGeps(node, r)]
        <3>1. cycles' = (cycles \ {c}) \cup {smaller}
            BY DEF mergeNode
        <3>2. smaller.rep = r /\ smaller.left = c.left \ {node}
            BY DEF TypeOK, Cycles
        <3> HIDE DEF smaller
        <3>3. (m \in c.left /\ d.rep = r) \/ d \in cycles
            BY <2>2, <3>1, <3>2
        <3> QED BY <2>2, <3>3 DEF FieldWithin, RepsTied
    <2> QED BY <2>1, <2>2 DEF RepsTied
<1>6. CopiesFlow(L, P)'
    <2> SUFFICES ASSUME NEW f \in copyE' PROVE Flow(L, P, f[1], f[2])
        BY <1>1 DEF CopiesFlow
    <2>1. PICK e \in copyE : f = RetargetEdge(e, node, r)
        BY DEF mergeNode, moveEdgesToRepNode, MovedCopies
    <2>2. Flow(L, P, e[1], e[2]) /\ e[1] \in Nodes /\ e[2] \in Nodes
        BY DEF FieldWithin, CopiesFlow, TypeOK, Edges
    <2> QED BY <1>3, <2>1, <2>2 DEF RetargetEdge
<1>7. GepsFlow(L, F, P)'
    <2> SUFFICES ASSUME NEW g \in gepE' PROVE GepFlows(L, F, P, g)'
        BY DEF GepsFlow
    <2>1. CASE g \in gepE
        BY <1>1, <2>1 DEF FieldWithin, GepsFlow, GepFlows, MergePWC
    <2>2. CASE g \notin gepE
        <3>1. PICK h \in gepE : g = RetargetGep(h, node, r)
            BY <2>2 DEF mergeNode, moveEdgesToRepNode, MovedGeps
        <3>2. /\ g.src = Retarget(h.src, node, r) /\ g.dst = Retarget(h.dst, node, r)
              /\ g.kind = h.kind /\ g.off = h.off /\ h.src \in Nodes /\ h.dst \in Nodes
            BY <3>1 DEF RetargetGep, TypeOK, GepEdges
        <3>3. GepFlows(L, F, P, h)
            BY DEF FieldWithin, GepsFlow
        <3>4. L[g.src] = L[h.src] /\ L[g.dst] = L[h.dst]
            BY <1>2, <3>2
        <3>5. <<h.src, h.dst>> \in P => <<g.src, g.dst>> \in P
            <4>1. <<g.src, h.src>> \in P /\ <<h.dst, g.dst>> \in P /\ g.src \in Nodes /\ g.dst \in Nodes
                BY <1>2, <3>2 DEF Tied, Flow
            <4>2. <<h.src, h.dst>> \in P => <<g.src, h.dst>> \in P
                BY <3>2, <4>1 DEF FlowOrder
            <4> QED BY <3>2, <4>1, <4>2 DEF FlowOrder
        <3> QED BY <1>1, <3>2, <3>3, <3>4, <3>5 DEF GepFlows, MergePWC
    <2> QED BY <2>1, <2>2
<1>8. \A o \in ObjNodes : o \in Nodes
    BY GraphAssumption
<1>9. ASSUME NEW f \in loadE' PROVE LoadFlows(L, P, f)
    <2>1. PICK e \in loadE : f = RetargetEdge(e, node, r)
        BY DEF mergeNode, moveEdgesToRepNode
    <2>2. /\ f[1] = Retarget(e[1], node, r) /\ f[2] = Retarget(e[2], node, r)
          /\ e[1] \in Nodes /\ e[2] \in Nodes
        BY <2>1 DEF RetargetEdge, TypeOK, Edges
    <2>3. LoadFlows(L, P, e) /\ L[f[1]] = L[e[1]] /\ Flow(L, P, e[2], f[2]) /\ f[2] \in Nodes
        BY <1>2, <2>2 DEF FieldWithin, AccessesFlow, Tied
    <2>4. L[e[1]] \subseteq Nodes
        BY <1>8, <2>2 DEF FlowOrder, PTS
    <2> QED BY <2>2, <2>3, <2>4, FlowOn DEF LoadFlows
<1>10. ASSUME NEW f \in storeE' PROVE StoreFlows(L, P, f)
    <2>1. PICK e \in storeE : f = RetargetEdge(e, node, r)
        BY DEF mergeNode, moveEdgesToRepNode
    <2>2. /\ f[1] = Retarget(e[1], node, r) /\ f[2] = Retarget(e[2], node, r)
          /\ e[1] \in Nodes /\ e[2] \in Nodes
        BY <2>1 DEF RetargetEdge, TypeOK, Edges
    <2>3. StoreFlows(L, P, e) /\ L[f[2]] = L[e[2]] /\ Flow(L, P, f[1], e[1]) /\ f[1] \in Nodes
        <3>1. Flow(L, P, f[1], e[1])
            BY <1>2, <2>2 DEF Tied
        <3> QED BY <1>2, <2>2, <3>1 DEF FieldWithin, AccessesFlow
    <2>4. L[e[2]] \subseteq Nodes
        BY <1>8, <2>2 DEF FlowOrder, PTS
    <2> QED BY <2>2, <2>3, <2>4, FlowOn DEF StoreFlows
<1>11. AccessesFlow(L, P)' /\ CallsCovered(L)'
    BY <1>1, <1>9, <1>10 DEF AccessesFlow, FieldWithin, CallsCovered
<1> QED BY <1>4, <1>5, <1>6, <1>7, <1>11 DEF FieldWithin

(***************************************************************************)
(* Sending a difference along copy and gep edges stays within.             *)
(***************************************************************************)
LEMMA FieldPropagate ==
    ASSUME TypeOK, KeptInv, KeepsFields, NEW L, NEW F, NEW P, FieldWithin(L, F, P),
           NEW n \in Nodes, NEW queue, handleCopyGep(n, queue),
           UNCHANGED <<graphVars, prog, indCalls, newCopies, cycles>>
    PROVE  FieldWithin(L, F, P)'
<1>1. PICK insensitive \in {fieldInsensitive, fieldInsensitive \cup NewlyInsensitive(n)} :
          \A d \in Nodes : pts'[d] = pts[d] \cup Gained(n, insensitive, d)
    BY DEF handleCopyGep
<1>2. insensitive = {} /\ InvariantVGEP
    BY KeptNeedsNone DEF KeptInv, KeepsFields
<1>3. diffPts(n) \in SUBSET ObjNodes /\ Covers(L[n], diffPts(n), F)
    BY DEF diffPts, TypeOK, PTS, FieldWithin, PtsCovered, Covers
<1>4. ASSUME NEW d \in Nodes, NEW o \in Gained(n, {}, d)
      PROVE  o \in L[d] \/ Base[o] \in L[d] \cap F
    <2>1. CASE <<n, d>> \in copyE /\ o \in diffPts(n)
        <3>1. L[n] \subseteq L[d]
            BY <2>1 DEF FieldWithin, CopiesFlow, Flow
        <3> QED BY <1>3, <2>1, <3>1 DEF Covers
    <2>2. CASE \E g \in GepsFrom(n) : g.dst = d /\ o \in GepTargets(g, diffPts(n), {})
        <3>1. PICK g \in gepE : g.src = n /\ g.dst = d /\ o \in GepTargets(g, diffPts(n), {})
            BY <2>2 DEF GepsFrom
        <3>2. g \in GepEdges /\ GepFlows(L, F, P, g)
            BY DEF TypeOK, FieldWithin, GepsFlow
        <3>3. Covers(L[g.dst], GepTargets(g, diffPts(n), {}), F)
            BY <1>2, <1>3, <3>1, <3>2, GepCovered
        <3> QED BY <3>1, <3>3 DEF Covers
    <2> QED BY <2>1, <2>2 DEF Gained
<1>5. PtsCovered(L, F)'
    <2> SUFFICES ASSUME NEW d \in Nodes PROVE Covers(L[d], pts'[d], F)
        BY DEF PtsCovered
    <2>1. pts'[d] = pts[d] \cup Gained(n, {}, d)
        BY <1>1, <1>2
    <2>2. Covers(L[d], pts[d], F)
        BY DEF FieldWithin, PtsCovered
    <2> QED BY <1>4, <2>1, <2>2 DEF Covers
<1>6. /\ GepsFlow(L, F, P)' /\ CallsCovered(L)' /\ RepsTied(L, P)' /\ CopiesFlow(L, P)'
    BY DEF FieldWithin, GepsFlow, GepFlows, MergePWC, CallsCovered, RepsTied, CopiesFlow, graphVars
<1>7. AccessesFlow(L, P)'
    BY DEF FieldWithin, AccessesFlow, LoadFlows, StoreFlows, graphVars
<1> QED BY <1>5, <1>6, <1>7 DEF FieldWithin

(***************************************************************************)
(* New copy edges join the representatives of nodes one of which flows to  *)
(* the other.                                                              *)
(***************************************************************************)
LEMMA FieldNewEdges ==
    ASSUME TypeOK, NEW L, NEW P, FlowOrder(L, P), RepsTied(L, P), NEW pairs \in SUBSET Edges,
           \A x \in pairs : Flow(L, P, x[1], x[2])
    PROVE  \A e \in NewEdges(pairs) : Flow(L, P, e[1], e[2])
<1> SUFFICES ASSUME NEW x \in pairs PROVE Flow(L, P, rep[x[1]], rep[x[2]])
    BY DEF NewEdges
<1>1. x[1] \in Nodes /\ x[2] \in Nodes /\ rep[x[1]] \in Nodes /\ rep[x[2]] \in Nodes
    BY DEF Edges, TypeOK
<1>2. Tied(L, P, x[1], rep[x[1]]) /\ Tied(L, P, x[2], rep[x[2]])
    BY <1>1 DEF RepsTied
<1> QED BY <1>1, <1>2, FlowMoves

(***************************************************************************)
(* What a pointer may point to, it accesses in the solution too, as the    *)
(* object itself or as the one it is tied to.                              *)
(***************************************************************************)
LEMMA FieldAccess ==
    ASSUME TypeOK, NEW L, NEW F, NEW P, FieldClosed(L, F, P), NEW n \in Nodes,
           NEW o \in ObjNodes \ PointerlessObjs, o \in L[n] \/ Base[o] \in L[n] \cap F
    PROVE  \E a \in L[n] \ PointerlessObjs : a \in Nodes /\ Tied(L, P, o, a)
<1>1. o \in Nodes /\ Base[o] \in Nodes /\ Base[o] \notin PointerlessObjs
    BY GraphAssumption
<1>2. CASE o \in L[n]
    BY <1>1, <1>2, TiedNodes DEF FieldClosed
<1>3. CASE Base[o] \in L[n] \cap F
    BY <1>1, <1>3 DEF FieldClosed
<1> QED BY <1>2, <1>3

(***************************************************************************)
(* The copies that loads and stores ask for are within a solution.         *)
(***************************************************************************)
LEMMA FieldAsk ==
    ASSUME TypeOK, NEW L, NEW F, NEW P, FieldClosed(L, F, P), FieldWithin(L, F, P), NEW n \in Nodes,
           UNCHANGED <<graphVars, pts, prog, indCalls, cycles>>,
           newCopies' = NewEdges(LoadCopies(n) \cup StoreCopies(n))
    PROVE  FieldWithin(L, F, P)'
<1>1. /\ FlowOrder(L, P) /\ RepsTied(L, P)
      /\ \A o \in pts[n] : o \in ObjNodes /\ o \in Nodes /\ (o \in L[n] \/ Base[o] \in L[n] \cap F)
    BY GraphAssumption DEF FieldClosed, FieldWithin, TypeOK, PTS, PtsCovered, Covers
<1>2. LoadCopies(n) \cup StoreCopies(n) \in SUBSET Edges
    BY GraphAssumption DEF TypeOK, PTS, LoadCopies, StoreCopies, Edges
<1>3. ASSUME NEW x \in LoadCopies(n) PROVE Flow(L, P, x[1], x[2])
    <2>1. PICK o \in pts[n] \ PointerlessObjs, e \in loadE : e[1] = n /\ x = <<o, e[2]>>
        BY DEF LoadCopies
    <2>2. PICK a \in L[n] \ PointerlessObjs : a \in Nodes /\ Tied(L, P, o, a)
        BY <1>1, FieldAccess
    <2>3. Flow(L, P, a, e[2]) /\ e[2] \in Nodes
        BY <2>1 DEF FieldWithin, AccessesFlow, LoadFlows, TypeOK, Edges
    <2> QED BY <1>1, <2>1, <2>2, <2>3, FlowOn DEF Tied
<1>4. ASSUME NEW x \in StoreCopies(n) PROVE Flow(L, P, x[1], x[2])
    <2>1. PICK o \in pts[n] \ PointerlessObjs, e \in storeE : e[2] = n /\ x = <<e[1], o>>
        BY DEF StoreCopies
    <2>2. PICK a \in L[n] \ PointerlessObjs : a \in Nodes /\ Tied(L, P, o, a)
        BY <1>1, FieldAccess
    <2>3. Flow(L, P, e[1], a) /\ e[1] \in Nodes
        BY <2>1 DEF FieldWithin, AccessesFlow, StoreFlows, TypeOK, Edges
    <2> QED BY <1>1, <2>1, <2>2, <2>3, FlowOn DEF Tied
<1>5. \A e \in newCopies' : Flow(L, P, e[1], e[2])
    BY <1>1, <1>2, <1>3, <1>4, FieldNewEdges
<1>6. CopiesFlow(L, P)'
    BY <1>5 DEF FieldWithin, CopiesFlow, graphVars
<1>7. /\ PtsCovered(L, F)' /\ GepsFlow(L, F, P)' /\ CallsCovered(L)' /\ RepsTied(L, P)'
    BY DEF FieldWithin, PtsCovered, GepsFlow, GepFlows, MergePWC, CallsCovered, RepsTied, graphVars
<1>8. AccessesFlow(L, P)'
    BY DEF FieldWithin, AccessesFlow, LoadFlows, StoreFlows, graphVars
<1> QED BY <1>6, <1>7, <1>8 DEF FieldWithin

(***************************************************************************)
(* Inserting a copy edge that is within a solution keeps all within.       *)
(***************************************************************************)
LEMMA FieldAddEdge ==
    ASSUME NEW L, NEW F, NEW P, FieldWithin(L, F, P), NEW e \in newCopies, insertCopy(e)
    PROVE  FieldWithin(L, F, P)'
<1>1. /\ copyE' \cup newCopies' \subseteq copyE \cup newCopies
      /\ UNCHANGED <<gepE, loadE, storeE, rep, pts, cycles, prog, indCalls>>
    BY DEF insertCopy
<1>2. CopiesFlow(L, P)'
    BY <1>1 DEF FieldWithin, CopiesFlow
<1>3. /\ PtsCovered(L, F)' /\ GepsFlow(L, F, P)' /\ CallsCovered(L)' /\ RepsTied(L, P)'
    BY <1>1 DEF FieldWithin, PtsCovered, GepsFlow, GepFlows, MergePWC, CallsCovered, RepsTied
<1>4. AccessesFlow(L, P)'
    BY <1>1 DEF FieldWithin, AccessesFlow, LoadFlows, StoreFlows
<1> QED BY <1>2, <1>3, <1>4 DEF FieldWithin

(***************************************************************************)
(* A call that is resolved is one every solution makes.                    *)
(***************************************************************************)
LEMMA FieldCall ==
    ASSUME TypeOK, NEW L, NEW F, NEW P, FieldClosed(L, F, P), FieldWithin(L, F, P),
           NEW c \in prog.calls, resolveIndCall(c)
    PROVE  FieldWithin(L, F, P)'
<1>1. /\ c.fun \in pts[rep[c.fptr]] /\ UNCHANGED <<graphVars, cycles, prog>> /\ newCopies = {}
      /\ indCalls' = indCalls \cup {c}
    BY DEF resolveIndCall, Resolvable, getPts, sccRepNode, Settled
<1>2. /\ c.fptr \in Nodes /\ c.fun \in ObjNodes /\ rep[c.fptr] \in Nodes
      /\ c.params \in SUBSET Edges /\ \A h \in c.heap : h[1] \in Nodes /\ h[2] \in ObjNodes
    BY ProgramTypes DEF TypeOK
<1>3. FlowOrder(L, P) /\ RepsTied(L, P) /\ Base[c.fun] = c.fun
    BY WholeNodes DEF FieldClosed, FieldWithin, TypeOK
<1>4. c.fun \in L[c.fptr]
    <2>1. c.fun \in L[rep[c.fptr]]
        BY <1>1, <1>2, <1>3 DEF FieldWithin, PtsCovered, Covers
    <2>2. L[c.fptr] = L[rep[c.fptr]]
        BY <1>2, <1>3, TiedNodes DEF RepsTied
    <2> QED BY <2>1, <2>2
<1>5. c.argsMatch => \A e \in newCopies' : Flow(L, P, e[1], e[2])
    <2>1. c.argsMatch => \A e \in c.params : Flow(L, P, e[1], e[2])
        BY <1>4 DEF FieldClosed
    <2> QED BY <1>2, <1>3, <2>1, FieldNewEdges DEF resolveIndCall
<1>6. CopiesFlow(L, P)'
    BY <1>1, <1>5 DEF FieldWithin, CopiesFlow, graphVars, resolveIndCall
<1>7. PtsCovered(L, F)'
    <2> SUFFICES ASSUME NEW n \in Nodes, NEW o \in pts'[n]
                 PROVE  o \in L[n] \/ Base[o] \in L[n] \cap F
        BY DEF PtsCovered, Covers
    <2>1. CASE o \in pts[n]
        BY <2>1 DEF FieldWithin, PtsCovered, Covers
    <2>2. CASE o \notin pts[n]
        <3>1. c.argsMatch /\ <<n, o>> \in c.heap
            BY <2>2 DEF resolveIndCall
        <3> QED BY <1>4, <3>1 DEF FieldClosed
    <2> QED BY <2>1, <2>2
<1>8. GepsFlow(L, F, P)' /\ RepsTied(L, P)' /\ CallsCovered(L)'
    BY <1>1, <1>4 DEF FieldWithin, GepsFlow, GepFlows, MergePWC, CallsCovered, RepsTied, graphVars
<1>9. AccessesFlow(L, P)'
    BY <1>1 DEF FieldWithin, AccessesFlow, LoadFlows, StoreFlows, graphVars
<1> QED BY <1>6, <1>7, <1>8, <1>9 DEF FieldWithin

(***************************************************************************)
(* The graph of the program is within every solution.                      *)
(***************************************************************************)
LEMMA FieldInit == IsProgram(prog) /\ StartSolver("scc") => OptimisticInv
<1> SUFFICES ASSUME IsProgram(prog), StartSolver("scc"), NEW L, NEW F, NEW P,
                    FieldClosed(L, F, P)
             PROVE  FieldWithin(L, F, P)
    BY DEF OptimisticInv
<1>1. PtsCovered(L, F)
    <2> SUFFICES ASSUME NEW n \in Nodes, NEW o \in ObjNodes, <<o, n>> \in prog.addr PROVE o \in L[n]
        BY DEF StartSolver, PtsCovered, Covers
    <2> QED BY DEF FieldClosed
<1>2. RepsTied(L, P)
    BY TiedNodes DEF StartSolver, RepsTied, FieldClosed
<1>3. CopiesFlow(L, P) /\ GepsFlow(L, F, P) /\ AccessesFlow(L, P) /\ CallsCovered(L)
    BY DEF StartSolver, CopiesFlow, GepsFlow, AccessesFlow, CallsCovered, FieldClosed
<1> QED BY <1>1, <1>2, <1>3 DEF FieldWithin

(***************************************************************************)
(* What a solution is depends on the program only.                         *)
(***************************************************************************)
LEMMA FieldClosedFrame ==
    ASSUME NEW L, NEW F, NEW P, FieldClosed(L, F, P)',
           prog'.addr = prog.addr, prog'.copy = prog.copy, prog'.load = prog.load,
           prog'.store = prog.store, prog'.gep = prog.gep, prog'.calls = prog.calls,
           prog'.mergePWC = prog.mergePWC
    PROVE  FieldClosed(L, F, P)
BY DEF FieldClosed, GepFlows, LoadFlows, StoreFlows, MergePWC

(***************************************************************************)
(* No step of a round that keeps the fields derives a fact that some       *)
(* solution with fields does not have.                                     *)
(***************************************************************************)
LEMMA OptimisticStep ==
    TypeOK /\ MergeInv /\ KeptInv /\ OptimisticInv /\ [Next]_vars => OptimisticInv'
<1> SUFFICES ASSUME TypeOK, MergeInv, KeptInv, OptimisticInv, [Next]_vars, KeepsFields',
                    NEW L, NEW F, NEW P, FieldClosed(L, F, P)'
             PROVE  FieldWithin(L, F, P)'
    BY DEF OptimisticInv
<1>1. prog' = prog
    BY ProgramStays
<1>2. FieldClosed(L, F, P)
    BY <1>1, FieldClosedFrame
<1>3. /\ KeepsFields /\ FieldWithin(L, F, P) /\ FlowOrder(L, P) /\ toCollapse = {}
      /\ RepInv /\ DoneSettled
    BY <1>1, <1>2 DEF KeepsFields, InvariantVGEP, InvariantPWC, MergePWC, OptimisticInv, FieldClosed, KeptInv,
        MergeInv
<1>4. CASE SCCDetect
    <2>1. UNCHANGED <<graphVars, pts, prog, indCalls, newCopies>>
        BY <1>4 DEF SCCDetect, ptsVars
    <2>2. PICK big \in {BigComponents} :
              \E root \in {f \in [big -> Reps] : \A c \in big : f[c] \in c} :
                  cycles' = {[rep |-> root[c], left |-> c \ {root[c]}, members |-> c,
                              geps |-> {}, scc |-> TRUE] : c \in big}
        BY <1>4 DEF SCCDetect
    <2>3. PICK root \in {f \in [big -> Reps] : \A c \in big : f[c] \in c} :
              cycles' = {[rep |-> root[c], left |-> c \ {root[c]}, members |-> c,
                          geps |-> {}, scc |-> TRUE] : c \in big}
        BY <2>2
    <2> QED BY <1>3, <2>1, <2>2, <2>3, FieldFound
<1>5. ASSUME NEW c \in cycles, NEW n \in c.left, mergeNodeToRep(c, n) PROVE FieldWithin(L, F, P)'
    BY <1>3, <1>5, FieldMerge DEF mergeNodeToRep
<1>6. ASSUME NEW n \in Nodes, processNode(n) \/ reprocessNode(n) PROVE FieldWithin(L, F, P)'
    <2>1. /\ UNCHANGED <<graphVars, prog, indCalls, newCopies, cycles>>
          /\ \E queue : handleCopyGep(n, queue)
        BY <1>6 DEF processNode, reprocessNode
    <2> QED BY <1>3, <2>1, FieldPropagate
<1>7. ASSUME NEW n \in Nodes, postProcessNode(n) PROVE FieldWithin(L, F, P)'
    <2>1. /\ UNCHANGED <<graphVars, pts, prog, indCalls, cycles>>
          /\ newCopies' = NewEdges(LoadCopies(n) \cup StoreCopies(n))
        BY <1>7 DEF postProcessNode, ptsVars
    <2> QED BY <1>2, <1>3, <2>1, FieldAsk
<1>8. ASSUME NEW e \in newCopies, addCopyEdge(e) PROVE FieldWithin(L, F, P)'
    BY <1>3, <1>8, FieldAddEdge DEF addCopyEdge
<1>9. ASSUME \/ \E n \in Ready : collapsePWCNode(n)
             \/ \E c \in cycles : finishScc(c) \/ finishCollapse(c)
             \/ skipQuiet \/ endWave \/ endRewave \/ endPost \/ UNCHANGED vars
             \/ endIteration("scc") \/ finish \/ Terminated
      PROVE  FieldWithin(L, F, P)'
    <2>1. UNCHANGED <<graphVars, pts, prog, indCalls, newCopies>> /\ cycles' \subseteq cycles
        BY <1>9 DEF collapsePWCNode, finishScc, finishCollapse, skipQuiet, endWave, endRewave, endPost, vars,
            ptsVars, endIteration, finish, Terminated
    <2> QED BY <1>3, <2>1, FieldFrame
<1>10. ASSUME NEW c \in prog.calls, resolveIndCall(c) PROVE FieldWithin(L, F, P)'
    BY <1>2, <1>3, <1>10, FieldCall
<1>11. ASSUME NEW n \in redundantGepNodes, removeGepNode(n) PROVE FieldWithin(L, F, P)'
    <2>1. /\ UNCHANGED <<copyE, gepE, loadE, storeE, pts, cycles, newCopies, prog, indCalls>>
          /\ \A m \in Nodes : rep'[m] \in {m, rep[m]}
        BY <1>11 DEF removeGepNode, cleanConsCG, ptsVars
    <2>2. RepsTied(L, P)'
        <3>1. \A m \in Nodes : Tied(L, P, m, m) /\ Tied(L, P, m, rep[m])
            BY <1>3, TiedNodes DEF FieldWithin, RepsTied
        <3>2. \A m \in Nodes : Tied(L, P, m, rep'[m])
            BY <2>1, <3>1
        <3> QED BY <1>3, <2>1, <3>2 DEF FieldWithin, RepsTied
    <2>3. /\ PtsCovered(L, F)' /\ GepsFlow(L, F, P)' /\ CallsCovered(L)' /\ CopiesFlow(L, P)'
        BY <1>3, <2>1 DEF FieldWithin, PtsCovered, GepsFlow, GepFlows, MergePWC, CallsCovered, CopiesFlow
    <2>4. AccessesFlow(L, P)'
        BY <1>3, <2>1 DEF FieldWithin, AccessesFlow, LoadFlows, StoreFlows
    <2> QED BY <2>2, <2>3, <2>4 DEF FieldWithin
<1>12. ~(\E b \in toCollapse : collapseField(b))
    BY <1>3
<1> QED BY <1>4, <1>5, <1>6, <1>7, <1>8, <1>9, <1>10, <1>11, <1>12, ReadyNodes DEF Next, Common

-----------------------------------------------------------------------------
(* The round without invariants ends with a solution with fields.          *)

Acyclic(edges) ==
    \A m, n \in Nodes :
        n \in ReachableFrom(m, edges) /\ m \in ReachableFrom(n, edges) => m = n

EdgesSorted == \A e \in DirectEdges(MergePWC) : e[1] = e[2] \/ e \in topo

VariantsCollapse ==
    \A h \in gepE : h.kind = "variant" =>
        \A o \in propa[h.src] \ OpaqueObjs : Base[o] \in fieldInsensitive

HeapsKept == \A c \in indCalls : c.argsMatch => \A h \in c.heap : h[2] \in getPts(h[1])

OrderInv ==
    /\ Acyclic(topo)
    /\ phase \in {"rewave", "post", "callgraph"} /\ ~reanalyze => EdgesSorted

FallbackInv ==
    /\ OrderInv
    /\ ~InvariantVGEP => VariantsCollapse
    /\ ~InvariantPWC => pwcInvariants = {}
    /\ Solving => HeapsKept
    /\ IsFiniteSet(indCalls)

(***************************************************************************)
(* What is reached from a reached node is reached.                         *)
(***************************************************************************)
LEMMA ReachOn ==
    ASSUME NEW edges \in SUBSET Edges, NEW n \in Nodes, NEW m \in ReachableFrom(n, edges)
    PROVE  ReachableFrom(m, edges) \subseteq ReachableFrom(n, edges)
<1> DEFINE bound == ReachableFrom(n, edges)
<1>1. m \in Nodes /\ m \in bound /\ \A e \in edges : e[1] \in bound => e[2] \in bound
    BY Reach
<1> HIDE DEF bound
<1>2. ReachableFrom(m, edges) \subseteq bound
    BY <1>1, Reach
<1> QED BY <1>2 DEF bound

(***************************************************************************)
(* One edge reaches.                                                       *)
(***************************************************************************)
LEMMA EdgeReaches ==
    ASSUME NEW edges \in SUBSET Edges, NEW m \in Nodes, NEW n, m = n \/ <<m, n>> \in edges
    PROVE  n \in ReachableFrom(m, edges)
<1> DEFINE reach == ReachableFrom(m, edges)
<1>1. m \in reach /\ \A e \in edges : e[1] \in reach => e[2] \in reach
    BY Reach
<1> HIDE DEF reach
<1>2. n \in reach
    BY <1>1
<1> QED BY <1>2 DEF reach

(***************************************************************************)
(* The edges that detection looks at join nodes.                           *)
(***************************************************************************)
LEMMA DirectTypes == TypeOK => DirectEdges(MergePWC) \in SUBSET Edges
<1>1. TypeOK => copyE \subseteq Edges /\ \A g \in gepE : <<g.src, g.dst>> \in Edges
    BY DEF TypeOK, GepEdges, Edges
<1> QED BY <1>1 DEF DirectEdges

(***************************************************************************)
(* A component holds the representatives that reach each other.            *)
(***************************************************************************)
LEMMA ComponentMembers ==
    ASSUME NEW edges \in SUBSET Edges
    PROVE  /\ \A c \in Components(edges) : \A m, n \in c :
                  m \in Reps /\ n \in Reps /\ n \in ReachableFrom(m, edges)
           /\ \A m, n \in Reps :
                  n \in ReachableFrom(m, edges) /\ m \in ReachableFrom(n, edges)
                      => \E c \in Components(edges) : m \in c /\ n \in c
<1> DEFINE reach == [x \in Reps |-> ReachableFrom(x, edges)]
<1>1. ASSUME NEW c \in Components(edges), NEW m \in c, NEW n \in c
      PROVE  m \in Reps /\ n \in Reps /\ n \in ReachableFrom(m, edges)
    <2>1. PICK x \in Reps : c = {y \in Reps : reach[y] = reach[x]}
        BY DEF Components
    <2>2. m \in Reps /\ n \in Reps /\ ReachableFrom(m, edges) = ReachableFrom(n, edges)
        BY <2>1
    <2>3. n \in Nodes
        BY <2>2 DEF Reps
    <2> QED BY <2>2, <2>3, Reach
<1>2. ASSUME NEW m \in Reps, NEW n \in Reps,
             n \in ReachableFrom(m, edges), m \in ReachableFrom(n, edges)
      PROVE  \E c \in Components(edges) : m \in c /\ n \in c
    <2>1. m \in Nodes /\ n \in Nodes
        BY DEF Reps
    <2>2. ReachableFrom(m, edges) = ReachableFrom(n, edges)
        BY <1>2, <2>1, ReachOn
    <2> DEFINE c == {y \in Reps : reach[y] = reach[m]}
    <2>3. c \in Components(edges)
        BY DEF Components
    <2>4. m \in c /\ n \in c
        BY <2>2
    <2> QED BY <2>3, <2>4
<1> QED BY <1>1, <1>2

(***************************************************************************)
(* Detection sorts the components, so that no two nodes come before each   *)
(* other.                                                                  *)
(***************************************************************************)
LEMMA DetectOrders ==
    ASSUME TypeOK, MergeInv, SCCDetect
    PROVE  Acyclic(topo')
<1> DEFINE direct == DirectEdges(MergePWC)
<1>1. direct \in SUBSET Edges /\ \A e \in direct : e[1] \in Reps /\ e[2] \in Reps
    <2>1. phase = "scc" /\ Solving
        BY DEF SCCDetect, Solving
    <2>2. DirectEdges(TRUE) \subseteq Reps \X Reps
        BY <2>1 DEF MergeInv, RepInv, EdgesAtReps
    <2> QED BY <2>2, DirectTypes DEF DirectEdges
<1>2. PICK big \in {BigComponents} :
           \E root \in {f \in [big -> Reps] : \A c \in big : f[c] \in c} :
               LET top(n) == IF \E c \in big : n \in c
                             THEN root[CHOOSE c \in big : n \in c] ELSE n
               IN  topo' = {<<top(e[1]), top(e[2])>> : e \in direct}
    BY DEF SCCDetect
<1>3. PICK root \in {f \in [big -> Reps] : \A c \in big : f[c] \in c} :
          LET top(n) == IF \E c \in big : n \in c
                        THEN root[CHOOSE c \in big : n \in c] ELSE n
          IN  topo' = {<<top(e[1]), top(e[2])>> : e \in direct}
    BY <1>2
<1> DEFINE top(n) == IF \E c \in big : n \in c
                     THEN root[CHOOSE c \in big : n \in c] ELSE n
<1>4. big = {c \in Components(direct) : Cardinality(c) > 1}
    BY DEF BigComponents
<1>5. \A c, d \in big : c # d => c \cap d = {}
    BY <1>4, ComponentsApart
<1>6. /\ \A c \in big : root[c] \in c /\ \A n \in c : top(n) = root[c]
      /\ \A n : (\A c \in big : n \notin c) => top(n) = n
    BY <1>5
<1> HIDE DEF top, direct
<1>7. PICK sorted : sorted = topo' /\ sorted = {<<top(e[1]), top(e[2])>> : e \in direct}
    BY <1>3 DEF top
<1>8. ASSUME NEW n \in Reps
      PROVE  /\ top(n) \in Reps /\ top(top(n)) = top(n) /\ n \in Nodes /\ top(n) \in Nodes
             /\ n \in ReachableFrom(top(n), direct) /\ top(n) \in ReachableFrom(n, direct)
    <2>1. CASE \E c \in big : n \in c
        <3>1. PICK c \in big : n \in c
            BY <2>1
        <3>2. top(n) = root[c] /\ root[c] \in c /\ top(root[c]) = root[c]
            BY <1>6, <3>1
        <3> QED BY <1>1, <1>4, <3>1, <3>2, ComponentMembers DEF Reps
    <2>2. CASE \A c \in big : n \notin c
        <3>1. top(n) = n /\ n \in Nodes
            BY <1>6, <2>2 DEF Reps
        <3> QED BY <1>1, <3>1, Reach
    <2> QED BY <2>1, <2>2
<1>9. sorted \in SUBSET Edges /\ \A e \in sorted : e[2] \in Reps /\ top(e[2]) = e[2]
    BY <1>1, <1>7, <1>8 DEF Edges
<1>10. ASSUME NEW m \in Nodes
       PROVE  /\ ReachableFrom(m, sorted) \subseteq ReachableFrom(m, direct)
              /\ \A n \in ReachableFrom(m, sorted) : n = m \/ (n \in Reps /\ top(n) = n)
    <2> DEFINE bound == {n \in ReachableFrom(m, direct) : n = m \/ (n \in Reps /\ top(n) = n)}
    <2>1. m \in bound
        BY <1>1, Reach
    <2>2. ASSUME NEW e \in sorted, e[1] \in bound PROVE e[2] \in bound
        <3>1. PICK f \in direct : e = <<top(f[1]), top(f[2])>>
            BY <1>7
        <3>2. /\ f[1] \in Nodes /\ f[2] \in Nodes /\ top(f[1]) = e[1] /\ top(f[2]) = e[2]
              /\ f[1] \in ReachableFrom(e[1], direct) /\ e[2] \in ReachableFrom(f[2], direct)
            BY <1>1, <1>8, <3>1
        <3>3. f[1] \in ReachableFrom(m, direct)
            BY <1>1, <2>2, <3>2, ReachOn
        <3>4. f[2] \in ReachableFrom(m, direct)
            BY <1>1, <3>3, Reach
        <3>5. e[2] \in ReachableFrom(m, direct)
            BY <1>1, <3>2, <3>4, ReachOn
        <3> QED BY <1>9, <3>5
    <2> HIDE DEF bound
    <2>3. ReachableFrom(m, sorted) \subseteq bound
        BY <1>9, <2>1, <2>2, Reach
    <2> QED BY <2>3 DEF bound
<1>11. ASSUME NEW m \in Nodes, NEW n \in Nodes,
              n \in ReachableFrom(m, sorted), m \in ReachableFrom(n, sorted), m # n
       PROVE  FALSE
    <2>1. /\ m \in Reps /\ n \in Reps /\ top(m) = m /\ top(n) = n
          /\ n \in ReachableFrom(m, direct) /\ m \in ReachableFrom(n, direct)
        BY <1>10, <1>11
    <2>2. PICK c \in Components(direct) : m \in c /\ n \in c
        BY <1>1, <2>1, ComponentMembers
    <2>3. Cardinality(c) > 1
        <3>1. IsFiniteSet(c)
            <4>1. c \subseteq Nodes
                BY <1>1, <2>2, ComponentMembers DEF Reps
            <4> QED BY <4>1, FS_Subset, GraphAssumption
        <3>2. IsFiniteSet({m}) /\ Cardinality({m}) = 1
            BY FS_Singleton
        <3> DEFINE pair == {m} \cup {n}
        <3>3. n \notin {m}
            BY <1>11
        <3>4. Cardinality(pair) = Cardinality({m}) + 1
            BY <3>2, <3>3, FS_AddElement
        <3>5. pair \subseteq c
            BY <2>2
        <3> HIDE DEF pair
        <3>6. Cardinality(pair) <= Cardinality(c)
            BY <3>1, <3>5, FS_Subset
        <3>7. Cardinality(pair) = 2 /\ Cardinality(c) \in Nat
            BY <3>1, <3>2, <3>4, FS_CardinalityType
        <3> QED BY <3>6, <3>7
    <2>4. c \in big
        BY <1>4, <2>3
    <2> QED BY <1>6, <1>11, <2>1, <2>2, <2>4
<1>12. Acyclic(sorted)
    BY <1>11 DEF Acyclic
<1> QED BY <1>7, <1>12

(***************************************************************************)
(* Once the wave is over the edges stay sorted, or the solver will start   *)
(* over.                                                                   *)
(***************************************************************************)
LEMMA OrderStep == TypeOK /\ MergeInv /\ WaveInv /\ OrderInv /\ [Next]_vars => OrderInv'
<1> SUFFICES ASSUME TypeOK, MergeInv, WaveInv, OrderInv, [Next]_vars PROVE OrderInv'
    OBVIOUS
<1> DEFINE After == {"rewave", "post", "callgraph"}
<1>1. Acyclic(topo) /\ (phase \in After /\ ~reanalyze => EdgesSorted)
    BY DEF OrderInv
<1>2. CASE SCCDetect
    <2>1. Acyclic(topo') /\ phase' = "wave"
        BY <1>2, DetectOrders DEF SCCDetect
    <2> QED BY <2>1 DEF OrderInv
<1>3. ASSUME NEW c \in cycles, NEW n \in c.left, mergeNodeToRep(c, n) PROVE OrderInv'
    <2>1. UNCHANGED <<topo, phase, reanalyze>>
        BY <1>3 DEF mergeNodeToRep, mergeNode, waveVars
    <2>2. ~(phase \in After /\ ~reanalyze)
        BY <1>3 DEF WaveInv, MergesPending, Solving
    <2> QED BY <1>1, <2>1, <2>2 DEF OrderInv
<1>4. CASE endWave
    <2>1. UNCHANGED <<topo, reanalyze, copyE, gepE, prog>> /\ cycles = {} /\ phase = "wave"
        BY <1>4 DEF endWave, waveVars, graphVars, Settled
    <2>2. ASSUME ~reanalyze, NEW e \in DirectEdges(MergePWC) PROVE e[1] = e[2] \/ e \in topo
        <3>1. \A a, b \in Nodes : StandsFor(e[1], a) /\ StandsFor(e[2], b) => a = b \/ <<a, b>> \in topo
            BY <2>1, <2>2 DEF WaveInv, OrderKept
        <3>2. e[1] \in Nodes /\ e[2] \in Nodes /\ e = <<e[1], e[2]>>
            BY DEF DirectEdges, TypeOK, GepEdges, Edges
        <3>3. StandsFor(e[1], e[1]) /\ StandsFor(e[2], e[2])
            BY <2>1, StandsForItself
        <3> QED BY <3>1, <3>2, <3>3
    <2>3. ~reanalyze => EdgesSorted'
        BY <2>1, <2>2 DEF EdgesSorted, DirectEdges, MergePWC
    <2> QED BY <1>1, <2>1, <2>3 DEF OrderInv
<1>5. ASSUME \/ \E n \in Nodes : reprocessNode(n) \/ postProcessNode(n)
             \/ skipQuiet \/ endRewave \/ endPost \/ UNCHANGED vars
             \/ \E c \in cycles : finishScc(c) \/ finishCollapse(c)
             \/ \E b \in toCollapse : collapseField(b)
      PROVE  OrderInv'
    <2>1. UNCHANGED <<copyE, gepE, prog, topo>>
        BY <1>5 DEF reprocessNode, postProcessNode, skipQuiet, endRewave, endPost, vars, finishScc,
            finishCollapse, collapseField, waveVars, graphVars
    <2>2. reanalyze => reanalyze'
        BY <1>5 DEF reprocessNode, postProcessNode, skipQuiet, endRewave, endPost, vars, finishScc,
            finishCollapse, collapseField
    <2>3. phase' = phase \/ phase \in After
        BY <1>5 DEF reprocessNode, postProcessNode, skipQuiet, endRewave, endPost, vars, finishScc,
            finishCollapse, collapseField
    <2>4. EdgesSorted => EdgesSorted'
        BY <2>1 DEF EdgesSorted, DirectEdges, MergePWC
    <2> QED BY <1>1, <2>1, <2>2, <2>3, <2>4 DEF OrderInv
<1>6. ASSUME \/ \E n \in Ready : collapsePWCNode(n)
             \/ \E n \in Fresh : processNode(n)
             \/ \E e \in newCopies : addCopyEdge(e)
             \/ \E c \in prog.calls : resolveIndCall(c)
             \/ endIteration("scc")
             \/ \E n \in redundantGepNodes : removeGepNode(n)
             \/ finish \/ Terminated
      PROVE  OrderInv'
    <2>1. topo' = topo
        BY <1>6 DEF collapsePWCNode, processNode, addCopyEdge, insertCopy, resolveIndCall, endIteration,
            removeGepNode, finish, Terminated, waveVars, vars
    <2>2. phase' \notin After \/ reanalyze' = TRUE
        <3>1. (\E e \in newCopies : addCopyEdge(e)) \/ (\E c \in prog.calls : resolveIndCall(c))
                  => reanalyze' = TRUE
            BY DEF addCopyEdge, resolveIndCall
        <3>2. (\E n \in Ready : collapsePWCNode(n)) \/ (\E n \in Fresh : processNode(n)) => phase' = "wave"
            BY DEF collapsePWCNode, processNode
        <3>3. endIteration("scc") => phase' \in {"scc", "finalize"}
            BY DEF endIteration
        <3>4. (\E n \in redundantGepNodes : removeGepNode(n)) \/ finish \/ Terminated
                  => phase' \in {"finalize", "done"}
            BY DEF removeGepNode, finish, Terminated, vars
        <3> QED BY <1>6, <3>1, <3>2, <3>3, <3>4
    <2> QED BY <1>1, <2>1, <2>2 DEF OrderInv
<1> QED BY <1>2, <1>3, <1>4, <1>5, <1>6 DEF Next, Common

(***************************************************************************)
(* Steps that neither move a variable gep nor have one sent more.          *)
(***************************************************************************)
LEMMA VariantsFrame ==
    ASSUME VariantsCollapse, fieldInsensitive \subseteq fieldInsensitive', gepE' = gepE,
           \A n \in Nodes : propa'[n] \subseteq propa[n], TypeOK
    PROVE  VariantsCollapse'
BY DEF VariantsCollapse, TypeOK, GepEdges

(***************************************************************************)
(* The objects a variable gep has been sent have been collapsed.           *)
(***************************************************************************)
LEMMA VariantsStep ==
    ASSUME TypeOK, MergeInv, ~InvariantVGEP, VariantsCollapse, [Next]_vars
    PROVE  VariantsCollapse'
<1>1. ASSUME NEW c \in cycles, NEW node \in c.left, mergeNodeToRep(c, node) PROVE VariantsCollapse'
    <2> DEFINE r == c.rep
    <2>1. /\ propa' = updatePropaPts(r, node) /\ gepE' = MovedGeps(node, r)
          /\ fieldInsensitive' = fieldInsensitive /\ r \in Nodes /\ node \in Nodes
        BY <1>1 DEF mergeNodeToRep, mergeNode, MergedPropa, moveEdgesToRepNode, objectVars, TypeOK, Cycles
    <2>2. \A n \in Nodes : propa'[n] \subseteq propa[n] /\ (n = r => propa'[n] \subseteq propa[node])
        BY <2>1 DEF updatePropaPts, TypeOK
    <2>3. ASSUME NEW h \in gepE' PROVE \E g \in gepE : g.kind = h.kind /\ propa'[h.src] \subseteq propa[g.src]
        <3>1. CASE h \in gepE
            <4>1. h.src \in Nodes
                BY <3>1 DEF TypeOK, GepEdges
            <4> QED BY <2>2, <3>1, <4>1
        <3>2. CASE h \notin gepE
            <4>1. PICK g \in gepE : h = RetargetGep(g, node, r)
                BY <2>1, <2>3, <3>2 DEF MovedGeps
            <4>2. g.src \in Nodes /\ h.kind = g.kind /\ h.src = Retarget(g.src, node, r)
                BY <4>1 DEF RetargetGep, TypeOK, GepEdges
            <4> QED BY <2>1, <2>2, <4>2 DEF Retarget
        <3> QED BY <3>1, <3>2
    <2> QED BY <2>1, <2>3 DEF VariantsCollapse
<1>2. ASSUME NEW n \in Nodes, processNode(n) \/ reprocessNode(n) PROVE VariantsCollapse'
    <2>1. gepE' = gepE /\ \E queue : handleCopyGep(n, queue)
        BY <1>2 DEF processNode, reprocessNode, graphVars
    <2>2. propa' = [propa EXCEPT ![n] = pts[n]] /\ fieldInsensitive' = fieldInsensitive \cup NewlyInsensitive(n)
        BY <2>1 DEF handleCopyGep
    <2>3. ASSUME NEW h \in gepE, h.kind = "variant", NEW o \in propa'[h.src] \ OpaqueObjs
          PROVE  Base[o] \in fieldInsensitive'
        <3>1. h.src \in Nodes
            BY DEF TypeOK, GepEdges
        <3>2. CASE o \in propa[h.src]
            BY <2>2, <2>3, <3>2 DEF VariantsCollapse
        <3>3. CASE o \notin propa[h.src]
            <4>1. h.src = n /\ o \in diffPts(n) /\ h \in GepsFrom(n)
                BY <2>2, <2>3, <3>1, <3>3 DEF diffPts, GepsFrom, TypeOK
            <4> QED BY <2>2, <2>3, <4>1 DEF NewlyInsensitive
        <3> QED BY <3>2, <3>3
    <2> QED BY <2>1, <2>3 DEF VariantsCollapse
<1>3. ASSUME NEW e \in newCopies, addCopyEdge(e) PROVE VariantsCollapse'
    <2>1. /\ propa' = updatePropaPts(e[1], e[2]) /\ gepE' = gepE
          /\ fieldInsensitive' = fieldInsensitive
        BY <1>3 DEF addCopyEdge, insertCopy, objectVars
    <2>2. \A n \in Nodes : propa'[n] \subseteq propa[n]
        BY <2>1 DEF updatePropaPts, TypeOK
    <2> QED BY <2>1, <2>2, VariantsFrame
<1>4. ASSUME \/ SCCDetect
             \/ \E n \in Ready : collapsePWCNode(n)
             \/ \E n \in Nodes : postProcessNode(n)
             \/ skipQuiet \/ endWave \/ endRewave \/ endPost \/ UNCHANGED vars
             \/ Common("scc")
      PROVE  VariantsCollapse'
    <2>1. UNCHANGED <<gepE, propa>> /\ fieldInsensitive \subseteq fieldInsensitive'
        BY <1>4 DEF SCCDetect, collapsePWCNode, postProcessNode, skipQuiet, endWave, endRewave, endPost, vars,
            Common, finishScc, finishCollapse, collapseField, resolveIndCall, endIteration, removeGepNode,
            finish, Terminated, ptsVars, objectVars, graphVars
    <2> QED BY <2>1, VariantsFrame
<1> QED BY <1>1, <1>2, <1>3, <1>4, ReadyNodes DEF Next

(***************************************************************************)
(* Only resolving a call adds to the calls.                                *)
(***************************************************************************)
LEMMA CallsGrow ==
    ASSUME [Next]_vars
    PROVE  indCalls' = indCalls \/ \E c \in prog.calls : resolveIndCall(c)
BY DEF Next, Common, SCCDetect, mergeNodeToRep, mergeNode, collapsePWCNode, processNode, reprocessNode,
       postProcessNode, skipQuiet, endWave, endRewave, endPost, addCopyEdge, insertCopy, finishScc,
       finishCollapse, collapseField, endIteration, removeGepNode, finish, Terminated, vars

(***************************************************************************)
(* Only a cycle that has been merged is recorded for the monitor.          *)
(***************************************************************************)
LEMMA CyclesRecorded ==
    ASSUME [Next]_vars
    PROVE  pwcInvariants' = pwcInvariants \/ \E c \in cycles : finishScc(c)
BY DEF Next, Common, SCCDetect, mergeNodeToRep, mergeNode, collapsePWCNode, processNode, reprocessNode,
       postProcessNode, skipQuiet, endWave, endRewave, endPost, addCopyEdge, insertCopy, resolveIndCall,
       finishCollapse, collapseField, endIteration, removeGepNode, finish, Terminated, vars, invariantVars

(***************************************************************************)
(* The object of an allocator called keeps its dummy pointer.              *)
(***************************************************************************)
LEMMA HeapsStep ==
    ASSUME TypeOK, MergeInv, DummiesAlone, Solving => HeapsKept, [Next]_vars, Solving'
    PROVE  HeapsKept'
<1>1. Solving
    <2> SUFFICES ASSUME ~Solving PROVE FALSE
        OBVIOUS
    <2>1. \/ \E n \in redundantGepNodes : removeGepNode(n)
          \/ finish \/ Terminated \/ UNCHANGED vars
        BY FinalSteps DEF MergeInv, DoneSettled, Settled
    <2> QED BY <2>1 DEF removeGepNode, finish, Terminated, vars, Solving
<1>2. FactsStay /\ prog' = prog
    BY <1>1, MergeStep, ProgramStays
<1>3. ASSUME NEW c \in prog.calls, NEW h \in c.heap, h[2] \in pts[rep[h[1]]]
      PROVE  h[2] \in pts'[rep'[h[1]]]
    <2>1. h[1] \in Nodes /\ Base[h[2]] = h[2]
        BY DummyTypes
    <2> QED BY <1>2, <1>3, <2>1 DEF FactsStay, HasAfter, Covers
<1>4. ASSUME NEW c \in indCalls, c.argsMatch, NEW h \in c.heap PROVE h[2] \in pts'[rep'[h[1]]]
    BY <1>1, <1>3, <1>4 DEF HeapsKept, getPts, sccRepNode, TypeOK
<1>5. ASSUME NEW c \in prog.calls, resolveIndCall(c), c.argsMatch, NEW h \in c.heap
      PROVE  h[2] \in pts'[rep'[h[1]]]
    <2>1. h[1] \in Nodes /\ h[2] \in ObjNodes
        BY DummyTypes
    <2>2. rep'[h[1]] = h[1]
        BY <1>5, <2>1 DEF resolveIndCall, graphVars, DummiesAlone, Alone
    <2>3. <<h[1], h[2]>> \in c.heap
        BY <1>5 DEF TypeOK, IsProgram, Calls
    <2>4. pts' = [n \in Nodes |-> pts[n] \cup {o \in ObjNodes : <<n, o>> \in c.heap}]
        BY <1>5 DEF resolveIndCall
    <2> QED BY <2>1, <2>2, <2>3, <2>4
<1>6. ASSUME NEW d \in prog.calls, resolveIndCall(d) PROVE HeapsKept'
    <2>1. indCalls' = indCalls \cup {d}
        BY <1>6 DEF resolveIndCall
    <2> QED BY <1>4, <1>5, <1>6, <2>1 DEF HeapsKept, getPts, sccRepNode
<1>7. CASE indCalls' = indCalls
    BY <1>4, <1>7 DEF HeapsKept, getPts, sccRepNode
<1> QED BY <1>6, <1>7, CallsGrow

(***************************************************************************)
(* The round without invariants starts with none of this to show ...       *)
(***************************************************************************)
LEMMA FallbackStarts == IsProgram(prog) /\ StartSolver("scc") => FallbackInv
<1> SUFFICES ASSUME IsProgram(prog), StartSolver("scc") PROVE FallbackInv
    OBVIOUS
<1>1. Acyclic({})
    <2> SUFFICES ASSUME NEW m \in Nodes, NEW n \in ReachableFrom(m, {}) PROVE m = n
        BY DEF Acyclic
    <2>1. ReachableFrom(m, {}) \subseteq {m}
        BY Reach
    <2> QED BY <2>1
<1>2. OrderInv
    BY <1>1 DEF OrderInv, StartSolver
<1>3. VariantsCollapse
    BY ProgramTypes DEF VariantsCollapse, StartSolver, GepEdges
<1>4. pwcInvariants = {} /\ HeapsKept /\ IsFiniteSet(indCalls)
    BY FS_EmptySet DEF StartSolver, HeapsKept
<1> QED BY <1>2, <1>3, <1>4 DEF FallbackInv

(***************************************************************************)
(* ... and keeps it.                                                       *)
(***************************************************************************)
LEMMA FallbackStep == AnalysisInv /\ FallbackInv /\ [Next]_vars => FallbackInv'
<1> SUFFICES ASSUME AnalysisInv, FallbackInv, [Next]_vars PROVE FallbackInv'
    OBVIOUS
<1>1. /\ TypeOK /\ MergeInv /\ WaveInv /\ DummiesAlone
      /\ InvariantVGEP' = InvariantVGEP /\ InvariantPWC' = InvariantPWC
    BY ProgramStays DEF AnalysisInv, SolverInv, CallInv, InvariantVGEP, InvariantPWC
<1>2. OrderInv'
    BY <1>1, OrderStep DEF FallbackInv
<1>3. ~InvariantVGEP' => VariantsCollapse'
    BY <1>1, VariantsStep DEF FallbackInv
<1>4. ~InvariantPWC' => pwcInvariants' = {}
    <2>1. \A c : finishScc(c) /\ ~InvariantPWC => pwcInvariants' = pwcInvariants
        BY DEF finishScc
    <2> QED BY <1>1, <2>1, CyclesRecorded DEF FallbackInv
<1>5. Solving' => HeapsKept'
    BY <1>1, HeapsStep DEF FallbackInv
<1>6. IsFiniteSet(indCalls)'
    <2>1. ASSUME NEW c \in prog.calls, resolveIndCall(c) PROVE IsFiniteSet(indCalls')
        <3>1. indCalls' = indCalls \cup {c} /\ IsFiniteSet(indCalls)
            BY <2>1 DEF resolveIndCall, FallbackInv
        <3>2. IsFiniteSet(indCalls \cup {c})
            BY <3>1, FS_AddElement
        <3> QED BY <3>1, <3>2
    <2> QED BY <2>1, CallsGrow DEF FallbackInv
<1> QED BY <1>2, <1>3, <1>4, <1>5, <1>6 DEF FallbackInv

\* Where the solver looks an object up once its fields are collapsed.
Fold(n) == IF n \in ObjNodes /\ Base[n] \in fieldInsensitive THEN Base[n] ELSE n
FieldSets == [n \in Nodes |-> getPts(Fold(n))]
FieldOrder ==
    {e \in Edges : rep[Fold(e[2])] \in ReachableFrom(rep[Fold(e[1])], DirectEdges(MergePWC))}

\* A load or store of a merged pointer has the edges it would have by itself.
MergedLinked ==
    /\ \A e \in prog.load : ~Unmerged(e[1]) =>
           \A o \in getPts(e[1]) \ PointerlessObjs : Linked(o, e[2])
    /\ \A e \in prog.store : ~Unmerged(e[2]) =>
           \A o \in getPts(e[2]) \ PointerlessObjs : Linked(e[1], o)

GepsKnown == GepsTraceable \/ \A g \in prog.gep : Monitored(g) \/ InGraph(g)

\* Where a round comes to rest.
AtRest ==
    /\ TypeOK /\ Solving /\ RepMaps /\ newCopies = {} /\ toCollapse = {} /\ cycles = {}
    /\ FieldsGone /\ CopiesPropagated /\ AllSent /\ CopiesLinked /\ GraphConstraintsHold
    /\ Acyclic(topo) /\ EdgesSorted

(***************************************************************************)
(* A fixpoint is at rest.                                                  *)
(***************************************************************************)
LEMMA FixpointRests == AnalysisInv /\ FallbackInv /\ AtFixpoint => AtRest
<1> SUFFICES ASSUME AnalysisInv, FallbackInv, AtFixpoint PROVE AtRest
    OBVIOUS
<1>1. /\ TypeOK /\ MergeInv /\ CopyInv /\ WaveInv /\ LinkInv /\ FixInv
      /\ phase = "callgraph" /\ Solving /\ ~reanalyze /\ newCopies = {} /\ toCollapse = {} /\ cycles = {}
    BY DEF AnalysisInv, SolverInv, AtFixpoint, Solving, Settled
<1>2. RepInv /\ RepMaps /\ FieldsGone /\ CopiesPropagated /\ CopiesLinked
    BY <1>1 DEF MergeInv, RepInv, FieldInv, CopyInv, LinkInv
<1>3. AllSent
    BY <1>1, <1>2, NothingToSend DEF WaveInv
<1>4. GraphConstraintsHold
    BY <1>1, FixpointHolds
<1>5. Acyclic(topo) /\ EdgesSorted
    BY <1>1 DEF FallbackInv, OrderInv
<1> QED BY <1>1, <1>2, <1>3, <1>4, <1>5 DEF AtRest

(***************************************************************************)
(* At rest an object of a points-to set is whole or has its fields.        *)
(***************************************************************************)
LEMMA RestSets ==
    ASSUME AtRest, NEW n \in Nodes
    PROVE  /\ getPts(n) \in SUBSET ObjNodes
           /\ \A o \in getPts(n) : Fold(o) = o /\ (Base[o] \in fieldInsensitive => o = Base[o])
           /\ \A set : HasAll(set, getPts(n)) => getPts(n) \subseteq set
<1>1. rep[n] \in Nodes /\ getPts(n) = pts[rep[n]] /\ getPts(n) \in SUBSET ObjNodes
    BY DEF AtRest, TypeOK, PTS, getPts, sccRepNode
<1>2. \A o \in getPts(n) : Base[o] \in fieldInsensitive => o = Base[o]
    BY <1>1 DEF AtRest, FieldsGone
<1> QED BY <1>1, <1>2 DEF Fold, HasAll, Covers

(***************************************************************************)
(* The nodes at rest are ordered: those before each other are one.         *)
(***************************************************************************)
LEMMA RestOrder == AtRest => FlowOrder(FieldSets, FieldOrder)
<1> SUFFICES ASSUME AtRest PROVE FlowOrder(FieldSets, FieldOrder)
    OBVIOUS
<1> DEFINE direct == DirectEdges(MergePWC)
<1>1. direct \in SUBSET Edges
    BY DirectTypes DEF AtRest
<1>2. \A n \in Nodes : Fold(n) \in Nodes /\ rep[Fold(n)] \in Nodes
    <2>1. \A n \in Nodes : Fold(n) \in Nodes
        BY GraphAssumption DEF Fold
    <2> QED BY <2>1 DEF AtRest, TypeOK
<1>3. FieldSets \in [Nodes -> PTS]
    <2>1. \A n \in Nodes : getPts(Fold(n)) \in PTS
        BY <1>2, RestSets DEF PTS
    <2> QED BY <2>1 DEF FieldSets
<1>4. \A m, n \in Nodes : <<m, n>> \in FieldOrder <=> rep[Fold(n)] \in ReachableFrom(rep[Fold(m)], direct)
    BY DEF FieldOrder, Edges
<1> HIDE DEF direct
<1>5. \A n \in Nodes : <<n, n>> \in FieldOrder
    BY <1>1, <1>2, <1>4, Reach
<1>6. ASSUME NEW m \in Nodes, NEW n \in Nodes, NEW k \in Nodes,
             <<m, n>> \in FieldOrder, <<n, k>> \in FieldOrder
      PROVE  <<m, k>> \in FieldOrder
    BY <1>1, <1>2, <1>4, <1>6, ReachOn
<1>7. ASSUME NEW n \in Nodes PROVE ReachableFrom(n, direct) \subseteq ReachableFrom(n, topo)
    <2> DEFINE bound == ReachableFrom(n, topo)
    <2>1. topo \in SUBSET Edges
        BY DEF AtRest, TypeOK
    <2>2. n \in bound /\ \A e \in topo : e[1] \in bound => e[2] \in bound
        BY <2>1, Reach
    <2>3. \A e \in direct : e[1] \in bound => e[2] \in bound
        BY <2>2 DEF AtRest, EdgesSorted, direct
    <2> HIDE DEF bound
    <2>4. ReachableFrom(n, direct) \subseteq bound
        BY <1>1, <2>2, <2>3, Reach
    <2> QED BY <2>4 DEF bound
<1>8. ASSUME NEW m \in Nodes, NEW n \in Nodes, <<m, n>> \in FieldOrder, <<n, m>> \in FieldOrder
      PROVE  FieldSets[m] = FieldSets[n]
    <2>1. rep[Fold(m)] = rep[Fold(n)]
        BY <1>2, <1>4, <1>7, <1>8 DEF AtRest, Acyclic
    <2> QED BY <2>1 DEF FieldSets, getPts, sccRepNode
<1> QED BY <1>3, <1>5, <1>6, <1>8 DEF FlowOrder

(***************************************************************************)
(* What is linked flows at rest.                                           *)
(***************************************************************************)
LEMMA RestFlows ==
    ASSUME AtRest, NEW a \in Nodes, NEW b \in Nodes, Linked(a, b), Fold(a) = a, Fold(b) = b
    PROVE  Flow(FieldSets, FieldOrder, a, b)
<1>1. /\ HasAll(getPts(b), getPts(a)) /\ rep[a] \in Nodes /\ rep[b] \in Nodes
    BY LinkedCopies DEF AtRest, TypeOK
<1>2. getPts(a) \subseteq getPts(b)
    BY <1>1, RestSets
<1>3. rep[a] = rep[b] \/ <<rep[a], rep[b]>> \in DirectEdges(MergePWC)
    BY DEF Linked, AtRest, DirectEdges
<1>4. rep[b] \in ReachableFrom(rep[a], DirectEdges(MergePWC))
    BY <1>1, <1>3, DirectTypes, EdgeReaches DEF AtRest
<1>5. <<a, b>> \in FieldOrder
    BY <1>4 DEF FieldOrder, Edges
<1> QED BY <1>2, <1>5 DEF Flow, FieldSets

(***************************************************************************)
(* At rest the round without invariants has every gep: in the graph, or    *)
(* inside a node all of whose objects are collapsed.                       *)
(***************************************************************************)
LEMMA RestGepStates ==
    ASSUME AnalysisInv, FallbackInv, AtFixpoint, ~InvariantPWC, ~InvariantVGEP, GepsKnown,
           NEW g \in prog.gep
    PROVE  /\ \/ InGraph(g)
              \/ MergePWC /\ rep[g.src] = rep[g.dst] /\ ToCollapse(g.src) = {}
           /\ GepHolds(g)
<1>1. AtRest /\ TypeOK /\ Solving /\ GepInv /\ CollapseInv /\ ~reanalyze /\ g.src \in Nodes
      /\ \A h \in prog.gep : ~Monitored(h)
    <2>1. g.src \in Nodes
        BY ProgramTypes DEF AnalysisInv, SolverInv, TypeOK, GepEdges
    <2> QED BY <2>1, FixpointRests DEF AnalysisInv, SolverInv, FallbackInv, AtFixpoint, AtRest, Monitored
<1>2. \/ InGraph(g)
      \/ MergePWC /\ rep[g.src] = rep[g.dst] /\ rep[g.src] \in pwcNodes
    BY <1>1, TracedGeps DEF GepsKnown, GepsTraceable, GepInv, AtRest
<1>3. MergePWC => \A n \in Reps \cap pwcNodes : ToCollapse(n) = {}
    BY <1>1 DEF AtFixpoint, WillCollapse, CollapseInv, CyclesCollapsed, AtRest
<1>4. CASE InGraph(g)
    BY <1>1, <1>4 DEF AtRest, GraphConstraintsHold
<1>5. CASE MergePWC /\ rep[g.src] = rep[g.dst] /\ rep[g.src] \in pwcNodes
    <2>1. rep[g.src] \in Reps
        BY <1>1 DEF AtRest, RepMaps
    <2>2. ToCollapse(g.src) = {}
        BY <1>3, <1>5, <2>1 DEF ToCollapse, getPts, sccRepNode, Reps
    <2> QED BY <1>1, <1>5, <2>2, CollapsedGepHolds DEF AtRest
<1> QED BY <1>2, <1>4, <1>5

(***************************************************************************)
(* A gep that is satisfied, in place, and collapses what a variable index  *)
(* reaches, gives its fields.                                              *)
(***************************************************************************)
LEMMA RestGeps ==
    ASSUME AnalysisInv, FallbackInv, AtFixpoint, ~InvariantPWC, ~InvariantVGEP, GepsKnown,
           NEW g \in prog.gep
    PROVE  GepFlows(FieldSets, fieldInsensitive, FieldOrder, g)
<1>1. /\ AtRest /\ GepHolds(g)
      /\ InGraph(g) \/ (MergePWC /\ rep[g.src] = rep[g.dst] /\ ToCollapse(g.src) = {})
    BY FixpointRests, RestGepStates
<1>2. /\ g.src \in Nodes /\ g.dst \in Nodes /\ rep[g.src] \in Nodes /\ rep[g.dst] \in Nodes
      /\ Fold(g.src) = g.src /\ Fold(g.dst) = g.dst /\ g \in GepEdges
    BY <1>1 DEF AtRest, TypeOK, IsProgram, Pointers, GepEdges, Fold
<1>3. FieldSets[g.src] = getPts(g.src) /\ FieldSets[g.dst] = getPts(g.dst)
    BY <1>2 DEF FieldSets
<1>4. MergePWC => <<g.src, g.dst>> \in FieldOrder
    <2> SUFFICES ASSUME MergePWC PROVE rep[g.dst] \in ReachableFrom(rep[g.src], DirectEdges(MergePWC))
        BY <1>2 DEF FieldOrder, Edges
    <2>1. CASE [g EXCEPT !.src = rep[g.src], !.dst = rep[g.dst]] \in gepE
        <3>1. PICK h \in gepE : h = [g EXCEPT !.src = rep[g.src], !.dst = rep[g.dst]]
            BY <2>1
        <3>2. h.src = rep[g.src] /\ h.dst = rep[g.dst]
            BY <1>2, <3>1 DEF GepEdges
        <3>3. <<h.src, h.dst>> \in DirectEdges(MergePWC)
            BY DEF DirectEdges
        <3> QED BY <1>1, <1>2, <3>2, <3>3, DirectTypes, EdgeReaches DEF AtRest
    <2>2. CASE rep[g.src] = rep[g.dst]
        BY <1>1, <1>2, <2>2, DirectTypes, EdgeReaches DEF AtRest
    <2> QED BY <1>1, <2>1, <2>2 DEF InGraph
<1>5. /\ getPts(g.src) \in SUBSET ObjNodes
      /\ \A o \in getPts(g.src) : Base[o] \in fieldInsensitive => o = Base[o]
      /\ HasAll(getPts(g.dst), GepTargets(g, getPts(g.src), fieldInsensitive))
    BY <1>1, <1>2, RestSets DEF GepHolds
<1>6. getPts(g.src) \cap OpaqueObjs \subseteq getPts(g.dst)
    BY <1>5 DEF GepTargets, HasAll, Covers
<1>7. ASSUME g.kind = "normal", NEW o \in getPts(g.src) \ OpaqueObjs
      PROVE  GepObjNode(o, g.off, fieldInsensitive) \in getPts(g.dst)
    <2> DEFINE t == GepObjNode(o, g.off, fieldInsensitive)
    <2>1. t \in GepTargets(g, getPts(g.src), fieldInsensitive)
        BY <1>7 DEF GepTargets
    <2>2. t \in getPts(g.dst) \/ Base[t] \in getPts(g.dst) \cap fieldInsensitive
        BY <1>5, <2>1 DEF HasAll, Covers
    <2>3. Base[t] \in fieldInsensitive => t = Base[t]
        <3>1. o \in ObjNodes /\ g.off \in Offsets
            BY <1>2, <1>5 DEF GepEdges
        <3> QED BY <3>1, GraphAssumption DEF GepObjNode
    <2> QED BY <2>2, <2>3
<1>8. ASSUME g.kind = "variant", NEW o \in getPts(g.src) \ OpaqueObjs
      PROVE  Base[o] \in getPts(g.dst) \cap fieldInsensitive
    <2>1. o \in ObjNodes /\ Base[Base[o]] = Base[o]
        BY <1>5, GraphAssumption
    <2>2. Base[o] \in getPts(g.dst)
        <3>1. Base[o] \in GepTargets(g, getPts(g.src), fieldInsensitive)
            BY <1>8 DEF GepTargets, VariantTargets
        <3> QED BY <1>5, <2>1, <3>1 DEF HasAll, Covers
    <2>3. CASE ToCollapse(g.src) = {}
        BY <1>8, <2>2, <2>3 DEF ToCollapse
    <2>4. CASE InGraph(g)
        <3>1. PICK h \in gepE : h = [g EXCEPT !.src = rep[g.src], !.dst = rep[g.dst]]
            BY <1>8, <2>4 DEF InGraph, isZeroOffsettedGepCGEdge
        <3>2. h.src = rep[g.src] /\ h.kind = "variant"
            BY <1>2, <1>8, <3>1 DEF GepEdges
        <3>3. <<h.src, h.dst>> \in DirectEdges(TRUE)
            BY DEF DirectEdges
        <3>4. diffPts(h.src) = {}
            BY <1>1, <3>3 DEF AtRest, AllSent
        <3>5. o \in propa[h.src]
            BY <1>8, <3>2, <3>4 DEF diffPts, getPts, sccRepNode
        <3>6. Base[o] \in fieldInsensitive
            BY <1>8, <3>2, <3>5 DEF FallbackInv, VariantsCollapse
        <3> QED BY <2>2, <3>6
    <2> QED BY <1>1, <2>3, <2>4
<1> QED BY <1>3, <1>4, <1>6, <1>7, <1>8 DEF GepFlows

(***************************************************************************)
(* At rest the copies that the program's loads and stores ask for are      *)
(* linked: those of an unmerged pointer by themselves.                     *)
(***************************************************************************)
LEMMA RestAccesses ==
    ASSUME AnalysisInv, FallbackInv, AtFixpoint, MergedLinked
    PROVE  /\ \A e \in prog.load : LoadFlows(FieldSets, FieldOrder, e)
           /\ \A e \in prog.store : StoreFlows(FieldSets, FieldOrder, e)
<1>1. AtRest /\ LoadsDone /\ StoresDone /\ worklist = {} /\ tmpWorklist = {}
    BY FixpointRests DEF AnalysisInv, SolverInv, FixInv, PhasesApart, AtFixpoint, AtRest
<1>2. \A e \in prog.load \cup prog.store :
          e[1] \in Nodes /\ e[2] \in Nodes /\ Fold(e[1]) = e[1] /\ Fold(e[2]) = e[2]
    BY <1>1 DEF AtRest, TypeOK, IsProgram, Pointers, Fold
<1>3. \A n \in Nodes : Unmerged(n) => getPts(n) = pts[n]
    BY <1>1, UnmergedItself DEF AtRest, getPts, sccRepNode
<1>4. \A n \in Nodes : \A o \in getPts(n) : o \in Nodes /\ Fold(o) = o
    BY <1>1, RestSets, GraphAssumption
<1>5. ASSUME NEW e \in prog.load PROVE LoadFlows(FieldSets, FieldOrder, e)
    <2>1. FieldSets[e[1]] = getPts(e[1])
        BY <1>2 DEF FieldSets
    <2>2. ASSUME NEW o \in getPts(e[1]) \ PointerlessObjs PROVE Flow(FieldSets, FieldOrder, o, e[2])
        <3>1. Linked(o, e[2])
            BY <1>1, <1>2, <1>3, <2>2 DEF MergedLinked, LoadsDone
        <3> QED BY <1>1, <1>2, <1>4, <3>1, RestFlows
    <2> QED BY <2>1, <2>2 DEF LoadFlows
<1>6. ASSUME NEW e \in prog.store PROVE StoreFlows(FieldSets, FieldOrder, e)
    <2>1. FieldSets[e[2]] = getPts(e[2])
        BY <1>2 DEF FieldSets
    <2>2. ASSUME NEW o \in getPts(e[2]) \ PointerlessObjs PROVE Flow(FieldSets, FieldOrder, e[1], o)
        <3>1. Linked(e[1], o)
            BY <1>1, <1>2, <1>3, <2>2 DEF MergedLinked, StoresDone
        <3> QED BY <1>1, <1>2, <1>4, <3>1, RestFlows
    <2> QED BY <2>1, <2>2 DEF StoreFlows
<1> QED BY <1>5, <1>6

(***************************************************************************)
(* A fixpoint of the round without invariants is a solution with fields:   *)
(* the objects it collapsed are one with their fields, the nodes it merged *)
(* are tied.                                                               *)
(***************************************************************************)
LEMMA FallbackSolution ==
    ASSUME AnalysisInv, FallbackInv, AtFixpoint, ~InvariantPWC, ~InvariantVGEP,
           Cardinality(indCalls) < IndirectCallLimit, MergedLinked, GepsKnown
    PROVE  FieldClosed(FieldSets, fieldInsensitive, FieldOrder)
<1>1. AtRest /\ IsProgram(prog) /\ FlowOrder(FieldSets, FieldOrder)
    BY FixpointRests, RestOrder DEF AtRest, TypeOK
<1>2. ASSUME NEW o \in ObjNodes, Base[o] \in fieldInsensitive
      PROVE  Tied(FieldSets, FieldOrder, o, Base[o])
    <2>1. o \in Nodes /\ Base[o] \in Nodes /\ Fold(o) = Base[o] /\ Fold(Base[o]) = Base[o]
        BY <1>2, GraphAssumption DEF Fold
    <2>2. <<Base[o], Base[o]>> \in FieldOrder
        BY <1>1, <2>1 DEF FlowOrder
    <2>3. <<o, Base[o]>> \in FieldOrder /\ <<Base[o], o>> \in FieldOrder
        BY <2>1, <2>2 DEF FieldOrder, Edges
    <2> QED BY <1>1, <2>1, <2>3 DEF FlowOrder, Tied, Flow
<1>3. \A n \in Pointers : n \in Nodes /\ Fold(n) = n /\ FieldSets[n] = getPts(n)
    BY DEF Pointers, Fold, FieldSets
<1>4. ASSUME NEW e \in prog.addr PROVE e[1] \in FieldSets[e[2]]
    <2>1. e[2] \in Pointers /\ Base[e[1]] = e[1] /\ HasAll(getPts(e[2]), {e[1]})
        BY <1>1 DEF IsProgram, WholeObjs, AtRest, GraphConstraintsHold, AddrHolds
    <2> QED BY <1>3, <2>1 DEF HasAll, Covers
<1>5. ASSUME NEW e \in WantedCopies, e[1] \in Pointers, e[2] \in Pointers
      PROVE  Flow(FieldSets, FieldOrder, e[1], e[2])
    <2>1. Linked(e[1], e[2])
        BY <1>1 DEF AtRest, CopiesLinked
    <2> QED BY <1>1, <1>3, <1>5, <2>1, RestFlows
<1>6. ASSUME NEW e \in prog.copy PROVE Flow(FieldSets, FieldOrder, e[1], e[2])
    <2>1. e \in WantedCopies /\ e[1] \in Pointers /\ e[2] \in Pointers
        BY <1>1 DEF WantedCopies, IsProgram
    <2> QED BY <1>5, <2>1
<1>7. ASSUME NEW c \in prog.calls, c.argsMatch, c.fun \in FieldSets[c.fptr]
      PROVE  /\ \A e \in c.params : Flow(FieldSets, FieldOrder, e[1], e[2])
             /\ \A h \in c.heap : h[2] \in FieldSets[h[1]]
    <2>1. /\ c.fptr \in Pointers /\ c.params \in SUBSET (Pointers \X Pointers)
          /\ c.heap \in SUBSET (Pointers \X WholeObjs)
        BY <1>1 DEF IsProgram, Calls
    <2>2. c.fun \in getPts(c.fptr)
        BY <1>3, <1>7, <2>1
    <2>3. c \in indCalls
        BY <2>2 DEF AtFixpoint, Resolvable
    <2>4. c.params \subseteq WantedCopies
        BY <1>7, <2>3 DEF WantedCopies
    <2>5. HeapsKept
        BY <1>1 DEF FallbackInv, AtRest
    <2>6. \A h \in c.heap : h[2] \in getPts(h[1]) /\ h[1] \in Pointers
        BY <1>7, <2>1, <2>3, <2>5 DEF HeapsKept
    <2>7. \A e \in c.params : e[1] \in Pointers /\ e[2] \in Pointers
        BY <2>1
    <2> QED BY <1>3, <1>5, <2>4, <2>6, <2>7
<1>8. \A g \in prog.gep : GepFlows(FieldSets, fieldInsensitive, FieldOrder, g)
    BY RestGeps
<1> QED BY <1>1, <1>2, <1>4, <1>6, <1>7, <1>8, RestAccesses DEF FieldClosed

-----------------------------------------------------------------------------
(* Both rounds of the pass.  The second starts as the first did, on the    *)
(* same constraints, so all that holds of one analysis holds of both.      *)

(***************************************************************************)
(* A policy has only targets that every solution of the program has.       *)
(***************************************************************************)
PolicyWithin(policy) ==
    \A L : Closed(L) =>
        \A t \in policy : \E c \in prog.calls : t = <<c.fptr, c.fun>> /\ <<c.fun, c.fptr>> \in L

PassInv ==
    /\ AnalysisInv
    /\ round = 1 => InvariantPWC /\ InvariantVGEP
    /\ InvariantVGEP => InvariantPWC
    /\ round = 3 => phase = "done" /\ woInvIndCallMap = collectCFI
    /\ PolicyWithin(wInvIndCallMap) /\ PolicyWithin(woInvIndCallMap)

(***************************************************************************)
(* The second round resets what the first has changed, and its program     *)
(* differs in the options only.                                            *)
(***************************************************************************)
LEMMA SecondRoundStarts ==
    ASSUME AnalysisInv, secondRound
    PROVE  /\ IsProgram(prog)' /\ StartSolver("scc")'
           /\ \A L : Closed(L)' => Closed(L)
           /\ prog'.calls = prog.calls
<1>1. TypeOK /\ MergeInv /\ NothingLeft /\ ~Solving
    BY DEF AnalysisInv, SolverInv, CallInv, secondRound, Solving
<1>2. /\ prog' = [prog EXCEPT !.invariantPWC = FALSE, !.invariantVGEP = FALSE]
      /\ IsProgram(prog)
    BY <1>1 DEF secondRound, TypeOK
<1>3. /\ prog'.addr = prog.addr /\ prog'.copy = prog.copy /\ prog'.load = prog.load
      /\ prog'.store = prog.store /\ prog'.gep = prog.gep /\ prog'.calls = prog.calls
    BY <1>2 DEF IsProgram
<1>4. IsProgram(prog')
    BY <1>2, <1>3 DEF IsProgram, FreshDummies
<1>5. cycles = {} /\ toCollapse = {} /\ newCopies = {} /\ redundantGepNodes = {}
      /\ tmpWorklist = {} /\ reanalyze = FALSE
    BY <1>1 DEF MergeInv, DoneSettled, Settled, NothingLeft, secondRound, TypeOK
<1>6. StartSolver("scc")'
    BY <1>3, <1>5 DEF secondRound, StartSolver
<1>7. ASSUME NEW L, Closed(L)' PROVE Closed(L)
    BY <1>3, <1>7 DEF Closed
<1> QED BY <1>3, <1>4, <1>6, <1>7

(***************************************************************************)
(* The first round starts afresh, and neither policy has a target.         *)
(***************************************************************************)
LEMMA PassStarts == PassInit => PassInv
<1> SUFFICES ASSUME PassInit PROVE PassInv
    OBVIOUS
<1>1. IsProgram(prog) /\ StartSolver("scc")
    BY ProgramsStart DEF PassInit, Init
<1>2. InvariantPWC /\ InvariantVGEP
    BY PassAssumption DEF PassInit, Init, InitSolver, InvariantPWC, InvariantVGEP
<1> QED BY <1>1, <1>2, AnalysisStarts DEF PassInit, PassInv, PolicyWithin

(***************************************************************************)
(* Every step of the pass keeps them: a step of the solver, the second     *)
(* round, which builds the graph anew for the same program, and the end.   *)
(***************************************************************************)
LEMMA PassStep == PassInv /\ [PassNext]_allVars => PassInv'
<1> SUFFICES ASSUME PassInv, [PassNext]_allVars PROVE PassInv'
    OBVIOUS
<1>1. /\ AnalysisInv /\ PolicyWithin(wInvIndCallMap) /\ PolicyWithin(woInvIndCallMap)
      /\ round = 3 => phase = "done" /\ woInvIndCallMap = collectCFI
      /\ InvariantVGEP => InvariantPWC
    BY DEF PassInv
<1>2. PolicyWithin(collectCFI)
    <2> SUFFICES ASSUME NEW L, Closed(L), NEW c \in indCalls
                 PROVE  \E d \in prog.calls : <<c.fptr, c.fun>> = <<d.fptr, d.fun>> /\ <<d.fun, d.fptr>> \in L
        BY DEF PolicyWithin, collectCFI
    <2> QED BY <1>1 DEF AnalysisInv, SolverInv, TypeOK, CallsWithin
<1>3. CASE [Next]_vars /\ UNCHANGED passVars
    <2>1. AnalysisInv' /\ prog' = prog
        BY <1>1, <1>3, AnalysisStep, ProgramStays
    <2>2. UNCHANGED <<round, wInvIndCallMap, woInvIndCallMap>>
        BY <1>3 DEF passVars
    <2>3. round = 3 => UNCHANGED vars
        <3>1. SUFFICES ASSUME round = 3, Next PROVE UNCHANGED vars
            BY <1>3
        <3>2. phase = "done" /\ ~Solving /\ redundantGepNodes = {} /\ MergeInv
            BY <1>1, <3>1 DEF Solving, AnalysisInv, SolverInv, CallInv, NothingLeft
        <3> QED BY <3>1, <3>2, FinalSteps DEF MergeInv, DoneSettled, Settled, finish, Terminated
    <2>4. round' = 3 => phase' = "done" /\ woInvIndCallMap' = collectCFI'
        BY <1>1, <2>2, <2>3 DEF collectCFI, vars
    <2>5. PolicyWithin(wInvIndCallMap)' /\ PolicyWithin(woInvIndCallMap)'
        BY <1>1, <2>1, <2>2 DEF PolicyWithin, Closed
    <2> QED BY <1>1, <2>1, <2>2, <2>4, <2>5 DEF PassInv, InvariantPWC, InvariantVGEP
<1>4. CASE secondRound
    <2>1. (IsProgram(prog) /\ StartSolver("scc"))'
        BY <1>1, <1>4, SecondRoundStarts
    <2>2. AnalysisInv'
        BY <2>1, AnalysisStarts, PTL
    <2>3. /\ round' = 2 /\ wInvIndCallMap' = collectCFI /\ UNCHANGED woInvIndCallMap
          /\ prog'.calls = prog.calls /\ \A L : Closed(L)' => Closed(L)
        BY <1>1, <1>4, SecondRoundStarts DEF secondRound
    <2>4. PolicyWithin(wInvIndCallMap)' /\ PolicyWithin(woInvIndCallMap)'
        BY <1>1, <1>2, <2>3 DEF PolicyWithin
    <2>5. prog' = [prog EXCEPT !.invariantPWC = FALSE, !.invariantVGEP = FALSE] /\ IsProgram(prog)
        BY <1>1, <1>4 DEF secondRound, AnalysisInv, SolverInv, TypeOK
    <2>6. ~InvariantVGEP'
        BY <2>5 DEF IsProgram, InvariantVGEP
    <2> QED BY <2>2, <2>3, <2>4, <2>6 DEF PassInv
<1>5. CASE finishPass
    <2>1. UNCHANGED vars /\ round' = 3 /\ phase = "done" /\ woInvIndCallMap' = collectCFI
          /\ wInvIndCallMap' \in {wInvIndCallMap, collectCFI}
        BY <1>5 DEF finishPass
    <2>2. AnalysisInv' /\ prog' = prog
        BY <1>1, <2>1, AnalysisStep, ProgramStays
    <2>3. phase' = "done" /\ woInvIndCallMap' = collectCFI'
        BY <2>1 DEF vars, collectCFI
    <2>4. PolicyWithin(wInvIndCallMap)' /\ PolicyWithin(woInvIndCallMap)'
        BY <1>1, <1>2, <2>1, <2>2 DEF PolicyWithin, Closed
    <2> QED BY <1>1, <2>1, <2>2, <2>3, <2>4 DEF PassInv, InvariantPWC, InvariantVGEP
<1> QED BY <1>3, <1>4, <1>5 DEF PassNext, allVars

(***************************************************************************)
(* The invariant of both rounds.                                           *)
(***************************************************************************)
LEMMA PassInvariant == PassSpec => []PassInv
BY PassStarts, PassStep, PTL DEF PassSpec

(***************************************************************************)
(* In both rounds representatives, sub nodes and edges agree, a collapsed  *)
(* object has no field left, and one wave propagates everything.           *)
(***************************************************************************)
THEOREM PassKeepsGraph == PassSpec => [](RepsAndSubs /\ FieldsGone /\ WaveComplete)
<1>1. SolverInv => RepsAndSubs /\ FieldsGone
    BY DEF SolverInv, MergeInv, RepInv, RepMaps, EdgesAtReps, RepsAndSubs, FieldInv
<1>2. SolverInv => WaveComplete
    BY NothingToSend DEF SolverInv, MergeInv, WaveInv, WaveComplete, AllSent, Solving
<1> QED BY <1>1, <1>2, PassInvariant, PTL DEF PassInv, AnalysisInv

(***************************************************************************)
(* No step of a round loses a fact; only the new graph of the second round *)
(* starts without those of the first.                                      *)
(***************************************************************************)
THEOREM PassKeepsFacts == PassSpec => FactsKept
<1>1. PassInv /\ [PassNext]_allVars
          => [Solving => \A n \in Nodes : Covers(pts'[rep'[n]], pts[rep[n]], fieldInsensitive')]_vars
    <2> SUFFICES ASSUME PassInv, PassNext, Solving, vars' # vars
                 PROVE  \A n \in Nodes : Covers(pts'[rep'[n]], pts[rep[n]], fieldInsensitive')
        BY DEF allVars
    <2>1. TypeOK /\ MergeInv /\ Next
        BY DEF PassInv, AnalysisInv, SolverInv, PassNext, secondRound, finishPass, Solving
    <2> QED BY <2>1, MergeStep DEF FactsStay, HasAfter
<1> QED BY <1>1, PassInvariant, PTL DEF PassSpec, FactsKept

(***************************************************************************)
(* Each round stops where the constraints in its graph hold, with no fact  *)
(* outside the least solution of the program.                              *)
(***************************************************************************)
THEOREM PassReachesFixpoints == PassSpec => [](FixpointReached /\ Precise)
<1>1. PassInv => FixpointReached
    BY FixpointHolds DEF PassInv, AnalysisInv, SolverInv, FixpointReached
<1>2. PassInv => Precise
    BY FactsWithin DEF PassInv, AnalysisInv, SolverInv
<1> QED BY <1>1, <1>2, PassInvariant, PTL

(***************************************************************************)
(* The second round starts with no redundant field either.                 *)
(***************************************************************************)
LEMMA PassFinalStep == PassInv /\ FinalInv /\ FieldsStandAlone /\ [PassNext]_allVars => FinalInv'
<1> SUFFICES ASSUME PassInv, FinalInv, FieldsStandAlone, [PassNext]_allVars PROVE FinalInv'
    OBVIOUS
<1>1. CASE [Next]_vars
    BY <1>1, FinalStep DEF PassInv
<1>2. CASE secondRound
    <2>1. StartSolver("scc")'
        BY <1>2, SecondRoundStarts DEF PassInv
    <2> QED BY <2>1, FinalInvInit, PTL
<1> QED BY <1>1, <1>2 DEF PassNext, finishPass, allVars

(***************************************************************************)
(* The first round, which speculates on both invariants, always ends with  *)
(* every call connected and the loads and stores through unmerged pointers *)
(* closed; the second does unless finalisation removes a field that        *)
(* represents another node.  With that exception both satisfy all          *)
(* addresses, copies and geps but those recorded, if none was swallowed.   *)
(***************************************************************************)
THEOREM PassSolves ==
    PassSpec =>
        /\ [](round = 1 => CallsConnected /\ UnmergedLoadStoresHold)
        /\ []FieldsStandAlone
               => [](/\ CallsConnected /\ UnmergedLoadStoresHold
                     /\ SingleDefs(prog) /\ (\A g \in prog.gep : ~Swallowed(g)) => DirectConstraintsHold)
<1>1. PassInv /\ round = 1 => CallsConnected /\ UnmergedLoadStoresHold
    <2>1. PassInv /\ round = 1 => fieldInsensitive = {}
        BY DEF PassInv, AnalysisInv, KeptInv, KeepsFields
    <2> QED BY <2>1 DEF PassInv, AnalysisInv, SolverInv, FixInv, CallsConnected, GraphConstraintsHold,
                UnmergedLoadStoresHold, Solved
<1>2. PassInit => FinalInv
    BY ProgramsStart, FinalInvInit DEF PassInit, Init
<1>3. PassInv /\ FinalInv =>
          /\ CallsConnected /\ UnmergedLoadStoresHold
          /\ SingleDefs(prog) /\ (\A g \in prog.gep : ~Swallowed(g)) => DirectConstraintsHold
    BY FinalSolution DEF PassInv, GepsTraceable
<1> QED BY <1>1, <1>2, <1>3, PassInvariant, PassFinalStep, PTL DEF PassSpec

(***************************************************************************)
(* In both rounds merging loses no gep but one that was swallowed; so in   *)
(* the first a solution satisfies all direct constraints of the program,   *)
(* the geps of the cycles left to the monitor excepted.                    *)
(***************************************************************************)
THEOREM PassKeepsGeps ==
    PassSpec => [](SingleDefs(prog) /\ (\A g \in prog.gep : ~Swallowed(g))
                       => LostGepsAccounted /\ (round = 1 => DirectConstraintsHold))
<1>1. PassInv /\ round = 1 => KeepsFields /\ InvariantPWC
    BY DEF PassInv, KeepsFields
<1>2. PassInv => (SingleDefs(prog) /\ (\A g \in prog.gep : ~Swallowed(g))
                      => LostGepsAccounted /\ (round = 1 => DirectConstraintsHold))
    BY <1>1, TracedLost, SpeculatedDirect DEF PassInv, AnalysisInv, SolverInv
<1> QED BY <1>2, PassInvariant, PTL

(***************************************************************************)
(* Neither policy has a target without a reason: each is that of a call of *)
(* the program whose pointer has it in the least solution.                 *)
(***************************************************************************)
THEOREM PoliciesAreJustified ==
    PassSpec => [](\A t \in wInvIndCallMap \cup woInvIndCallMap :
                       \E c \in prog.calls : /\ t = <<c.fptr, c.fun>>
                                             /\ <<c.fun, c.fptr>> \in Inclusion!Least)
<1>1. PassInv => \A t \in wInvIndCallMap \cup woInvIndCallMap :
                     \E c \in prog.calls : /\ t = <<c.fptr, c.fun>>
                                           /\ <<c.fun, c.fptr>> \in Inclusion!Least
    <2> SUFFICES ASSUME PassInv, NEW t \in wInvIndCallMap \cup woInvIndCallMap
                 PROVE  \E c \in prog.calls : /\ t = <<c.fptr, c.fun>>
                                              /\ <<c.fun, c.fptr>> \in Inclusion!Least
        OBVIOUS
    <2>1. Closed(Inclusion!Least)
        BY LeastClosed DEF PassInv, AnalysisInv, SolverInv, TypeOK
    <2> QED BY <2>1 DEF PassInv, PolicyWithin
<1> QED BY <1>1, PassInvariant, PTL

(***************************************************************************)
(* The final policy is complete: a program whose pointers stay within the  *)
(* solution makes no call that checkCFI stops, unless the budget of calls  *)
(* was spent, or both policies come from the round that filters targets by *)
(* their arguments and types.                                              *)
(***************************************************************************)
THEOREM FinalPolicyIsComplete ==
    PassSpec => [](round = 3 =>
        \A c \in prog.calls : c.fun \in getPts(c.fptr) =>
            \/ <<c.fptr, c.fun>> \in woInvIndCallMap
            \/ ~(Cardinality(indCalls) < IndirectCallLimit)
            \/ InvariantPWC /\ ~(c.argsMatch /\ c.typesMatch))
<1>1. PassInv => (round = 3 =>
        \A c \in prog.calls : c.fun \in getPts(c.fptr) =>
            \/ <<c.fptr, c.fun>> \in woInvIndCallMap
            \/ ~(Cardinality(indCalls) < IndirectCallLimit)
            \/ InvariantPWC /\ ~(c.argsMatch /\ c.typesMatch))
    <2> SUFFICES ASSUME PassInv, round = 3, NEW c \in prog.calls, c.fun \in getPts(c.fptr)
                 PROVE  \/ <<c.fptr, c.fun>> \in woInvIndCallMap
                        \/ ~(Cardinality(indCalls) < IndirectCallLimit)
                        \/ InvariantPWC /\ ~(c.argsMatch /\ c.typesMatch)
        OBVIOUS
    <2>1. ~Solving /\ woInvIndCallMap = collectCFI /\ CallInv
        BY DEF PassInv, AnalysisInv, Solving
    <2>2. Answered(c)
        BY <2>1 DEF CallInv
    <2> QED BY <2>1, <2>2 DEF Answered, collectCFI
<1> QED BY <1>1, PassInvariant, PTL

\* What the first round hands on is within every solution with fields.
OptimisticWithin ==
    \A L, F, P : FieldClosed(L, F, P) =>
        /\ \A n \in Nodes : Covers(L[n], optimistic[n], F)
        /\ \A t \in wInvIndCallMap :
               \E c \in prog.calls : t = <<c.fptr, c.fun>> /\ c.fun \in L[c.fptr]

RoundsInv ==
    /\ PassInv /\ OptimisticInv /\ FallbackInv /\ OptimisticWithin
    /\ round \in {1, 2, 3} /\ (round = 2 => ~InvariantPWC /\ ~InvariantVGEP)

(***************************************************************************)
(* The first round starts with nothing handed on.                          *)
(***************************************************************************)
LEMMA RoundsStart == PassInit => RoundsInv
<1> SUFFICES ASSUME PassInit PROVE RoundsInv
    OBVIOUS
<1>1. IsProgram(prog) /\ StartSolver("scc")
    BY ProgramsStart DEF PassInit, Init
<1>2. PassInv /\ OptimisticInv /\ FallbackInv
    BY <1>1, PassStarts, FieldInit, FallbackStarts
<1> QED BY <1>2 DEF RoundsInv, OptimisticWithin, PassInit, Covers

(***************************************************************************)
(* What is handed on stays within while the program does.                  *)
(***************************************************************************)
LEMMA WithinStays ==
    ASSUME OptimisticWithin, UNCHANGED <<optimistic, wInvIndCallMap>>, prog' = prog
    PROVE  OptimisticWithin'
<1> SUFFICES ASSUME NEW L, NEW F, NEW P, FieldClosed(L, F, P)'
             PROVE  /\ \A n \in Nodes : Covers(L[n], optimistic[n], F)
                    /\ \A t \in wInvIndCallMap :
                           \E c \in prog.calls : t = <<c.fptr, c.fun>> /\ c.fun \in L[c.fptr]
    BY DEF OptimisticWithin
<1>1. FieldClosed(L, F, P)
    BY FieldClosedFrame
<1> QED BY <1>1 DEF OptimisticWithin

(***************************************************************************)
(* The result of the first round is within every solution.                 *)
(***************************************************************************)
LEMMA FirstRoundWithin ==
    ASSUME TypeOK, OptimisticInv, KeepsFields, NEW L, NEW F, NEW P, FieldClosed(L, F, P)
    PROVE  /\ \A n \in Nodes : Covers(L[n], getPts(n), F)
           /\ \A t \in collectCFI : \E c \in prog.calls : t = <<c.fptr, c.fun>> /\ c.fun \in L[c.fptr]
<1>1. PtsCovered(L, F) /\ RepsTied(L, P) /\ CallsCovered(L) /\ FlowOrder(L, P)
    BY DEF OptimisticInv, FieldWithin, FieldClosed
<1>2. ASSUME NEW n \in Nodes PROVE Covers(L[n], getPts(n), F)
    <2>1. rep[n] \in Nodes /\ Tied(L, P, n, rep[n])
        BY <1>1 DEF TypeOK, RepsTied
    <2>2. L[n] = L[rep[n]]
        BY <1>1, <2>1, TiedNodes
    <2> QED BY <1>1, <2>1, <2>2 DEF PtsCovered, getPts, sccRepNode
<1>3. \A t \in collectCFI : \E c \in prog.calls : t = <<c.fptr, c.fun>> /\ c.fun \in L[c.fptr]
    BY <1>1 DEF collectCFI, CallsCovered, TypeOK
<1> QED BY <1>2, <1>3

(***************************************************************************)
(* Every step of the pass keeps what is handed on within every solution.   *)
(***************************************************************************)
LEMMA RoundsStep == RoundsInv /\ [PassNext]_allVars => RoundsInv'
<1> SUFFICES ASSUME RoundsInv, [PassNext]_allVars PROVE RoundsInv'
    OBVIOUS
<1>1. /\ PassInv /\ AnalysisInv /\ TypeOK /\ MergeInv /\ KeptInv /\ OptimisticInv /\ FallbackInv
      /\ OptimisticWithin /\ (round = 1 => KeepsFields)
    BY DEF RoundsInv, PassInv, AnalysisInv, SolverInv, KeepsFields
<1>2. PassInv'
    BY <1>1, PassStep
<1>3. CASE [Next]_vars /\ UNCHANGED passVars
    <2>1. OptimisticInv' /\ FallbackInv' /\ prog' = prog
        BY <1>1, <1>3, OptimisticStep, FallbackStep, ProgramStays
    <2>2. OptimisticWithin'
        BY <1>1, <1>3, <2>1, WithinStays DEF passVars
    <2> QED BY <1>2, <1>3, <2>1, <2>2 DEF RoundsInv, passVars, InvariantPWC, InvariantVGEP
<1>4. CASE secondRound
    <2>1. (IsProgram(prog) /\ StartSolver("scc"))' /\ prog'.calls = prog.calls
        BY <1>1, <1>4, SecondRoundStarts
    <2>2. OptimisticInv' /\ FallbackInv'
        <3>1. (IsProgram(prog) /\ StartSolver("scc"))'
            BY <2>1
        <3> QED BY <3>1, FieldInit, FallbackStarts, PTL
    <2>3. /\ round = 1 /\ round' = 2
          /\ optimistic' = [n \in Nodes |-> getPts(n)] /\ wInvIndCallMap' = collectCFI
          /\ prog' = [prog EXCEPT !.invariantPWC = FALSE, !.invariantVGEP = FALSE]
        BY <1>4 DEF secondRound
    <2>4. /\ prog'.addr = prog.addr /\ prog'.copy = prog.copy /\ prog'.load = prog.load
          /\ prog'.store = prog.store /\ prog'.gep = prog.gep /\ prog'.mergePWC = prog.mergePWC
          /\ ~InvariantPWC' /\ ~InvariantVGEP'
        BY <1>1, <2>3 DEF TypeOK, IsProgram, InvariantPWC, InvariantVGEP
    <2>5. OptimisticWithin'
        <3> SUFFICES ASSUME NEW L, NEW F, NEW P, FieldClosed(L, F, P)'
                     PROVE  /\ \A n \in Nodes : Covers(L[n], optimistic'[n], F)
                            /\ \A t \in wInvIndCallMap' :
                                   \E c \in prog'.calls : t = <<c.fptr, c.fun>> /\ c.fun \in L[c.fptr]
            BY DEF OptimisticWithin
        <3>1. FieldClosed(L, F, P)
            BY <2>1, <2>4, FieldClosedFrame
        <3>2. /\ \A n \in Nodes : Covers(L[n], getPts(n), F)
              /\ \A t \in collectCFI :
                     \E c \in prog.calls : t = <<c.fptr, c.fun>> /\ c.fun \in L[c.fptr]
            BY <1>1, <2>3, <3>1, FirstRoundWithin
        <3> QED BY <2>1, <2>3, <3>2
    <2> QED BY <1>2, <2>2, <2>3, <2>4, <2>5 DEF RoundsInv
<1>5. CASE finishPass
    <2>1. UNCHANGED vars /\ round' = 3 /\ optimistic' = optimistic
        BY <1>5 DEF finishPass
    <2>2. OptimisticInv' /\ FallbackInv' /\ prog' = prog
        BY <1>1, <2>1, OptimisticStep, FallbackStep, ProgramStays
    <2>3. CASE round = 1
        <3>1. wInvIndCallMap' = collectCFI
            BY <1>5, <2>3 DEF finishPass
        <3>2. OptimisticWithin'
            <4> SUFFICES ASSUME NEW L, NEW F, NEW P, FieldClosed(L, F, P)'
                         PROVE  /\ \A n \in Nodes : Covers(L[n], optimistic[n], F)
                                /\ \A t \in collectCFI :
                                       \E c \in prog.calls : t = <<c.fptr, c.fun>> /\ c.fun \in L[c.fptr]
                BY <2>1, <2>2, <3>1 DEF OptimisticWithin
            <4>1. FieldClosed(L, F, P)
                BY <2>2, FieldClosedFrame
            <4> QED BY <1>1, <2>3, <4>1, FirstRoundWithin DEF OptimisticWithin
        <3> QED BY <1>2, <2>1, <2>2, <3>2 DEF RoundsInv
    <2>4. CASE round # 1
        <3>1. wInvIndCallMap' = wInvIndCallMap
            BY <1>5, <2>4 DEF finishPass
        <3>2. OptimisticWithin'
            BY <1>1, <2>1, <2>2, <3>1, WithinStays
        <3> QED BY <1>2, <2>1, <2>2, <3>2 DEF RoundsInv
    <2> QED BY <2>3, <2>4
<1> QED BY <1>3, <1>4, <1>5 DEF PassNext, allVars

(***************************************************************************)
(* The invariant of what the first round hands on.                         *)
(***************************************************************************)
LEMMA RoundsInvariant == PassSpec => []RoundsInv
BY RoundsStart, RoundsStep, PTL DEF PassSpec

(***************************************************************************)
(* The optimistic round invents nothing: what it finds for a pointer, and  *)
(* every target it gives a call, each solution of the program with fields  *)
(* has, whichever objects it collapses and however it orders the nodes.    *)
(***************************************************************************)
THEOREM OptimisticIsPrecise == PassSpec => []OptimisticWithin
BY RoundsInvariant, PTL DEF RoundsInv

\* What is asked of a fixpoint of the second round: see MergedLinked, GepsKnown.
FallbackComplete == round = 2 /\ AtFixpoint => MergedLinked /\ GepsKnown

(***************************************************************************)
(* Where the fallback round stops it has a solution of the program with    *)
(* fields, if no merged pointer has missed a load or store, no gep was     *)
(* swallowed, and its budget of calls is not spent.                        *)
(***************************************************************************)
THEOREM FallbackSolves ==
    PassSpec => [](round = 2 /\ AtFixpoint /\ MergedLinked /\ GepsKnown
                       /\ Cardinality(indCalls) < IndirectCallLimit
                   => FieldClosed(FieldSets, fieldInsensitive, FieldOrder))
<1>1. RoundsInv => (round = 2 /\ AtFixpoint /\ MergedLinked /\ GepsKnown
                        /\ Cardinality(indCalls) < IndirectCallLimit
                    => FieldClosed(FieldSets, fieldInsensitive, FieldOrder))
    <2> SUFFICES ASSUME RoundsInv, round = 2, AtFixpoint, MergedLinked, GepsKnown,
                        Cardinality(indCalls) < IndirectCallLimit
                 PROVE  FieldClosed(FieldSets, fieldInsensitive, FieldOrder)
        OBVIOUS
    <2>1. AnalysisInv /\ FallbackInv /\ ~InvariantPWC /\ ~InvariantVGEP
        BY DEF RoundsInv, PassInv
    <2> QED BY <2>1, FallbackSolution
<1> QED BY <1>1, RoundsInvariant, PTL

(***************************************************************************)
(* There it has all that the optimistic round has handed on.               *)
(***************************************************************************)
LEMMA FallbackHasAll ==
    ASSUME RoundsInv, FallbackComplete, round = 2, AtFixpoint
    PROVE  \/ Cardinality(indCalls) >= IndirectCallLimit
           \/ /\ wInvIndCallMap \subseteq collectCFI
              /\ \A n \in Nodes \ ObjNodes : HasAll(getPts(n), optimistic[n])
<1>1. Cardinality(indCalls) \in Nat /\ IndirectCallLimit \in Nat
    BY FS_CardinalityType, SolverAssumption DEF RoundsInv, FallbackInv
<1> SUFFICES ASSUME Cardinality(indCalls) < IndirectCallLimit
             PROVE  /\ wInvIndCallMap \subseteq collectCFI
                    /\ \A n \in Nodes \ ObjNodes : HasAll(getPts(n), optimistic[n])
    BY <1>1
<1>2. /\ FieldClosed(FieldSets, fieldInsensitive, FieldOrder)
      /\ OptimisticWithin /\ ~InvariantPWC /\ IsProgram(prog)
    BY FallbackSolution DEF RoundsInv, PassInv, FallbackComplete, AnalysisInv, SolverInv, TypeOK
<1>3. \A n \in Nodes \ ObjNodes : FieldSets[n] = getPts(n)
    BY DEF FieldSets, Fold
<1>4. ASSUME NEW t \in wInvIndCallMap PROVE t \in collectCFI
    <2>1. PICK c \in prog.calls : t = <<c.fptr, c.fun>> /\ c.fun \in FieldSets[c.fptr]
        BY <1>2 DEF OptimisticWithin
    <2>2. c.fun \in getPts(c.fptr)
        BY <1>2, <1>3, <2>1 DEF IsProgram, Calls, Pointers
    <2>3. c \in indCalls
        BY <1>2, <2>2 DEF AtFixpoint, Resolvable
    <2> QED BY <2>1, <2>3 DEF collectCFI
<1>5. ASSUME NEW n \in Nodes \ ObjNodes PROVE HasAll(getPts(n), optimistic[n])
    <2>1. Covers(FieldSets[n], optimistic[n], fieldInsensitive)
        BY <1>2 DEF OptimisticWithin
    <2> QED BY <1>3, <2>1 DEF HasAll
<1> QED BY <1>4, <1>5

\* What the second round has at its end, while finalisation removes fields.
PolicyKept ==
    /\ round = 2 /\ ~Solving =>
           \/ wInvIndCallMap \subseteq collectCFI
           \/ Cardinality(indCalls) >= IndirectCallLimit
    /\ FallbackCoversOptimistic

SetsKept ==
    round = 2 /\ ~Solving /\ Cardinality(indCalls) < IndirectCallLimit =>
        \A n \in Nodes \ ObjNodes : HasAll(getPts(n), optimistic[n])

(***************************************************************************)
(* A step that leaves the calls alone keeps the policy.                    *)
(***************************************************************************)
LEMMA PolicyStep == RoundsInv /\ FallbackComplete /\ PolicyKept /\ [PassNext]_allVars => PolicyKept'
<1> SUFFICES ASSUME RoundsInv, FallbackComplete, PolicyKept, [PassNext]_allVars PROVE PolicyKept'
    OBVIOUS
<1>1. /\ PassInv /\ AnalysisInv /\ MergeInv /\ (round = 3 => phase = "done")
      /\ (round = 3 => woInvIndCallMap = collectCFI)
    BY DEF RoundsInv, PassInv, AnalysisInv, SolverInv
<1>2. ASSUME UNCHANGED <<passVars, indCalls>>, ~Solving PROVE PolicyKept'
    <2>1. Solving' \/ ~Solving'
        OBVIOUS
    <2> QED BY <1>2, <2>1 DEF PolicyKept, passVars, collectCFI, FallbackCoversOptimistic
<1>3. CASE Next /\ UNCHANGED passVars /\ ~Solving
    <2>1. (\E n \in redundantGepNodes : removeGepNode(n)) \/ finish \/ Terminated
        BY <1>1, <1>3, FinalSteps DEF MergeInv, DoneSettled, Settled
    <2>2. indCalls' = indCalls
        BY <2>1 DEF removeGepNode, finish, Terminated, vars
    <2> QED BY <1>2, <1>3, <2>2
<1>4. CASE Next /\ UNCHANGED passVars /\ Solving /\ Solving'
    <2>1. round' # 3
        BY <1>1, <1>4 DEF Solving, passVars
    <2> QED BY <1>4, <2>1 DEF PolicyKept, FallbackCoversOptimistic
<1>5. CASE Next /\ UNCHANGED passVars /\ Solving /\ ~Solving'
    <2>1. endIteration("scc")
        BY <1>5, LastIteration
    <2>2. AtFixpoint /\ indCalls' = indCalls
        BY <1>5, <2>1 DEF endIteration, AtFixpoint, Solving
    <2>3. round # 3
        BY <1>1, <1>5 DEF Solving
    <2>4. round = 2 => \/ wInvIndCallMap \subseteq collectCFI
                       \/ Cardinality(indCalls) >= IndirectCallLimit
        BY <2>2, FallbackHasAll
    <2> QED BY <1>5, <2>2, <2>3, <2>4 DEF PolicyKept, passVars, collectCFI, FallbackCoversOptimistic
<1>6. CASE UNCHANGED allVars
    <2>1. UNCHANGED <<round, wInvIndCallMap, woInvIndCallMap, indCalls, phase>>
        BY <1>6 DEF allVars, vars, passVars
    <2> QED BY <2>1 DEF PolicyKept, collectCFI, FallbackCoversOptimistic, Solving
<1>7. CASE secondRound
    <2>1. round' = 2 /\ phase' = "scc"
        BY <1>7 DEF secondRound
    <2> QED BY <2>1 DEF PolicyKept, FallbackCoversOptimistic, Solving
<1>8. CASE finishPass
    <2>1. /\ round' = 3 /\ woInvIndCallMap' = collectCFI /\ indCalls' = indCalls /\ ~Solving
          /\ \/ round = 2 /\ wInvIndCallMap' = wInvIndCallMap
             \/ wInvIndCallMap' = collectCFI
        BY <1>8 DEF finishPass, vars, Solving
    <2>2. FallbackCoversOptimistic'
        BY <2>1 DEF PolicyKept, FallbackCoversOptimistic
    <2> QED BY <2>1, <2>2 DEF PolicyKept
<1> QED BY <1>3, <1>4, <1>5, <1>6, <1>7, <1>8 DEF PassNext

(***************************************************************************)
(* A step that leaves the pointers' representatives alone keeps the sets.  *)
(***************************************************************************)
LEMMA SetsStep ==
    RoundsInv /\ FallbackComplete /\ FieldsStandAlone /\ SetsKept /\ [PassNext]_allVars => SetsKept'
<1> SUFFICES ASSUME RoundsInv, FallbackComplete, FieldsStandAlone, SetsKept, [PassNext]_allVars,
                    round' = 2, ~Solving', Cardinality(indCalls') < IndirectCallLimit,
                    NEW n \in Nodes \ ObjNodes
             PROVE  HasAll(getPts(n), optimistic[n])'
    BY DEF SetsKept
<1>1. TypeOK /\ MergeInv
    BY DEF RoundsInv, PassInv, AnalysisInv, SolverInv
<1>2. [Next]_vars /\ UNCHANGED passVars /\ round = 2
    <2>1. ~secondRound /\ ~finishPass
        <3>1. phase' # "scc" /\ round' # 3
            BY DEF Solving
        <3>2. ~secondRound
            BY <3>1 DEF secondRound
        <3>3. ~finishPass
            BY <3>1 DEF finishPass
        <3> QED BY <3>2, <3>3
    <2>2. [Next]_vars /\ UNCHANGED passVars
        BY <2>1 DEF PassNext, allVars
    <2> QED BY <2>2 DEF passVars
<1>3. ASSUME rep'[n] = rep[n], UNCHANGED <<pts, fieldInsensitive>>, HasAll(getPts(n), optimistic[n])
      PROVE  HasAll(getPts(n), optimistic[n])'
    BY <1>2, <1>3 DEF HasAll, Covers, getPts, sccRepNode, passVars
<1>4. CASE Next /\ Solving
    <2>1. endIteration("scc")
        BY <1>4, LastIteration
    <2>2. AtFixpoint /\ UNCHANGED <<indCalls, rep, pts, fieldInsensitive>>
        BY <2>1 DEF endIteration, AtFixpoint, Solving, graphVars, ptsVars, objectVars
    <2>3. ~(Cardinality(indCalls) >= IndirectCallLimit)
        <3>1. Cardinality(indCalls) \in Nat /\ IndirectCallLimit \in Nat
            BY FS_CardinalityType, SolverAssumption DEF RoundsInv, FallbackInv
        <3> QED BY <2>2, <3>1
    <2>4. HasAll(getPts(n), optimistic[n])
        BY <1>2, <2>2, <2>3, FallbackHasAll
    <2> QED BY <1>3, <2>2, <2>4
<1>5. CASE Next /\ ~Solving
    <2>1. (\E f \in redundantGepNodes : removeGepNode(f)) \/ finish \/ Terminated
        BY <1>1, <1>5, FinalSteps DEF MergeInv, DoneSettled, Settled
    <2>2. UNCHANGED <<indCalls, pts, fieldInsensitive>>
        BY <2>1 DEF removeGepNode, finish, Terminated, vars, ptsVars, objectVars
    <2>3. rep'[n] = rep[n]
        <3>1. ASSUME NEW f \in redundantGepNodes, removeGepNode(f) PROVE rep'[n] = rep[n]
            <4>1. n # f /\ subs[f] = {}
                BY <1>1, <3>1 DEF TypeOK, FieldsStandAlone, removeGepNode
            <4> QED BY <1>1, <3>1, <4>1, RemovedAlone
        <3> QED BY <2>1, <3>1 DEF finish, Terminated, vars, graphVars
    <2> QED BY <1>2, <1>3, <1>5, <2>2, <2>3 DEF SetsKept
<1>6. CASE UNCHANGED vars
    <2>1. UNCHANGED <<indCalls, rep, pts, fieldInsensitive, phase>>
        BY <1>6 DEF vars, graphVars, ptsVars, objectVars
    <2> QED BY <1>2, <1>3, <2>1 DEF SetsKept, Solving
<1> QED BY <1>2, <1>4, <1>5, <1>6

(***************************************************************************)
(* Switching to the fallback policy forbids no target that the optimistic  *)
(* policy allowed: unless the budget of calls is spent, or the second      *)
(* round stops with a load or store that a merged pointer has missed or a  *)
(* gep that was swallowed.                                                 *)
(***************************************************************************)
THEOREM FallbackCovers == PassSpec /\ []FallbackComplete => []FallbackCoversOptimistic
<1>1. PassInit => PolicyKept
    BY DEF PassInit, PolicyKept, FallbackCoversOptimistic
<1>2. PolicyKept => FallbackCoversOptimistic
    BY DEF PolicyKept
<1> QED BY <1>1, <1>2, RoundsInvariant, PolicyStep, PTL DEF PassSpec

(***************************************************************************)
(* Under the same conditions, and if finalisation removes no field that    *)
(* represents another node, the fallback solution has all that the         *)
(* optimistic solution has, for every pointer.                             *)
(***************************************************************************)
THEOREM FallbackHasOptimistic ==
    PassSpec /\ []FallbackComplete /\ []FieldsStandAlone => []OptimisticIsSubset
<1>1. PassInit => SetsKept
    BY DEF PassInit, SetsKept
<1>2. SetsKept => OptimisticIsSubset
    BY DEF SetsKept, OptimisticIsSubset, Solving
<1> QED BY <1>1, <1>2, RoundsInvariant, SetsStep, PTL DEF PassSpec

=============================================================================
