------------------------- MODULE AndersenLCDProofs -------------------------
(***************************************************************************)
(* Lazy cycle detection for every program and every choice of options: its *)
(* types, and that whatever it merges, and whenever, difference            *)
(* propagation skips no fact along a copy edge, representatives and facts  *)
(* stay in step, and a collapsed object has no field left; that it stops   *)
(* only at a solution of the program's constraints; that it finds no fact  *)
(* beyond the least one; and, for the programs without fields, that what   *)
(* it finds is the least solution.                                         *)
(***************************************************************************)
EXTENDS AndersenLCD, AndersenProofs

(***************************************************************************)
(* The components a search finds are merges the solver can carry out.      *)
(***************************************************************************)
LEMMA MergeSCCTypes == TypeOK /\ mergeSCC => TypeOK'
<1> SUFFICES ASSUME TypeOK, mergeSCC PROVE TypeOK'
    OBVIOUS
<1>1. PICK found \in {FoundFrom(lcdCandidates \cap Reps)} :
          \E root \in {f \in [found -> Reps] : \A c \in found : f[c] \in c} :
              cycles' = {[rep |-> root[c], left |-> c \ {root[c]}, members |-> c,
                          geps |-> {}, scc |-> TRUE] : c \in found}
    BY DEF mergeSCC
<1>2. PICK root \in {f \in [found -> Reps] : \A c \in found : f[c] \in c} :
          cycles' = {[rep |-> root[c], left |-> c \ {root[c]}, members |-> c,
                      geps |-> {}, scc |-> TRUE] : c \in found}
    BY <1>1
<1>3. found \subseteq SUBSET Nodes
    BY DEF FoundFrom, BigComponents, Components, Reps
<1>4. ASSUME NEW c \in found
      PROVE  [rep |-> root[c], left |-> c \ {root[c]}, members |-> c,
              geps |-> {}, scc |-> TRUE] \in Cycles
    <2>1. root[c] \in Nodes /\ c \in SUBSET Nodes
        BY <1>3 DEF Reps
    <2> QED BY <2>1 DEF Cycles
<1>5. cycles' \subseteq Cycles
    BY <1>2, <1>4
<1> QED
    BY <1>5 DEF mergeSCC, TypeOK, graphVars, ptsVars, waveVars, objectVars, invariantVars

(***************************************************************************)
(* Taking up a node, in each of its steps, keeps the types.                *)
(***************************************************************************)
LEMMA NodeTypes ==
    ASSUME TypeOK, NEW n \in Nodes,
           popFromWorklist(n) \/ skipMerged(n) \/ handleLoadStore(n) \/ processNode(n)
    PROVE  TypeOK'
<1>1. CASE popFromWorklist(n)
    <2>1. rep[n] \in Nodes
        BY DEF TypeOK
    <2>2. toCollapse' \subseteq ObjNodes
        BY <1>1, <2>1, ToCollapseType DEF popFromWorklist, TypeOK
    <2>3. worklist' \subseteq Nodes /\ pending' \subseteq Nodes /\ phase' \in Phases
        BY <1>1, <2>1 DEF popFromWorklist, TypeOK, Phases
    <2> QED
        BY <1>1, <2>2, <2>3
        DEF TypeOK, popFromWorklist, graphVars, ptsVars, objectVars, invariantVars
<1>2. CASE skipMerged(n)
    BY <1>2 DEF TypeOK, skipMerged, Phases, graphVars, ptsVars, objectVars, invariantVars
<1>3. CASE handleLoadStore(n)
    <2>1. LoadCopies(n) \cup StoreCopies(n) \in SUBSET Edges
        BY GraphAssumption DEF TypeOK, PTS, LoadCopies, StoreCopies, Edges
    <2>2. newCopies' \subseteq {e \in Edges : e[1] # e[2]} /\ phase' \in Phases
        BY <1>3, <2>1, NewEdgesType DEF TypeOK, handleLoadStore, Phases
    <2> QED
        BY <1>3, <2>2
        DEF TypeOK, handleLoadStore, graphVars, ptsVars, waveVars, objectVars, invariantVars
<1>4. CASE processNode(n)
    <2>1. /\ pts' \in [Nodes -> PTS] /\ propa' \in [Nodes -> PTS]
          /\ worklist' \subseteq Nodes
          /\ fields' \subseteq ObjNodes /\ fieldInsensitive' \subseteq ObjNodes
          /\ toCollapse' \subseteq ObjNodes
          /\ varGepPtd' \subseteq Nodes \X ObjNodes
        BY <1>4, HandleCopyGepTypes DEF TypeOK, processNode
    <2> QED BY <1>4, <2>1 DEF TypeOK, processNode, Phases, graphVars
<1> QED BY <1>1, <1>2, <1>3, <1>4

(***************************************************************************)
(* Every step keeps the types.                                             *)
(***************************************************************************)
LEMMA StepTypes == TypeOK /\ [Next]_solverVars => TypeOK'
<1> SUFFICES ASSUME TypeOK, [Next]_solverVars PROVE TypeOK'
    OBVIOUS
<1>1. CASE mergeSCC
    BY <1>1, MergeSCCTypes
<1>2. ASSUME NEW c \in cycles, NEW n \in c.left, mergeSrcToTgt(c, n) PROVE TypeOK'
    <2>1. worklist' \subseteq Nodes
        BY <1>2 DEF mergeSrcToTgt, TypeOK, Cycles
    <2> QED BY <1>2, <2>1, MergeTypes DEF mergeSrcToTgt
<1>3. ASSUME NEW n \in Nodes,
             popFromWorklist(n) \/ skipMerged(n) \/ handleLoadStore(n) \/ processNode(n)
      PROVE  TypeOK'
    BY <1>3, NodeTypes
<1>4. ASSUME NEW e \in newCopies, addCopyEdge(e) PROVE TypeOK'
    <2>1. worklist' \subseteq Nodes /\ reanalyze' \in BOOLEAN
        BY <1>4 DEF TypeOK, addCopyEdge, Edges
    <2> QED BY <1>4, <2>1, EdgeTypes DEF addCopyEdge
<1>5. CASE endWorklist
    BY <1>5
    DEF TypeOK, endWorklist, Phases, graphVars, ptsVars, waveVars, objectVars, invariantVars
<1>6. CASE Common("solve")
    BY <1>6, CommonTypes DEF Phases
<1>7. CASE UNCHANGED solverVars
    BY <1>7, StutterTypes DEF solverVars
<1> QED BY <1>1, <1>2, <1>3, <1>4, <1>5, <1>6, <1>7 DEF Next

(***************************************************************************)
(* The state of lazy cycle detection is well typed.                        *)
(***************************************************************************)
THEOREM LCDTypeCorrect == Spec => []TypeOK
<1>1. Init => TypeOK
    BY ProgramsStart, InitTypes DEF Init, Phases
<1> QED BY <1>1, StepTypes, PTL DEF Spec

(***************************************************************************)
(* Every step keeps the invariant of copy propagation.                     *)
(***************************************************************************)
LEMMA CopyInvStep == TypeOK /\ CopyInv /\ [Next]_solverVars => CopyInv'
<1> SUFFICES ASSUME TypeOK, CopyInv, [Next]_solverVars PROVE CopyInv'
    OBVIOUS
<1>1. ASSUME NEW c \in cycles, NEW n \in c.left, mergeSrcToTgt(c, n) PROVE CopyInv'
    BY <1>1, CopyInvMerge DEF mergeSrcToTgt
<1>2. ASSUME NEW n \in Nodes, processNode(n) PROVE CopyInv'
    BY <1>2, CopyInvPropagate DEF processNode, graphVars
<1>3. ASSUME NEW e \in newCopies, addCopyEdge(e) PROVE CopyInv'
    BY <1>3, CopyInvAddEdge DEF addCopyEdge
<1>4. CASE Common("solve")
    BY <1>4, CopyInvCommon DEF Phases
<1>5. CASE UNCHANGED <<copyE, pts, propa, fieldInsensitive>>
    BY <1>5, CopyInvGrows
<1>6. ASSUME NEW n \in Nodes, popFromWorklist(n) \/ skipMerged(n) \/ handleLoadStore(n)
      PROVE  CopyInv'
    BY <1>5, <1>6 DEF popFromWorklist, skipMerged, handleLoadStore, graphVars, ptsVars,
        objectVars
<1>7. CASE mergeSCC \/ endWorklist
    BY <1>5, <1>7 DEF mergeSCC, endWorklist, graphVars, ptsVars, objectVars
<1>8. CASE UNCHANGED solverVars
    BY <1>5, <1>8 DEF solverVars, vars, graphVars, ptsVars, objectVars
<1> QED BY <1>1, <1>2, <1>3, <1>4, <1>6, <1>7, <1>8 DEF Next

(***************************************************************************)
(* Lazy cycle detection skips no fact along a copy edge: for every         *)
(* program, order of the worklist, merge and collapse, what a node counts  *)
(* as propagated is in the points-to set of every copy successor.          *)
(***************************************************************************)
THEOREM LCDCopyPropagation == Spec => []CopiesPropagated
<1>1. Init => TypeOK /\ CopyInv
    BY ProgramsStart, InitTypes, CopyInvInit DEF Init, Phases
<1>2. TypeOK /\ CopyInv /\ [Next]_solverVars => (TypeOK /\ CopyInv)'
    BY StepTypes, CopyInvStep
<1>3. CopyInv => CopiesPropagated
    BY DEF CopyInv
<1> QED BY <1>1, <1>2, <1>3, PTL DEF Spec

-----------------------------------------------------------------------------
(***************************************************************************)
(* Merging and collapsing.  A node sends along its copy edges only when    *)
(* no merge or collapse is under way; handling loads and stores waits for  *)
(* that, and the copies follow at once.                                    *)
(***************************************************************************)
CopiesSettled == phase = "copies" => cycles = {} /\ toCollapse = {}

MergeInv == RepInv /\ DoneSettled /\ FieldInv /\ CopiesSettled

(***************************************************************************)
(* A search hands disjoint components of representatives to the merges.    *)
(***************************************************************************)
LEMMA DetectMerges ==
    ASSUME TypeOK, MergeInv, mergeSCC
    PROVE  MergeInv' /\ FactsStay
<1>1. /\ Settled /\ Solving /\ Solving' /\ phase' = "solve"
      /\ UNCHANGED <<graphVars, newCopies, toCollapse, pts, fields, fieldInsensitive>>
    BY DEF mergeSCC, Solving, ptsVars, objectVars
<1>2. PICK found \in {FoundFrom(lcdCandidates \cap Reps)} :
          \E root \in {f \in [found -> Reps] : \A c \in found : f[c] \in c} :
              cycles' = {[rep |-> root[c], left |-> c \ {root[c]}, members |-> c,
                          geps |-> {}, scc |-> TRUE] : c \in found}
    BY DEF mergeSCC
<1> PICK root \in {f \in [found -> Reps] : \A c \in found : f[c] \in c} :
             cycles' = {[rep |-> root[c], left |-> c \ {root[c]}, members |-> c,
                         geps |-> {}, scc |-> TRUE] : c \in found}
    BY <1>2
<1>3. found \subseteq BigComponents
    BY DEF FoundFrom
<1>4. RepInv'
    BY <1>1, <1>3, RepInvFound DEF MergeInv, Settled
<1>5. FieldInv'
    BY <1>1, FieldInvFrame DEF MergeInv, FieldInv, BasesOnly
<1>6. FactsStay
    BY <1>1, FactsGrow DEF graphVars
<1> QED BY <1>1, <1>4, <1>5, <1>6 DEF MergeInv, DoneSettled, CopiesSettled

(***************************************************************************)
(* Taking up a node, in each of its steps.                                 *)
(***************************************************************************)
LEMMA NodeMerges ==
    ASSUME TypeOK, MergeInv, NEW n \in Nodes,
           popFromWorklist(n) \/ skipMerged(n) \/ handleLoadStore(n) \/ processNode(n)
    PROVE  MergeInv' /\ FactsStay
<1>1. /\ cycles = {} /\ toCollapse = {} /\ newCopies = {}
      /\ Solving /\ Solving' /\ UNCHANGED <<graphVars, cycles>>
    BY DEF MergeInv, CopiesSettled, Settled, popFromWorklist, skipMerged, handleLoadStore,
           processNode, Solving
<1>2. DoneSettled'
    BY <1>1 DEF DoneSettled
<1>3. CASE popFromWorklist(n)
    <2>1. UNCHANGED <<pts, fields, fieldInsensitive, newCopies>> /\ phase' = "loads"
        BY <1>3 DEF popFromWorklist, ptsVars, objectVars
    <2>2. RepInv'
        BY <1>1, <2>1, RepInvFrame DEF MergeInv
    <2>3. rep[n] \in Nodes
        BY DEF TypeOK
    <2>4. \A b \in toCollapse' : Base[b] = b
        BY <1>3, <2>3, ToCollapseBases DEF popFromWorklist
    <2>5. FieldInv'
        BY <1>1, <2>1, <2>4, FieldInvFrame DEF MergeInv
    <2>6. FactsStay
        BY <1>1, <2>1, FactsGrow DEF graphVars
    <2> QED BY <1>2, <2>1, <2>2, <2>5, <2>6 DEF MergeInv, CopiesSettled
<1>4. CASE skipMerged(n)
    <2>1. /\ UNCHANGED <<pts, fields, fieldInsensitive, newCopies, toCollapse>>
          /\ phase' = "solve"
        BY <1>4 DEF skipMerged, ptsVars, objectVars
    <2>2. RepInv' /\ FieldInv'
        BY <1>1, <2>1, RepInvFrame, FieldInvFrame DEF MergeInv, FieldInv, BasesOnly
    <2>3. FactsStay
        BY <1>1, <2>1, FactsGrow DEF graphVars
    <2> QED BY <1>2, <2>1, <2>2, <2>3 DEF MergeInv, CopiesSettled
<1>5. CASE handleLoadStore(n)
    <2>1. LoadCopies(n) \cup StoreCopies(n) \in SUBSET Edges
        BY GraphAssumption DEF TypeOK, PTS, LoadCopies, StoreCopies, Edges
    <2>2. /\ newCopies' = NewEdges(LoadCopies(n) \cup StoreCopies(n))
          /\ UNCHANGED <<pts, fields, fieldInsensitive, toCollapse>>
        BY <1>5 DEF handleLoadStore, ptsVars, objectVars
    <2>3. RepInv'
        BY <1>1, <2>1, <2>2, RepInvAsk DEF MergeInv, Settled
    <2>4. FieldInv'
        BY <1>1, <2>2, FieldInvFrame DEF MergeInv, FieldInv, BasesOnly
    <2>5. FactsStay
        BY <1>1, <2>2, FactsGrow DEF graphVars
    <2> QED BY <1>1, <1>2, <2>2, <2>3, <2>4, <2>5 DEF MergeInv, CopiesSettled
<1>6. CASE processNode(n)
    <2>1. handleCopyGep(n, worklist) /\ newCopies' = newCopies /\ phase' = "solve"
        BY <1>6 DEF processNode
    <2>2. RepInv'
        BY <1>1, <2>1, RepInvFrame DEF MergeInv
    <2>3. FieldInv'
        BY <1>1, <2>1, FieldInvPropagate DEF MergeInv
    <2>4. \A d \in Nodes : pts[d] \subseteq pts'[d]
        BY <2>1 DEF handleCopyGep
    <2>5. FactsStay
        BY <1>1, <2>4, FactsGrow DEF graphVars
    <2> QED BY <1>2, <2>1, <2>2, <2>3, <2>5 DEF MergeInv, CopiesSettled
<1> QED BY <1>3, <1>4, <1>5, <1>6

(***************************************************************************)
(* Every step of lazy cycle detection keeps the representatives in step,   *)
(* the facts while solving, and collapsed objects without fields.          *)
(***************************************************************************)
LEMMA MergeStep ==
    TypeOK /\ MergeInv /\ [Next]_solverVars => MergeInv' /\ (Solving => FactsStay)
<1> SUFFICES ASSUME TypeOK, MergeInv, [Next]_solverVars
             PROVE  MergeInv' /\ (Solving => FactsStay)
    OBVIOUS
<1>1. CASE mergeSCC
    BY <1>1, DetectMerges
<1>2. ASSUME NEW c \in cycles, NEW n \in c.left, mergeSrcToTgt(c, n)
      PROVE  MergeInv' /\ FactsStay
    <2>1. mergeNode(c, n) /\ phase' = phase
        BY <1>2 DEF mergeSrcToTgt, mergeNode
    <2>2. Solving /\ phase # "copies"
        BY DEF MergeInv, DoneSettled, CopiesSettled, Settled
    <2>3. RepInv' /\ FieldInv' /\ FactsStay
        BY <2>1, RepInvMerge, FieldInvMerge, FactsMerge DEF MergeInv
    <2> QED BY <2>1, <2>2, <2>3 DEF MergeInv, DoneSettled, CopiesSettled, Solving
<1>3. ASSUME NEW n \in Nodes,
             popFromWorklist(n) \/ skipMerged(n) \/ handleLoadStore(n) \/ processNode(n)
      PROVE  MergeInv' /\ FactsStay
    BY <1>3, NodeMerges
<1>4. ASSUME NEW e \in newCopies, addCopyEdge(e) PROVE MergeInv' /\ FactsStay
    <2>1. insertCopy(e)
        BY <1>4 DEF addCopyEdge
    <2>2. UNCHANGED <<pts, rep, phase, toCollapse, cycles, fields, fieldInsensitive>>
        BY <2>1 DEF insertCopy, objectVars
    <2>3. Solving
        BY <2>1 DEF MergeInv, DoneSettled, Settled, insertCopy
    <2>4. RepInv'
        BY <2>1, RepInvAddEdge DEF MergeInv
    <2>5. FieldInv'
        BY <2>2, FieldInvFrame DEF MergeInv, FieldInv, BasesOnly, Solving
    <2>6. FactsStay
        BY <2>2, FactsGrow
    <2> QED BY <2>2, <2>3, <2>4, <2>5, <2>6 DEF MergeInv, DoneSettled, CopiesSettled, Solving
<1>5. CASE endWorklist
    <2>1. /\ Settled /\ Solving /\ Solving' /\ phase' = "callgraph"
          /\ UNCHANGED <<graphVars, cycles, newCopies, toCollapse, pts, fields, fieldInsensitive>>
        BY <1>5 DEF endWorklist, Solving, ptsVars, objectVars
    <2>2. RepInv' /\ FieldInv'
        BY <2>1, RepInvFrame, FieldInvFrame DEF MergeInv, FieldInv, BasesOnly, Settled
    <2>3. FactsStay
        BY <2>1, FactsGrow DEF graphVars
    <2> QED BY <2>1, <2>2, <2>3 DEF MergeInv, DoneSettled, CopiesSettled
<1>6. CASE Common("solve")
    <2>1. RepInv' /\ DoneSettled' /\ FieldInv' /\ (Solving => FactsStay)
        BY <1>6, RepInvCommon, FieldInvCommon, FactsCommon DEF MergeInv, Phases
    <2>2. CopiesSettled'
        <3>1. CASE phase' \in {"solve", "finalize", "done"}
            BY <3>1 DEF CopiesSettled
        <3>2. ASSUME phase' = phase, phase # "copies" PROVE CopiesSettled'
            BY <3>2 DEF CopiesSettled
        <3>3. ASSUME NEW c \in cycles, finishScc(c) \/ finishCollapse(c) PROVE CopiesSettled'
            BY <3>2, <3>3 DEF finishScc, finishCollapse, MergeInv, CopiesSettled
        <3>4. ASSUME NEW b \in toCollapse, collapseField(b) PROVE CopiesSettled'
            BY <3>2, <3>4 DEF collapseField, MergeInv, CopiesSettled
        <3>5. ASSUME NEW c \in prog.calls, resolveIndCall(c) PROVE CopiesSettled'
            BY <3>2, <3>5 DEF resolveIndCall
        <3>6. ASSUME NEW n \in redundantGepNodes, removeGepNode(n) PROVE CopiesSettled'
            BY <3>2, <3>6 DEF removeGepNode
        <3>7. CASE endIteration("solve")
            BY <3>1, <3>7 DEF endIteration
        <3> QED
            BY <1>6, <3>1, <3>2, <3>3, <3>4, <3>5, <3>6, <3>7 DEF Common, finish, Terminated, vars
    <2> QED BY <2>1, <2>2 DEF MergeInv
<1>7. CASE UNCHANGED solverVars
    <2>1. UNCHANGED vars
        BY <1>7 DEF solverVars
    <2>2. RepInv'
        BY <2>1, RepInvStutter DEF MergeInv
    <2>3. UNCHANGED <<pts, rep, phase, toCollapse, cycles, newCopies, fields, fieldInsensitive>>
        BY <2>1 DEF vars, graphVars, ptsVars, objectVars
    <2>4. FieldInv'
        BY <2>3, FieldInvFrame DEF MergeInv, FieldInv, BasesOnly, Solving
    <2>5. FactsStay
        BY <2>3, FactsGrow
    <2> QED BY <2>2, <2>3, <2>4, <2>5 DEF MergeInv, DoneSettled, CopiesSettled, Settled, Solving
<1> QED BY <1>1, <1>2, <1>3, <1>4, <1>5, <1>6, <1>7 DEF Next

(***************************************************************************)
(* The worklist starts with nothing merged and nothing collapsed.          *)
(***************************************************************************)
LEMMA MergeInvInit == Init => MergeInv
<1> SUFFICES ASSUME Init PROVE MergeInv
    OBVIOUS
<1>1. InitSolver("solve")
    BY DEF Init
<1>2. RepInv /\ DoneSettled /\ FieldInv
    BY <1>1, ProgramsStart, RepInvInit, FieldInvInit DEF Phases
<1>3. CopiesSettled
    BY <1>1, ProgramsStart DEF StartSolver, CopiesSettled
<1> QED BY <1>2, <1>3 DEF MergeInv

(***************************************************************************)
(* Lazy cycle detection keeps representatives, sub nodes and edges in      *)
(* step, whichever components it happens to find and merge.                *)
(***************************************************************************)
THEOREM LCDRepsInStep == Spec => []RepsAndSubs
<1>1. Init => TypeOK /\ MergeInv
    BY ProgramsStart, InitTypes, MergeInvInit DEF Init, Phases
<1>2. TypeOK /\ MergeInv /\ [Next]_solverVars => (TypeOK /\ MergeInv)'
    BY StepTypes, MergeStep
<1>3. MergeInv => RepsAndSubs
    BY DEF MergeInv, RepInv, RepMaps, EdgesAtReps, RepsAndSubs
<1> QED BY <1>1, <1>2, <1>3, PTL DEF Spec

(***************************************************************************)
(* No step of lazy cycle detection loses a fact, under the representative  *)
(* its node has by then.                                                   *)
(***************************************************************************)
THEOREM LCDNoFactLost == Spec => FactsKept
<1>1. Init => TypeOK /\ MergeInv
    BY ProgramsStart, InitTypes, MergeInvInit DEF Init, Phases
<1>2. TypeOK /\ MergeInv /\ [Next]_solverVars => (TypeOK /\ MergeInv)'
    BY StepTypes, MergeStep
<1>3. TypeOK /\ MergeInv /\ [Next]_solverVars
          => [Solving => \A n \in Nodes : Covers(pts'[rep'[n]], pts[rep[n]], fieldInsensitive')]_vars
    BY MergeStep DEF FactsStay, HasAfter
<1> QED BY <1>1, <1>2, <1>3, PTL DEF Spec, FactsKept

(***************************************************************************)
(* Once an object is collapsed no points-to set of the solver with lazy    *)
(* cycle detection holds a field of it.                                    *)
(***************************************************************************)
THEOREM LCDCollapsedForGood == Spec => []FieldsGone
<1>1. Init => TypeOK /\ MergeInv
    BY ProgramsStart, InitTypes, MergeInvInit DEF Init, Phases
<1>2. TypeOK /\ MergeInv /\ [Next]_solverVars => (TypeOK /\ MergeInv)'
    BY StepTypes, MergeStep
<1>3. MergeInv => FieldsGone
    BY DEF MergeInv, FieldInv
<1> QED BY <1>1, <1>2, <1>3, PTL DEF Spec
-----------------------------------------------------------------------------
(***************************************************************************)
(* What the graph remembers of the program, and that no gep edge starts    *)
(* where it ends: every step keeps both.                                   *)
(***************************************************************************)
LEMMA LinkInvStep == TypeOK /\ MergeInv /\ LinkInv /\ [Next]_solverVars => LinkInv'
<1> SUFFICES ASSUME TypeOK, MergeInv, LinkInv, [Next]_solverVars PROVE LinkInv'
    OBVIOUS
<1>1. RepInv /\ DoneSettled /\ FieldInv
    BY DEF MergeInv
<1>2. ASSUME mergeSCC \/ endWorklist \/ \E n \in Nodes : skipMerged(n) \/ handleLoadStore(n)
      PROVE  LinkInv'
    <2>1. /\ Solving /\ newCopies = {}
          /\ UNCHANGED <<graphVars, prog, ptsVars, objectVars, indCalls, varGepPtd, toCollapse>>
        BY <1>2 DEF mergeSCC, endWorklist, skipMerged, handleLoadStore, Solving, Settled, invariantVars
    <2> QED BY <2>1, LinkInvFrame DEF Collapsed, objectVars
<1>3. ASSUME NEW n \in Nodes, popFromWorklist(n) PROVE LinkInv'
    <2>1. /\ Solving /\ toCollapse = {} /\ (toCollapse' = {} \/ toCollapse' = ToCollapse(rep[n]))
          /\ UNCHANGED <<graphVars, prog, ptsVars, objectVars, indCalls, varGepPtd, newCopies>>
        BY <1>3 DEF popFromWorklist, Solving, Settled, invariantVars
    <2>2. Collapsed' = Collapsed
        BY <2>1, ToCollapseNew DEF Collapsed, objectVars
    <2> QED BY <2>1, <2>2, LinkInvFrame
<1>4. ASSUME NEW c \in cycles, NEW n \in c.left, mergeSrcToTgt(c, n) PROVE LinkInv'
    BY <1>1, <1>4, LinkInvMerge DEF mergeSrcToTgt
<1>5. ASSUME NEW n \in Nodes, processNode(n) PROVE LinkInv'
    <2>1. /\ toCollapse = {} /\ Solving /\ handleCopyGep(n, worklist)
          /\ UNCHANGED <<graphVars, prog, newCopies, redundantGepNodes, indCalls>>
        BY <1>5 DEF processNode, Solving, MergeInv, CopiesSettled
    <2> QED BY <2>1, LinkInvPropagate
<1>6. ASSUME NEW e \in newCopies, addCopyEdge(e) PROVE LinkInv'
    BY <1>1, <1>6, LinkInvAddEdge DEF addCopyEdge
<1>7. CASE Common("solve")
    BY <1>1, <1>7, LinkInvCommon DEF Phases
<1>8. CASE UNCHANGED solverVars
    <2>1. UNCHANGED <<graphVars, prog, ptsVars, objectVars, indCalls, varGepPtd, newCopies,
                      toCollapse, phase>>
        BY <1>8 DEF solverVars, vars, invariantVars
    <2>2. Solving' <=> Solving
        BY <2>1 DEF Solving
    <2>3. CASE Solving
        BY <2>1, <2>3, LinkInvFrame DEF Collapsed, objectVars
    <2>4. CASE ~Solving
        BY <2>1, <2>2, <2>4 DEF LinkInv, RedundantKnown, objectVars
    <2> QED BY <2>3, <2>4
<1> QED BY <1>2, <1>3, <1>4, <1>5, <1>6, <1>7, <1>8 DEF Next

\* No step changes the program; the last of the solving steps is endIteration.
LEMMA ProgramStays == [Next]_solverVars => prog' = prog
BY DEF Next, solverVars, vars, mergeSCC, mergeSrcToTgt, mergeNode, popFromWorklist, skipMerged,
       handleLoadStore, processNode, addCopyEdge, insertCopy, endWorklist, Common, finishScc,
       finishCollapse, collapseField, resolveIndCall, endIteration, removeGepNode, finish, Terminated

(***************************************************************************)
(* Only endIteration ends the solving.                                     *)
(***************************************************************************)
LEMMA LastStep == Next /\ Solving /\ ~Solving' => endIteration("solve")
BY DEF Next, mergeSCC, mergeSrcToTgt, mergeNode, popFromWorklist, skipMerged, handleLoadStore,
       processNode, addCopyEdge, insertCopy, endWorklist, Common, finishScc, finishCollapse,
       collapseField, resolveIndCall, removeGepNode, finish, Terminated, Solving, vars

(***************************************************************************)
(* What is left after the solving: removing the redundant fields, and the  *)
(* end.                                                                    *)
(***************************************************************************)
LEMMA FinalSteps ==
    ASSUME MergeInv, Next, ~Solving
    PROVE  finish \/ Terminated \/ \E n \in redundantGepNodes : removeGepNode(n)
<1>1. cycles = {} /\ toCollapse = {} /\ newCopies = {}
    BY DEF MergeInv, DoneSettled, Settled
<1> QED BY <1>1 DEF Next, mergeSCC, popFromWorklist, skipMerged, handleLoadStore, processNode,
        endWorklist, Common, resolveIndCall, endIteration, Solving

(***************************************************************************)
(* Every step keeps what NoSelfGeps says of the gep edges.                 *)
(***************************************************************************)
LEMMA NoSelfGepsStep == TypeOK /\ MergeInv /\ NoSelfGeps /\ [Next]_solverVars => NoSelfGeps'
<1> SUFFICES ASSUME TypeOK, MergeInv, NoSelfGeps, [Next]_solverVars PROVE NoSelfGeps'
    OBVIOUS
<1>1. CASE UNCHANGED gepE
    BY <1>1 DEF NoSelfGeps
<1>2. ASSUME NEW c \in cycles, NEW n \in c.left, mergeSrcToTgt(c, n) PROVE NoSelfGeps'
    <2>1. moveEdgesToRepNode(n, c.rep) /\ n \in Nodes /\ c.rep \in Nodes
        BY <1>2 DEF mergeSrcToTgt, mergeNode, TypeOK, Cycles
    <2> QED BY <2>1, SelfGepsMerge
<1>3. ASSUME ~\E c \in cycles : \E n \in c.left : mergeSrcToTgt(c, n)
      PROVE  UNCHANGED gepE
    BY <1>3 DEF Next, solverVars, vars, graphVars, mergeSCC, popFromWorklist, skipMerged,
        handleLoadStore, processNode, addCopyEdge, insertCopy, endWorklist, Common, finishScc,
        finishCollapse, collapseField, resolveIndCall, endIteration, removeGepNode, finish, Terminated
<1> QED BY <1>1, <1>2, <1>3

(***************************************************************************)
(* A node nothing points to stays without incoming edges.                  *)
(***************************************************************************)
LEMMA AloneStep ==
    ASSUME TypeOK, MergeInv, [Next]_solverVars, NEW v, Alone(v),
           \A n \in Nodes : v \notin pts[n],
           v \notin ObjNodes \/ toCollapse = {},
           \A c \in prog.calls : \A e \in c.params : e[2] # v
    PROVE  Alone(v)'
<1>1. RepInv /\ DoneSettled
    BY DEF MergeInv
<1>2. CASE mergeSCC
    <2>1. UNCHANGED <<graphVars, newCopies>>
        BY <1>2 DEF mergeSCC
    <2>2. PICK found \in {FoundFrom(lcdCandidates \cap Reps)} :
              \E root \in {f \in [found -> Reps] : \A c \in found : f[c] \in c} :
                  cycles' = {[rep |-> root[c], left |-> c \ {root[c]}, members |-> c,
                              geps |-> {}, scc |-> TRUE] : c \in found}
        BY <1>2 DEF mergeSCC
    <2>3. PICK root \in {f \in [found -> Reps] : \A c \in found : f[c] \in c} :
              cycles' = {[rep |-> root[c], left |-> c \ {root[c]}, members |-> c,
                          geps |-> {}, scc |-> TRUE] : c \in found}
        BY <2>2
    <2>4. found \subseteq BigComponents /\ \A c \in found : root[c] \in c
        BY <2>2, <2>3 DEF FoundFrom
    <2> QED BY <2>1, <2>3, <2>4, AloneFound
<1>3. ASSUME NEW c \in cycles, NEW n \in c.left, mergeSrcToTgt(c, n) PROVE Alone(v)'
    BY <1>1, <1>3, AloneMerge DEF mergeSrcToTgt
<1>4. ASSUME NEW n \in Nodes, handleLoadStore(n) PROVE Alone(v)'
    BY <1>4, AloneAsk DEF handleLoadStore
<1>5. ASSUME NEW e \in newCopies, addCopyEdge(e) PROVE Alone(v)'
    BY <1>5, AloneAddEdge DEF addCopyEdge
<1>6. ASSUME UNCHANGED <<graphVars, newCopies>>, cycles' \subseteq cycles PROVE Alone(v)'
    BY <1>6, AloneFrame DEF Alone
<1>7. ASSUME NEW n \in Nodes, popFromWorklist(n) \/ skipMerged(n) \/ processNode(n) PROVE Alone(v)'
    BY <1>6, <1>7 DEF popFromWorklist, skipMerged, processNode
<1>8. CASE endWorklist \/ UNCHANGED solverVars
    BY <1>6, <1>8 DEF endWorklist, solverVars, vars
<1>9. CASE Common("solve")
    BY <1>9, AloneCommon
<1> QED BY <1>2, <1>3, <1>4, <1>5, <1>7, <1>8, <1>9 DEF Next

-----------------------------------------------------------------------------
(***************************************************************************)
(* The dummy value of an allocator's call site gets its object when the    *)
(* call is resolved, and is not queued then.  That is enough: it has no    *)
(* edges before it has the object.                                         *)
(***************************************************************************)
Holds(h) == h[2] \in pts[h[1]]

DummyInv ==
    \A c \in prog.calls : \A h \in c.heap :
        /\ Alone(h[1])
        /\ c \in indCalls /\ c.argsMatch => Holds(h)
        /\ \A e \in copyE \cup newCopies : e[1] = h[1] => Holds(h)

\* Collapsing and merging leave a dummy its object.
LEMMA DummyHolds ==
    ASSUME TypeOK, MergeInv, Next, NEW h, h[1] \in Nodes, h[2] \in ObjNodes, Base[h[2]] = h[2],
           Alone(h[1]), Holds(h)
    PROVE  Holds(h)'
<1>1. CASE \A n \in Nodes : pts[n] \subseteq pts'[n]
    BY <1>1 DEF Holds
<1>2. ASSUME NEW b \in toCollapse, collapseField(b) PROVE Holds(h)'
    <2>1. pts'[h[1]] = CollapsedPts(h[1], AllFieldsObjNode(b), b)
        BY <1>2 DEF collapseField
    <2>2. h[2] \notin AllFieldsObjNode(b)
        BY DEF AllFieldsObjNode
    <2> QED BY <2>1, <2>2 DEF CollapsedPts, Holds
<1>3. ASSUME NEW c \in cycles, NEW n \in c.left, mergeSrcToTgt(c, n)
      PROVE  \A m \in Nodes : pts[m] \subseteq pts'[m]
    BY <1>3 DEF mergeSrcToTgt, mergeNode, unionPts, TypeOK, Cycles
<1>4. ASSUME NEW n \in Nodes, processNode(n) PROVE \A m \in Nodes : pts[m] \subseteq pts'[m]
    BY <1>4 DEF processNode, handleCopyGep
<1>5. ASSUME NEW c \in prog.calls, resolveIndCall(c) PROVE \A m \in Nodes : pts[m] \subseteq pts'[m]
    BY <1>5 DEF resolveIndCall
<1>6. CASE UNCHANGED pts
    BY <1>1, <1>6
<1>7. CASE Common("solve")
    <2>1. ASSUME \/ \E c \in cycles : finishScc(c) \/ finishCollapse(c)
                 \/ endIteration("solve") \/ finish \/ Terminated
                 \/ \E n \in redundantGepNodes : removeGepNode(n)
          PROVE  UNCHANGED pts
        BY <2>1 DEF finishScc, finishCollapse, endIteration, finish, Terminated, removeGepNode, vars,
            ptsVars
    <2> QED BY <1>1, <1>2, <1>5, <1>6, <1>7, <2>1 DEF Common
<1>8. ASSUME \/ mergeSCC \/ endWorklist \/ \E e \in newCopies : addCopyEdge(e)
             \/ \E n \in Nodes : popFromWorklist(n) \/ skipMerged(n) \/ handleLoadStore(n)
      PROVE  UNCHANGED pts
    BY <1>8 DEF mergeSCC, endWorklist, addCopyEdge, insertCopy, popFromWorklist, skipMerged,
        handleLoadStore, ptsVars
<1> QED BY <1>1, <1>2, <1>3, <1>4, <1>6, <1>7, <1>8 DEF Next

\* What an edge that starts at a dummy comes from.
LEMMA DummyEdges ==
    ASSUME TypeOK, MergeInv, DummyInv, Next,
           NEW c \in prog.calls, NEW h \in c.heap,
           NEW e \in copyE' \cup newCopies', e[1] = h[1]
    PROVE  Holds(h)'
<1>1. /\ h[1] \in Nodes \ ObjNodes /\ h[2] \in ObjNodes /\ Base[h[2]] = h[2]
      /\ Alone(h[1]) /\ RepInv /\ DoneSettled
    BY DummyTypes DEF DummyInv, MergeInv
<1>2. ASSUME e \in copyE \cup newCopies PROVE Holds(h)'
    BY <1>1, <1>2, DummyHolds DEF DummyInv
<1>3. ASSUME NEW d \in cycles, NEW n \in d.left, mergeSrcToTgt(d, n) PROVE Holds(h)'
    <2>1. mergeNode(d, n) /\ newCopies' = newCopies
        BY <1>3 DEF mergeSrcToTgt, mergeNode
    <2>2. h[1] # d.rep
        BY <1>1 DEF Alone, Block
    <2>3. CASE e \in copyE'
        <3>1. PICK x \in copyE : e = RetargetEdge(x, n, d.rep)
            BY <2>1, <2>3 DEF mergeNode, moveEdgesToRepNode, MovedCopies
        <3>2. x[1] = h[1]
            BY <2>2, <3>1 DEF RetargetEdge, Retarget
        <3>3. Holds(h)
            BY <3>1, <3>2 DEF DummyInv
        <3> QED BY <1>1, <3>3, DummyHolds
    <2> QED BY <1>2, <2>1, <2>3
<1>4. ASSUME NEW n \in Nodes, handleLoadStore(n) PROVE Holds(h)'
    <2>1. copyE' = copyE /\ newCopies' = NewEdges(LoadCopies(n) \cup StoreCopies(n))
        BY <1>4 DEF handleLoadStore, graphVars
    <2>2. \A x \in LoadCopies(n) \cup StoreCopies(n) : x[1] # h[1] /\ x[1] \in Nodes
        <3>1. pts[n] \subseteq ObjNodes /\ ObjNodes \subseteq Nodes /\ storeE \subseteq Edges
            BY GraphAssumption DEF TypeOK, PTS
        <3>2. \A x \in LoadCopies(n) : x[1] # h[1] /\ x[1] \in Nodes
            BY <1>1, <3>1 DEF LoadCopies
        <3>3. \A x \in StoreCopies(n) : x[1] # h[1] /\ x[1] \in Nodes
            BY <1>1, <3>1 DEF StoreCopies, Alone, Edges
        <3> QED BY <3>2, <3>3
    <2>3. e \notin newCopies'
        BY <1>1, <2>1, <2>2 DEF NewEdges, Alone
    <2> QED BY <1>2, <2>1, <2>3
<1>5. ASSUME NEW d \in prog.calls, resolveIndCall(d) PROVE Holds(h)'
    <2>1. copyE' = copyE
        BY <1>5 DEF resolveIndCall, graphVars
    <2>2. CASE e \in newCopies' /\ d.argsMatch
        <3>1. newCopies' = NewEdges(d.params)
            BY <1>5, <2>2 DEF resolveIndCall
        <3>2. PICK x \in d.params : e = <<rep[x[1]], rep[x[2]]>>
            BY <2>2, <3>1 DEF NewEdges
        <3>3. x[1] \in Nodes
            BY ProgramTypes DEF TypeOK, Edges
        <3>4. h \in d.heap
            BY <1>1, <3>2, <3>3, DummyTypes DEF Alone
        <3>5. pts'[h[1]] = pts[h[1]] \cup {o \in ObjNodes : <<h[1], o>> \in d.heap}
            BY <1>1, <1>5, <2>2 DEF resolveIndCall
        <3>6. h = <<h[1], h[2]>>
            <4>1. h \in Pointers \X WholeObjs
                BY DEF TypeOK, IsProgram, Calls
            <4> QED BY <4>1
        <3> QED BY <1>1, <3>4, <3>5, <3>6 DEF Holds
    <2>3. CASE ~(e \in newCopies' /\ d.argsMatch)
        BY <1>2, <1>5, <2>1, <2>3 DEF resolveIndCall
    <2> QED BY <2>2, <2>3
<1>6. CASE copyE' \cup newCopies' \subseteq copyE \cup newCopies
    BY <1>2, <1>6
<1>7. ASSUME NEW x \in newCopies, addCopyEdge(x) PROVE copyE' \cup newCopies' \subseteq copyE \cup newCopies
    BY <1>7 DEF addCopyEdge, insertCopy
<1>8. ASSUME \/ mergeSCC \/ endWorklist
             \/ \E n \in Nodes : popFromWorklist(n) \/ skipMerged(n) \/ processNode(n)
      PROVE  UNCHANGED <<copyE, newCopies>>
    BY <1>8 DEF mergeSCC, endWorklist, popFromWorklist, skipMerged, processNode, graphVars
<1>9. CASE Common("solve")
    <2>1. ASSUME \/ \E d \in cycles : finishScc(d) \/ finishCollapse(d)
                 \/ \E b \in toCollapse : collapseField(b)
                 \/ endIteration("solve") \/ finish \/ Terminated
                 \/ \E n \in redundantGepNodes : removeGepNode(n)
          PROVE  UNCHANGED <<copyE, newCopies>>
        BY <2>1 DEF finishScc, finishCollapse, collapseField, endIteration, finish, Terminated,
            removeGepNode, vars, graphVars
    <2> QED BY <1>5, <1>6, <1>9, <2>1 DEF Common
<1> QED BY <1>3, <1>4, <1>6, <1>7, <1>8, <1>9 DEF Next

(***************************************************************************)
(* Every step leaves the dummies alone and gives them their objects.       *)
(***************************************************************************)
LEMMA DummyStep == TypeOK /\ MergeInv /\ DummyInv /\ [Next]_solverVars => DummyInv'
<1> SUFFICES ASSUME TypeOK, MergeInv, DummyInv, [Next]_solverVars,
                    NEW c \in prog.calls, NEW h \in c.heap
             PROVE  /\ Alone(h[1])'
                    /\ c \in indCalls' /\ c.argsMatch => Holds(h)'
                    /\ \A e \in copyE' \cup newCopies' : e[1] = h[1] => Holds(h)'
    BY ProgramStays DEF DummyInv
<1>1. /\ h[1] \in Nodes \ ObjNodes /\ h[2] \in ObjNodes /\ Base[h[2]] = h[2]
      /\ Alone(h[1])
      /\ c \in indCalls /\ c.argsMatch => Holds(h)
      /\ \A e \in copyE \cup newCopies : e[1] = h[1] => Holds(h)
    BY DummyTypes DEF DummyInv
<1>2. Alone(h[1])'
    <2>1. \A n \in Nodes : h[1] \notin pts[n]
        BY <1>1 DEF TypeOK, PTS
    <2>2. \A d \in prog.calls : \A e \in d.params : e[2] # h[1]
        BY DummyTypes
    <2> QED BY <1>1, <2>1, <2>2, AloneStep
<1>3. CASE UNCHANGED solverVars
    BY <1>1, <1>2, <1>3 DEF solverVars, vars, graphVars, ptsVars, Holds
<1>4. CASE Next
    <2>1. ASSUME c \in indCalls', c.argsMatch PROVE Holds(h)'
        <3>1. CASE c \in indCalls
            BY <1>1, <1>4, <2>1, <3>1, DummyHolds
        <3>2. CASE c \notin indCalls
            <4>1. resolveIndCall(c)
                BY <1>4, <2>1, <3>2 DEF Next, mergeSCC, mergeSrcToTgt, mergeNode, popFromWorklist,
                    skipMerged, handleLoadStore, processNode, addCopyEdge, insertCopy, endWorklist,
                    Common, finishScc, finishCollapse, collapseField, resolveIndCall, endIteration,
                    removeGepNode, finish, Terminated, vars
            <4>2. pts'[h[1]] = pts[h[1]] \cup {o \in ObjNodes : <<h[1], o>> \in c.heap}
                BY <1>1, <2>1, <4>1 DEF resolveIndCall
            <4>3. h = <<h[1], h[2]>>
                <5>1. h \in Pointers \X WholeObjs
                    BY DEF TypeOK, IsProgram, Calls
                <5> QED BY <5>1
            <4> QED BY <1>1, <4>2, <4>3 DEF Holds
        <3> QED BY <3>1, <3>2
    <2> QED BY <1>2, <1>4, <2>1, DummyEdges
<1> QED BY <1>3, <1>4

(***************************************************************************)
(* At first only the dummies' own calls, not yet resolved, mention them.   *)
(***************************************************************************)
LEMMA DummyInvInit == Init => DummyInv
<1> SUFFICES ASSUME Init, NEW c \in prog.calls, NEW h \in c.heap
             PROVE  /\ Alone(h[1]) /\ c \notin indCalls
                    /\ \A e \in copyE \cup newCopies : e[1] # h[1]
    BY DEF DummyInv
<1>1. TypeOK /\ StartSolver("solve")
    BY ProgramsStart, InitTypes DEF Init, Phases
<1>2. Alone(h[1])
    BY <1>1, DummyTypes, AloneInit
<1> QED BY <1>1, <1>2, DummyTypes DEF StartSolver

-----------------------------------------------------------------------------
(***************************************************************************)
(* The solution.  A node is due when it is queued, under any of its names, *)
(* or has been popped and not got that far yet.  What is not due has been  *)
(* sent, and its loads and stores have their edges.                        *)
(***************************************************************************)
DueTo(n, phases) == Queued(n) # {} \/ (phase \in phases /\ n \in pending)

AllSentOrDue ==
    \A e \in DirectEdges(TRUE) : diffPts(e[1]) = {} \/ DueTo(e[1], {"loads", "copies"})

LoadsDone ==
    \A e \in prog.load :
        \/ DueTo(rep[e[1]], {"loads"})
        \/ \A o \in pts[rep[e[1]]] \ PointerlessObjs : Linked(o, e[2])
StoresDone ==
    \A e \in prog.store :
        \/ DueTo(rep[e[2]], {"loads"})
        \/ \A o \in pts[rep[e[2]]] \ PointerlessObjs : Linked(e[1], o)

OneAtATime ==
    /\ \A m \in pending, n \in pending : m = n
    /\ phase = "copies" => \A n \in pending : rep[n] = n
    /\ phase = "callgraph" => cycles = {} /\ toCollapse = {}
    /\ phase = "callgraph" /\ ~reanalyze => worklist = {} /\ newCopies = {}

AllSettled == GraphConstraintsHold /\ AccessesHold /\ \A c \in prog.calls : ~Resolvable(c)

FixInv ==
    /\ Solving => AllSentOrDue /\ LoadsDone /\ StoresDone /\ OneAtATime
    /\ phase = "finalize" /\ fieldInsensitive = {} => AllSettled

(***************************************************************************)
(* The loads and stores of a node stay done as long as it gains nothing.   *)
(***************************************************************************)
LEMMA AccessesStayDone ==
    ASSUME TypeOK, LoadsDone, StoresDone, prog' = prog,
           \A a \in Nodes, b \in Nodes : Linked(a, b) => Linked(a, b)',
           \A e \in prog.load : ~DueTo(rep[e[1]], {"loads"})' =>
               ~DueTo(rep[e[1]], {"loads"}) /\ pts'[rep'[e[1]]] \subseteq pts[rep[e[1]]],
           \A e \in prog.store : ~DueTo(rep[e[2]], {"loads"})' =>
               ~DueTo(rep[e[2]], {"loads"}) /\ pts'[rep'[e[2]]] \subseteq pts[rep[e[2]]]
    PROVE  LoadsDone' /\ StoresDone'
<1>1. \A e \in prog.load \cup prog.store : e[1] \in Nodes /\ e[2] \in Nodes
    BY ProgramTypes DEF TypeOK, Edges
<1>2. \A n \in Nodes : pts[rep[n]] \subseteq Nodes
    BY GraphAssumption DEF TypeOK, PTS
<1>3. ASSUME NEW e \in prog.load, ~DueTo(rep[e[1]], {"loads"})',
             NEW o \in pts'[rep'[e[1]]] \ PointerlessObjs
      PROVE  Linked(o, e[2])'
    <2>1. ~DueTo(rep[e[1]], {"loads"}) /\ o \in pts[rep[e[1]]] \ PointerlessObjs
        BY <1>3
    <2>2. Linked(o, e[2]) /\ o \in Nodes
        BY <1>1, <1>2, <2>1 DEF LoadsDone
    <2> QED BY <1>1, <2>2
<1>4. ASSUME NEW e \in prog.store, ~DueTo(rep[e[2]], {"loads"})',
             NEW o \in pts'[rep'[e[2]]] \ PointerlessObjs
      PROVE  Linked(e[1], o)'
    <2>1. ~DueTo(rep[e[2]], {"loads"}) /\ o \in pts[rep[e[2]]] \ PointerlessObjs
        BY <1>4
    <2>2. Linked(e[1], o) /\ o \in Nodes
        BY <1>1, <1>2, <2>1 DEF StoresDone
    <2> QED BY <1>1, <2>2
<1> QED BY <1>3, <1>4 DEF LoadsDone, StoresDone

(***************************************************************************)
(* Steps that merge nothing: who gains something is queued, and who was    *)
(* due still is.                                                           *)
(***************************************************************************)
LEMMA DoneFrame ==
    ASSUME TypeOK, RepMaps, LoadsDone, StoresDone, UNCHANGED <<prog, rep>>,
           copyE \cup newCopies \subseteq copyE' \cup newCopies',
           \A n \in Reps : DueTo(n, {"loads"}) => DueTo(n, {"loads"})',
           \A e \in prog.load : pts'[rep[e[1]]] \subseteq pts[rep[e[1]]] \/ rep[e[1]] \in worklist',
           \A e \in prog.store : pts'[rep[e[2]]] \subseteq pts[rep[e[2]]] \/ rep[e[2]] \in worklist'
    PROVE  LoadsDone' /\ StoresDone'
<1>1. \A e \in prog.load \cup prog.store : e[1] \in Nodes /\ e[2] \in Nodes
    BY ProgramTypes DEF TypeOK, Edges
<1>2. \A n \in Nodes : rep[n] \in Reps /\ rep[rep[n]] = rep[n]
    BY DEF TypeOK, RepMaps, Reps
<1>3. \A n \in Nodes : rep[n] \in worklist' => DueTo(rep[n], {"loads"})'
    BY <1>2 DEF DueTo, Queued
<1>4. \A a \in Nodes, b \in Nodes : Linked(a, b) => Linked(a, b)'
    BY LinkedFrame
<1>5. \A e \in prog.load : ~DueTo(rep[e[1]], {"loads"})' =>
          ~DueTo(rep[e[1]], {"loads"}) /\ pts'[rep'[e[1]]] \subseteq pts[rep[e[1]]]
    BY <1>1, <1>2, <1>3
<1>6. \A e \in prog.store : ~DueTo(rep[e[2]], {"loads"})' =>
          ~DueTo(rep[e[2]], {"loads"}) /\ pts'[rep'[e[2]]] \subseteq pts[rep[e[2]]]
    BY <1>1, <1>2, <1>3
<1> QED BY <1>4, <1>5, <1>6, AccessesStayDone

(***************************************************************************)
(* Steps that leave the representatives alone keep AllSentOrDue, when each *)
(* direct edge they leave has its source on the work list, or was there    *)
(* before and its source learnt nothing, forgot nothing it had sent and is *)
(* still on its way.                                                       *)
(***************************************************************************)
LEMMA SentFrame ==
    ASSUME TypeOK, RepMaps, EdgesAtReps, AllSentOrDue, UNCHANGED rep,
           \A e \in DirectEdges(TRUE)' :
               e[1] \in worklist'
               \/ /\ e \in DirectEdges(TRUE)
                  /\ pts'[e[1]] \subseteq pts[e[1]] /\ propa[e[1]] \subseteq propa'[e[1]]
                  /\ DueTo(e[1], {"loads", "copies"}) => DueTo(e[1], {"loads", "copies"})',
           EdgesAtReps'
    PROVE  AllSentOrDue'
<1> SUFFICES ASSUME NEW e \in DirectEdges(TRUE)'
             PROVE  diffPts(e[1])' = {} \/ DueTo(e[1], {"loads", "copies"})'
    BY DEF AllSentOrDue
<1>1. rep'[e[1]] = e[1]
    BY DEF EdgesAtReps, Reps
<1>2. CASE e[1] \in worklist'
    BY <1>1, <1>2 DEF DueTo, Queued
<1>3. CASE e[1] \notin worklist'
    <2>1. /\ e \in DirectEdges(TRUE)
          /\ pts'[e[1]] \subseteq pts[e[1]] /\ propa[e[1]] \subseteq propa'[e[1]]
          /\ DueTo(e[1], {"loads", "copies"}) => DueTo(e[1], {"loads", "copies"})'
        BY <1>3
    <2>2. diffPts(e[1]) = {} \/ DueTo(e[1], {"loads", "copies"})
        BY <2>1 DEF AllSentOrDue
    <2>3. diffPts(e[1]) = {} => diffPts(e[1])' = {}
        BY <2>1 DEF diffPts
    <2> QED BY <2>1, <2>2, <2>3
<1> QED BY <1>2, <1>3

Done == AllSentOrDue /\ LoadsDone /\ StoresDone

(***************************************************************************)
(* Steps that leave the graph, the facts and the queue alone.              *)
(***************************************************************************)
LEMMA DoneQuiet ==
    ASSUME TypeOK, MergeInv, Solving, Done,
           UNCHANGED <<graphVars, prog, ptsVars, newCopies, worklist, pending>>,
           phase' = phase \/ phase \notin {"loads", "copies"}
    PROVE  Done'
<1>1. /\ UNCHANGED <<rep, copyE, gepE, pts, propa>> /\ RepMaps /\ EdgesAtReps
      /\ AllSentOrDue /\ LoadsDone /\ StoresDone
    BY DEF MergeInv, RepInv, graphVars, ptsVars, Done
<1>2. \A n : Queued(n)' = Queued(n)
    BY <1>1 DEF Queued
<1>3. \A n : /\ DueTo(n, {"loads"}) => DueTo(n, {"loads"})'
             /\ DueTo(n, {"loads", "copies"}) => DueTo(n, {"loads", "copies"})'
    BY <1>2 DEF DueTo
<1>4. LoadsDone' /\ StoresDone'
    BY <1>1, <1>3, DoneFrame
<1>5. DirectEdges(TRUE)' = DirectEdges(TRUE)
    BY <1>1 DEF DirectEdges
<1>6. EdgesAtReps'
    BY <1>1, <1>5 DEF EdgesAtReps, Reps, graphVars
<1>7. AllSentOrDue'
    BY <1>1, <1>3, <1>5, <1>6, SentFrame
<1> QED BY <1>4, <1>7 DEF Done

(***************************************************************************)
(* Taking up a node: it stays due until it is processed.                   *)
(***************************************************************************)
LEMMA DonePop ==
    ASSUME TypeOK, MergeInv, Solving, Done, OneAtATime, NEW n \in Nodes,
           popFromWorklist(n) \/ skipMerged(n)
    PROVE  Done'
<1>1. /\ UNCHANGED <<rep, copyE, gepE, pts, propa, newCopies, prog, graphVars>>
      /\ RepMaps /\ EdgesAtReps /\ AllSentOrDue /\ LoadsDone /\ StoresDone
    BY DEF MergeInv, RepInv, graphVars, ptsVars, Done, popFromWorklist, skipMerged
<1>2. ASSUME NEW m \in Reps
      PROVE  /\ DueTo(m, {"loads"}) => DueTo(m, {"loads"})'
             /\ DueTo(m, {"loads", "copies"}) => DueTo(m, {"loads", "copies"})'
    <2>1. CASE popFromWorklist(n)
        <3>1. /\ phase = "solve" /\ phase' = "loads" /\ rep' = rep
              /\ worklist' = worklist \ {n} /\ pending' = {rep[n]}
            BY <2>1, <1>1 DEF popFromWorklist
        <3>2. Queued(m) # {} => Queued(m)' # {} \/ m \in pending'
            BY <3>1 DEF Queued
        <3> QED BY <3>1, <3>2 DEF DueTo
    <2>2. CASE skipMerged(n)
        <3>1. rep' = rep /\ worklist' = worklist /\ n \in pending /\ rep[n] # n
            BY <2>2, <1>1 DEF skipMerged
        <3>2. Queued(m)' = Queued(m)
            BY <3>1 DEF Queued
        <3>3. m \notin pending
            BY <3>1 DEF OneAtATime, Reps
        <3> QED BY <3>2, <3>3 DEF DueTo
    <2> QED BY <2>1, <2>2
<1>3. LoadsDone' /\ StoresDone'
    BY <1>1, <1>2, DoneFrame
<1>4. DirectEdges(TRUE)' = DirectEdges(TRUE) /\ \A e \in DirectEdges(TRUE) : e[1] \in Reps
    BY <1>1 DEF DirectEdges, EdgesAtReps
<1>5. EdgesAtReps'
    BY <1>1, <1>4 DEF EdgesAtReps, Reps, graphVars
<1>6. AllSentOrDue'
    BY <1>1, <1>2, <1>4, <1>5, SentFrame
<1> QED BY <1>3, <1>6 DEF Done

(***************************************************************************)
(* Handling the loads and stores of a node links all it points to.         *)
(***************************************************************************)
LEMMA DoneLoadStore ==
    ASSUME TypeOK, MergeInv, LinkInv, Solving, Done, OneAtATime, NEW n \in Nodes, handleLoadStore(n)
    PROVE  Done'
<1>1. /\ UNCHANGED <<rep, copyE, gepE, pts, propa, prog, graphVars, worklist, pending>>
      /\ newCopies = {} /\ newCopies' = NewEdges(LoadCopies(n) \cup StoreCopies(n))
      /\ phase = "loads" /\ phase' = "copies" /\ n \in pending
      /\ RepMaps /\ EdgesAtReps /\ AllSentOrDue /\ LoadsDone /\ StoresDone /\ AccessesKept
    BY DEF MergeInv, RepInv, LinkInv, Settled, graphVars, ptsVars, waveVars, Done, handleLoadStore
<1>2. \A m : Queued(m)' = Queued(m)
    BY <1>1 DEF Queued
<1>3. \A a, b : Linked(a, b) => Linked(a, b)'
    BY <1>1, LinkedFrame
<1>4. ASSUME NEW a, NEW b, <<a, b>> \in LoadCopies(n) \cup StoreCopies(n)
      PROVE  rep[a] = rep[b] \/ <<rep[a], rep[b]>> \in copyE' \cup newCopies'
    BY <1>1, <1>4 DEF NewEdges
<1>5. \A e \in prog.load \cup prog.store :
          e[1] \in Nodes /\ e[2] \in Nodes /\ rep[rep[e[1]]] = rep[e[1]] /\ rep[rep[e[2]]] = rep[e[2]]
    <2>1. \A e \in prog.load \cup prog.store : e[1] \in Nodes /\ e[2] \in Nodes
        BY ProgramTypes DEF TypeOK, Edges
    <2> QED BY <1>1, <2>1 DEF RepMaps, Reps
<1>6. ASSUME NEW e \in prog.load, ~DueTo(rep[e[1]], {"loads"})',
             NEW o \in pts[rep[e[1]]] \ PointerlessObjs
      PROVE  Linked(o, e[2])'
    <2>1. rep[e[1]] = n \/ ~DueTo(rep[e[1]], {"loads"})
        BY <1>1, <1>6 DEF DueTo, Queued, OneAtATime
    <2>2. CASE rep[e[1]] # n
        BY <1>1, <1>3, <1>6, <2>1, <2>2 DEF LoadsDone
    <2>3. CASE rep[e[1]] = n
        <3>1. <<n, rep[e[2]]>> \in loadE
            BY <1>1, <2>3 DEF AccessesKept
        <3>2. <<o, rep[e[2]]>> \in LoadCopies(n)
            BY <1>6, <2>3, <3>1 DEF LoadCopies
        <3>3. rep[o] = rep[e[2]] \/ <<rep[o], rep[e[2]]>> \in copyE' \cup newCopies'
            BY <1>4, <1>5, <3>2
        <3> QED BY <1>1, <3>3 DEF Linked
    <2> QED BY <2>2, <2>3
<1>7. ASSUME NEW e \in prog.store, ~DueTo(rep[e[2]], {"loads"})',
             NEW o \in pts[rep[e[2]]] \ PointerlessObjs
      PROVE  Linked(e[1], o)'
    <2>1. rep[e[2]] = n \/ ~DueTo(rep[e[2]], {"loads"})
        BY <1>1, <1>7 DEF DueTo, Queued, OneAtATime
    <2>2. CASE rep[e[2]] # n
        BY <1>1, <1>3, <1>7, <2>1, <2>2 DEF StoresDone
    <2>3. CASE rep[e[2]] = n
        <3>1. <<rep[e[1]], n>> \in storeE
            BY <1>1, <2>3 DEF AccessesKept
        <3>2. <<rep[e[1]], o>> \in StoreCopies(n)
            BY <1>7, <2>3, <3>1 DEF StoreCopies
        <3>3. rep[e[1]] = rep[o] \/ <<rep[e[1]], rep[o]>> \in copyE' \cup newCopies'
            BY <1>4, <1>5, <3>2
        <3> QED BY <1>1, <3>3 DEF Linked
    <2> QED BY <2>2, <2>3
<1>8. LoadsDone' /\ StoresDone'
    BY <1>1, <1>6, <1>7 DEF LoadsDone, StoresDone
<1>9. DirectEdges(TRUE)' = DirectEdges(TRUE)
    BY <1>1 DEF DirectEdges
<1>10. EdgesAtReps'
    BY <1>1, <1>9 DEF EdgesAtReps, Reps, graphVars
<1>11. \A m : DueTo(m, {"loads", "copies"}) => DueTo(m, {"loads", "copies"})'
    BY <1>1, <1>2 DEF DueTo
<1>12. AllSentOrDue'
    BY <1>1, <1>9, <1>10, <1>11, SentFrame
<1> QED BY <1>8, <1>12 DEF Done

(***************************************************************************)
(* Propagating: the node has sent all, and who gains is queued.            *)
(***************************************************************************)
LEMMA DoneProcess ==
    ASSUME TypeOK, MergeInv, NoSelfGeps, Solving, Done, OneAtATime, NEW n \in Nodes, processNode(n)
    PROVE  Done'
<1>1. /\ UNCHANGED <<rep, copyE, gepE, newCopies, prog, graphVars>>
      /\ phase = "copies" /\ n \in pending /\ handleCopyGep(n, worklist)
      /\ RepMaps /\ EdgesAtReps /\ AllSentOrDue /\ LoadsDone /\ StoresDone
    BY DEF MergeInv, RepInv, graphVars, Done, processNode
<1>2. /\ pts'[n] = pts[n] /\ propa'[n] = pts[n] /\ worklist \subseteq worklist'
      /\ \A d \in Nodes \ {n} : propa'[d] = propa[d] /\ (pts'[d] = pts[d] \/ d \in worklist')
    BY <1>1, PropagateSends
<1>3. \A m : Queued(m) \subseteq Queued(m)'
    BY <1>1, <1>2 DEF Queued
<1>4. \A m : DueTo(m, {"loads"}) => DueTo(m, {"loads"})'
    BY <1>1, <1>3 DEF DueTo
<1>5. \A e \in prog.load \cup prog.store : rep[e[1]] \in Nodes /\ rep[e[2]] \in Nodes
    BY ProgramTypes DEF TypeOK, Edges
<1>6. \A m \in Nodes : pts'[m] \subseteq pts[m] \/ m \in worklist'
    BY <1>2
<1>7. LoadsDone' /\ StoresDone'
    BY <1>1, <1>4, <1>5, <1>6, DoneFrame
<1>8. DirectEdges(TRUE)' = DirectEdges(TRUE)
    BY <1>1 DEF DirectEdges
<1>9. ASSUME NEW e \in DirectEdges(TRUE)
      PROVE  diffPts(e[1])' = {} \/ DueTo(e[1], {"loads", "copies"})'
    <2>1. e[1] \in Nodes /\ rep[e[1]] = e[1]
        BY <1>1 DEF EdgesAtReps, Reps
    <2>2. CASE e[1] = n
        BY <1>2, <2>2 DEF diffPts
    <2>3. CASE e[1] # n /\ e[1] \in worklist'
        BY <1>1, <2>1, <2>3 DEF DueTo, Queued
    <2>4. CASE e[1] # n /\ e[1] \notin worklist'
        <3>1. diffPts(e[1])' = diffPts(e[1])
            BY <1>2, <2>1, <2>4 DEF diffPts
        <3>2. e[1] \notin pending
            BY <1>1, <2>4 DEF OneAtATime
        <3>3. diffPts(e[1]) = {} \/ Queued(e[1]) # {}
            BY <1>1, <3>2 DEF AllSentOrDue, DueTo
        <3> QED BY <1>3, <3>1, <3>3 DEF DueTo
    <2> QED BY <2>2, <2>3, <2>4
<1>10. AllSentOrDue'
    BY <1>8, <1>9 DEF AllSentOrDue
<1> QED BY <1>7, <1>10 DEF Done

(***************************************************************************)
(* A new edge: its source is queued.                                       *)
(***************************************************************************)
LEMMA DoneAddEdge ==
    ASSUME TypeOK, MergeInv, MergeInv', Solving, Solving', Done, NEW e \in newCopies, addCopyEdge(e)
    PROVE  Done'
<1>1. /\ UNCHANGED <<rep, gepE, prog, pts, pending, phase>>
      /\ copyE' = copyE \cup {e} /\ newCopies' = newCopies \ {e}
      /\ propa' = [propa EXCEPT ![e[1]] = @ \cap propa[e[2]]]
      /\ worklist' = worklist \cup {e[1]}
      /\ RepMaps /\ EdgesAtReps /\ EdgesAtReps' /\ AllSentOrDue /\ LoadsDone /\ StoresDone
    BY DEF MergeInv, RepInv, waveVars, Done, addCopyEdge, insertCopy, updatePropaPts
<1>2. \A m : Queued(m) \subseteq Queued(m)'
    BY <1>1 DEF Queued
<1>3. \A m : /\ DueTo(m, {"loads"}) => DueTo(m, {"loads"})'
             /\ DueTo(m, {"loads", "copies"}) => DueTo(m, {"loads", "copies"})'
    BY <1>1, <1>2 DEF DueTo
<1>4. copyE \cup newCopies \subseteq copyE' \cup newCopies'
    BY <1>1
<1>5. LoadsDone' /\ StoresDone'
    BY <1>1, <1>3, <1>4, DoneFrame
<1>6. ASSUME NEW x \in DirectEdges(TRUE)', x[1] # e[1]
      PROVE  x \in DirectEdges(TRUE) /\ propa'[x[1]] = propa[x[1]]
    <2>1. x \in DirectEdges(TRUE)
        BY <1>1, <1>6 DEF DirectEdges
    <2>2. x[1] \in Nodes
        BY <1>1, <2>1 DEF EdgesAtReps, Reps
    <2> QED BY <1>1, <1>6, <2>1, <2>2 DEF TypeOK
<1>7. AllSentOrDue'
    BY <1>1, <1>3, <1>6, SentFrame
<1> QED BY <1>5, <1>7 DEF Done

(***************************************************************************)
(* A merge: the representative is queued, and whatever the other nodes had *)
(* to do is as it was.                                                     *)
(***************************************************************************)
LEMMA DoneMerge ==
    ASSUME TypeOK, MergeInv, Solving, Done,
           NEW c \in cycles, NEW node \in c.left, mergeSrcToTgt(c, node)
    PROVE  Done'
<1> DEFINE r == c.rep
<1>1. /\ mergeNode(c, node) /\ UNCHANGED <<prog, phase, pending>> /\ worklist' = worklist \cup {r}
      /\ RepInv /\ DoneSettled /\ RepMaps /\ EdgesAtReps /\ AllSentOrDue /\ LoadsDone /\ StoresDone
    BY DEF mergeSrcToTgt, mergeNode, waveVars, MergeInv, RepInv, Done
<1>2. /\ r \in Nodes /\ node \in Nodes /\ rep[r] = r /\ rep[node] = node /\ r # node
      /\ \A m \in Nodes : rep'[m] = IF rep[m] = node THEN r ELSE rep[m]
    BY <1>1, RepInvMerge DEF Reps
<1>3. \A n \in Nodes : n # r => pts'[n] = pts[n] /\ propa'[n] = propa[n]
    BY <1>1, <1>2 DEF TypeOK, mergeNode, unionPts, MergedPropa, updatePropaPts
<1>4. \A a \in Nodes, b \in Nodes : Linked(a, b) => Linked(a, b)'
    BY <1>1, LinkedMerge
<1>5. Queued(r)' # {}
    <2>1. r \in worklist' /\ rep'[r] = r
        BY <1>1, <1>2
    <2> QED BY <2>1 DEF Queued
<1>6. ASSUME NEW n \in Nodes, n # r, n # node PROVE Queued(n) \subseteq Queued(n)'
    <2>1. worklist \subseteq Nodes
        BY DEF TypeOK
    <2> QED BY <1>1, <1>2, <1>6, <2>1 DEF Queued
<1>7. ASSUME NEW n \in Nodes, n # r, n # node
      PROVE  /\ DueTo(n, {"loads"}) => DueTo(n, {"loads"})'
             /\ DueTo(n, {"loads", "copies"}) => DueTo(n, {"loads", "copies"})'
    BY <1>1, <1>6, <1>7 DEF DueTo
<1>8. ASSUME NEW m \in Nodes, ~DueTo(rep[m], {"loads"})'
      PROVE  ~DueTo(rep[m], {"loads"}) /\ pts'[rep'[m]] \subseteq pts[rep[m]]
    <2>1. rep'[m] # r
        BY <1>5, <1>8 DEF DueTo, Queued
    <2>2. rep'[m] = rep[m] /\ rep[m] # node /\ rep[m] # r /\ rep[m] \in Nodes
        BY <1>2, <2>1 DEF TypeOK
    <2>3. ~(Queued(rep[m])' # {}) /\ ~(phase' \in {"loads"} /\ rep[m] \in pending')
        BY <1>8, <2>2 DEF DueTo, Queued
    <2>4. Queued(rep[m]) = {}
        BY <2>2, <2>3, <1>1, <1>2 DEF Queued, TypeOK
    <2> QED BY <1>1, <1>3, <2>2, <2>3, <2>4 DEF DueTo
<1>9. LoadsDone' /\ StoresDone'
    <2>1. \A e \in prog.load \cup prog.store : e[1] \in Nodes /\ e[2] \in Nodes
        BY ProgramTypes DEF TypeOK, Edges
    <2> QED BY <1>1, <1>4, <1>8, <2>1, AccessesStayDone
<1>10. ASSUME NEW e \in DirectEdges(TRUE)', e[1] # r
       PROVE  e[1] \in Nodes \ {node} /\ \E x \in DirectEdges(TRUE) : x[1] = e[1]
    <2>1. moveEdgesToRepNode(node, r)
        BY <1>1 DEF mergeNode
    <2>2. CASE e \in copyE'
        <3>1. PICK x \in copyE : e = RetargetEdge(x, node, r)
            BY <2>1, <2>2 DEF moveEdgesToRepNode, MovedCopies
        <3>2. x \in DirectEdges(TRUE) /\ x[1] \in Nodes
            BY <3>1 DEF DirectEdges, TypeOK, Edges
        <3> QED BY <1>10, <3>1, <3>2 DEF RetargetEdge, Retarget
    <2>3. CASE e \notin copyE'
        <3>1. PICK g \in gepE' : e = <<g.src, g.dst>>
            BY <2>3 DEF DirectEdges
        <3>2. PICK h \in gepE : (g = h /\ ~Touches(h, node)) \/ g = RetargetGep(h, node, r)
            BY <2>1 DEF moveEdgesToRepNode, MovedGeps
        <3>3. <<h.src, h.dst>> \in DirectEdges(TRUE) /\ h.src \in Nodes
            BY <3>2 DEF DirectEdges, TypeOK, GepEdges
        <3>4. CASE g = h /\ ~Touches(h, node)
            BY <3>1, <3>3, <3>4 DEF Touches
        <3>5. CASE g = RetargetGep(h, node, r)
            <4>1. g.src = Retarget(h.src, node, r)
                BY <3>2, <3>5 DEF RetargetGep, TypeOK, GepEdges
            <4> QED BY <1>10, <3>1, <3>3, <4>1 DEF Retarget
        <3> QED BY <3>2, <3>4, <3>5
    <2> QED BY <2>2, <2>3
<1>11. ASSUME NEW e \in DirectEdges(TRUE)'
       PROVE  diffPts(e[1])' = {} \/ DueTo(e[1], {"loads", "copies"})'
    <2>1. CASE e[1] = r
        BY <1>5, <2>1 DEF DueTo
    <2>2. CASE e[1] # r
        <3>1. PICK x \in DirectEdges(TRUE) : x[1] = e[1]
            BY <1>10, <2>2
        <3>2. e[1] \in Nodes /\ e[1] # node
            BY <1>10, <2>2
        <3>3. diffPts(e[1]) = {} \/ DueTo(e[1], {"loads", "copies"})
            BY <1>1, <3>1 DEF AllSentOrDue
        <3>4. diffPts(e[1])' = diffPts(e[1])
            BY <1>3, <2>2, <3>2 DEF diffPts
        <3> QED BY <1>7, <2>2, <3>2, <3>3, <3>4
    <2> QED BY <2>1, <2>2
<1>12. AllSentOrDue'
    BY <1>11 DEF AllSentOrDue
<1> QED BY <1>9, <1>12 DEF Done

(***************************************************************************)
(* Collapsing: who pointed to a field is queued.                           *)
(***************************************************************************)
LEMMA DoneCollapse ==
    ASSUME TypeOK, MergeInv, Solving, Done, NEW b \in toCollapse, collapseField(b)
    PROVE  Done'
<1> DEFINE fs == AllFieldsObjNode(b)
           hit == {m \in Nodes : pts[m] \cap fs # {}}
<1>1. /\ UNCHANGED <<rep, copyE, gepE, newCopies, prog, graphVars, propa, phase, pending>>
      /\ worklist' = worklist \cup {rep[m] : m \in hit}
      /\ pts' = [m \in Nodes |-> CollapsedPts(m, fs, b)]
      /\ RepMaps /\ EdgesAtReps /\ AllSentOrDue /\ LoadsDone /\ StoresDone
    BY DEF MergeInv, RepInv, graphVars, waveVars, Done, collapseField
<1>2. \A m : Queued(m) \subseteq Queued(m)'
    BY <1>1 DEF Queued
<1>3. \A m : /\ DueTo(m, {"loads"}) => DueTo(m, {"loads"})'
             /\ DueTo(m, {"loads", "copies"}) => DueTo(m, {"loads", "copies"})'
    BY <1>1, <1>2 DEF DueTo
<1>4. \A m \in Reps : pts'[m] = pts[m] \/ m \in worklist'
    <2> SUFFICES ASSUME NEW m \in Reps PROVE pts'[m] = pts[m] \/ m \in worklist'
        OBVIOUS
    <2>1. m \in Nodes /\ rep[m] = m
        BY DEF Reps
    <2>2. CASE m \in hit
        BY <1>1, <2>1, <2>2
    <2>3. CASE m \notin hit
        BY <1>1, <2>1, <2>3 DEF CollapsedPts
    <2> QED BY <2>2, <2>3
<1>5. \A e \in prog.load \cup prog.store : rep[e[1]] \in Reps /\ rep[e[2]] \in Reps
    <2>1. \A e \in prog.load \cup prog.store : e[1] \in Nodes /\ e[2] \in Nodes
        BY ProgramTypes DEF TypeOK, Edges
    <2> QED BY <1>1, <2>1 DEF RepMaps
<1>6. /\ \A e \in prog.load : pts'[rep[e[1]]] \subseteq pts[rep[e[1]]] \/ rep[e[1]] \in worklist'
      /\ \A e \in prog.store : pts'[rep[e[2]]] \subseteq pts[rep[e[2]]] \/ rep[e[2]] \in worklist'
    BY <1>4, <1>5
<1>7. LoadsDone' /\ StoresDone'
    BY <1>1, <1>3, <1>6, DoneFrame
<1>8. DirectEdges(TRUE)' = DirectEdges(TRUE) /\ \A e \in DirectEdges(TRUE) : e[1] \in Reps
    BY <1>1 DEF DirectEdges, EdgesAtReps
<1>9. EdgesAtReps'
    BY <1>1, <1>8 DEF EdgesAtReps, Reps, graphVars
<1>10. AllSentOrDue'
    BY <1>1, <1>3, <1>4, <1>8, <1>9, SentFrame
<1> QED BY <1>7, <1>10 DEF Done

(***************************************************************************)
(* A resolved call gives new objects to dummies that have no edges yet.    *)
(***************************************************************************)
LEMMA DoneCall ==
    ASSUME TypeOK, MergeInv, DummyInv, Solving, Done, NEW c \in prog.calls, resolveIndCall(c)
    PROVE  Done'
<1>1. /\ UNCHANGED <<rep, copyE, gepE, prog, graphVars, propa, phase, pending, worklist>>
      /\ newCopies = {}
      /\ \A m \in Nodes : pts'[m] \subseteq pts[m] \cup {o \in ObjNodes : <<m, o>> \in c.heap}
      /\ RepMaps /\ EdgesAtReps /\ AllSentOrDue /\ LoadsDone /\ StoresDone
    BY DEF MergeInv, RepInv, Settled, graphVars, waveVars, Done, resolveIndCall
<1>2. \A m : Queued(m)' = Queued(m)
    BY <1>1 DEF Queued
<1>3. \A m : /\ DueTo(m, {"loads"}) => DueTo(m, {"loads"})'
             /\ DueTo(m, {"loads", "copies"}) => DueTo(m, {"loads", "copies"})'
    BY <1>1, <1>2 DEF DueTo
<1>4. ASSUME NEW m \in Nodes, \A h \in c.heap : h[1] = m => Holds(h)
      PROVE  pts'[m] \subseteq pts[m]
    <2>1. ASSUME NEW o, <<m, o>> \in c.heap PROVE o \in pts[m]
        <3>1. Holds(<<m, o>>)
            BY <1>4, <2>1
        <3> QED BY <3>1 DEF Holds
    <2> QED BY <1>1, <2>1
<1>6. ASSUME NEW m \in Nodes, \A h \in c.heap : h[1] # m
      PROVE  rep[m] \in Nodes /\ pts'[rep[m]] \subseteq pts[rep[m]]
    <2>1. rep[m] \in Nodes
        BY DEF TypeOK
    <2>2. \A h \in c.heap : h[1] # rep[m]
        BY <1>6 DEF DummyInv, Alone
    <2> QED BY <1>4, <2>1, <2>2
<1>7. /\ \A e \in prog.load : pts'[rep[e[1]]] \subseteq pts[rep[e[1]]]
      /\ \A e \in prog.store : pts'[rep[e[2]]] \subseteq pts[rep[e[2]]]
    <2>1. \A e \in prog.load \cup prog.store : e[1] \in Nodes /\ e[2] \in Nodes
        BY ProgramTypes DEF TypeOK, Edges
    <2>2. \A e \in prog.load \cup prog.store : \A h \in c.heap : h[1] # e[1] /\ h[1] # e[2]
        BY DummyTypes
    <2> QED BY <1>6, <2>1, <2>2
<1>8. LoadsDone' /\ StoresDone'
    BY <1>1, <1>3, <1>7, DoneFrame
<1>9. DirectEdges(TRUE)' = DirectEdges(TRUE)
    BY <1>1 DEF DirectEdges
<1>10. EdgesAtReps'
    BY <1>1, <1>9 DEF EdgesAtReps, Reps, graphVars
<1>11. ASSUME NEW e \in DirectEdges(TRUE) PROVE pts'[e[1]] \subseteq pts[e[1]]
    <2>1. e[1] \in Nodes
        BY <1>1 DEF EdgesAtReps, Reps
    <2>2. ASSUME NEW h \in c.heap, h[1] = e[1] PROVE Holds(h)
        <3>1. CASE e \in copyE
            BY <2>2, <3>1 DEF DummyInv
        <3>2. CASE e \notin copyE
            <4>1. PICK g \in gepE : e = <<g.src, g.dst>>
                BY <3>2 DEF DirectEdges
            <4> QED BY <2>2, <4>1 DEF DummyInv, Alone
        <3> QED BY <3>1, <3>2
    <2> QED BY <1>4, <2>1, <2>2
<1>12. AllSentOrDue'
    BY <1>1, <1>3, <1>9, <1>10, <1>11, SentFrame
<1> QED BY <1>8, <1>12 DEF Done

(***************************************************************************)
(* One node is taken up at a time, and calls are resolved when the queue   *)
(* has run dry.                                                            *)
(***************************************************************************)
LEMMA OneAtATimeStep ==
    ASSUME TypeOK, MergeInv, Solving, OneAtATime, Next, Solving'
    PROVE  OneAtATime'
<1>1. MergesApart /\ EdgesApart
    BY DEF MergeInv, RepInv
<1>2. CASE mergeSCC \/ endWorklist \/ \E n \in Nodes : skipMerged(n)
    BY <1>2 DEF mergeSCC, endWorklist, skipMerged, OneAtATime, Settled, waveVars
<1>3. ASSUME NEW n \in Nodes, popFromWorklist(n) \/ handleLoadStore(n) \/ processNode(n)
      PROVE  OneAtATime'
    BY <1>3 DEF popFromWorklist, handleLoadStore, processNode, OneAtATime, waveVars, graphVars
<1>4. ASSUME NEW c \in cycles, NEW n \in c.left, mergeSrcToTgt(c, n) PROVE OneAtATime'
    <2>1. phase # "copies" /\ phase # "callgraph"
        BY DEF MergeInv, CopiesSettled, OneAtATime
    <2> QED BY <1>4, <2>1 DEF mergeSrcToTgt, mergeNode, OneAtATime, waveVars
<1>5. ASSUME NEW e \in newCopies, addCopyEdge(e) PROVE OneAtATime'
    <2>1. /\ UNCHANGED <<pending, phase, rep, cycles, toCollapse, reanalyze>>
        BY <1>5 DEF addCopyEdge, insertCopy, waveVars
    <2>2. phase = "callgraph" => reanalyze
        BY DEF OneAtATime
    <2> QED BY <2>1, <2>2 DEF OneAtATime
<1>6. CASE Common("solve")
    <2>1. ASSUME NEW c \in cycles, finishScc(c) \/ finishCollapse(c) PROVE OneAtATime'
        BY <2>1 DEF finishScc, finishCollapse, OneAtATime, waveVars, graphVars
    <2>2. ASSUME NEW b \in toCollapse, collapseField(b) PROVE OneAtATime'
        BY <2>2 DEF collapseField, OneAtATime, waveVars, graphVars
    <2>3. ASSUME NEW c \in prog.calls, resolveIndCall(c) PROVE OneAtATime'
        BY <2>3 DEF resolveIndCall, OneAtATime, waveVars
    <2>4. CASE endIteration("solve")
        BY <2>4 DEF endIteration, OneAtATime, waveVars
    <2>5. ~(finish \/ Terminated \/ \E n \in redundantGepNodes : removeGepNode(n))
        BY DEF finish, Terminated, removeGepNode, Solving
    <2> QED BY <1>6, <2>1, <2>2, <2>3, <2>4, <2>5 DEF Common
<1> QED BY <1>2, <1>3, <1>4, <1>5, <1>6 DEF Next

(***************************************************************************)
(* Every step while solving keeps what is done done.                       *)
(***************************************************************************)
LEMMA DoneStep ==
    ASSUME TypeOK, MergeInv, MergeInv', LinkInv, NoSelfGeps, DummyInv, Solving, Solving', Done,
           OneAtATime, Next
    PROVE  Done'
<1>1. CASE mergeSCC
    BY <1>1, DoneQuiet DEF mergeSCC, waveVars
<1>2. CASE endWorklist
    BY <1>2, DoneQuiet DEF endWorklist, waveVars
<1>3. ASSUME NEW c \in cycles, NEW n \in c.left, mergeSrcToTgt(c, n) PROVE Done'
    BY <1>3, DoneMerge
<1>4. ASSUME NEW n \in Nodes,
             popFromWorklist(n) \/ skipMerged(n) \/ handleLoadStore(n) \/ processNode(n)
      PROVE  Done'
    BY <1>4, DonePop, DoneLoadStore, DoneProcess
<1>5. ASSUME NEW e \in newCopies, addCopyEdge(e) PROVE Done'
    BY <1>5, DoneAddEdge
<1>6. CASE Common("solve")
    <2>1. ASSUME NEW c \in cycles, finishScc(c) \/ finishCollapse(c) PROVE Done'
        BY <2>1, DoneQuiet DEF finishScc, finishCollapse, waveVars
    <2>2. ASSUME NEW b \in toCollapse, collapseField(b) PROVE Done'
        BY <2>2, DoneCollapse
    <2>3. ASSUME NEW c \in prog.calls, resolveIndCall(c) PROVE Done'
        BY <2>3, DoneCall
    <2>4. CASE endIteration("solve")
        BY <2>4, DoneQuiet DEF endIteration, waveVars
    <2>5. ~(finish \/ Terminated \/ \E n \in redundantGepNodes : removeGepNode(n))
        BY DEF finish, Terminated, removeGepNode, Solving
    <2> QED BY <1>6, <2>1, <2>2, <2>3, <2>4, <2>5 DEF Common
<1> QED BY <1>1, <1>2, <1>3, <1>4, <1>5, <1>6 DEF Next

(***************************************************************************)
(* When the solver stops nothing is due, so everything holds.              *)
(***************************************************************************)
LEMMA FixpointHolds ==
    ASSUME TypeOK, MergeInv, CopyInv, LinkInv, FixInv, AtFixpoint
    PROVE  AllSettled
<1>1. /\ Solving /\ RepInv /\ RepMaps /\ newCopies = {} /\ CopiesPropagated
      /\ AllSentOrDue /\ LoadsDone /\ StoresDone /\ worklist = {} /\ FieldInv
      /\ \A c \in prog.calls : ~Resolvable(c)
    BY DEF AtFixpoint, Solving, MergeInv, RepInv, FixInv, OneAtATime, Settled, CopyInv
<1>2. \A n, phases : "callgraph" \notin phases => ~DueTo(n, phases)
    BY <1>1 DEF DueTo, Queued, AtFixpoint
<1>3. AllSent
    BY <1>1, <1>2 DEF AllSent, AllSentOrDue
<1>4. GraphConstraintsHold
    BY <1>1, <1>3, GraphConstraints
<1>5. \A e \in prog.load \cup prog.store : e[1] \in Nodes /\ e[2] \in Nodes
    BY ProgramTypes DEF TypeOK, Edges
<1>6. \A n \in Nodes : pts[rep[n]] \subseteq Nodes
    BY GraphAssumption DEF TypeOK, PTS
<1>7. ASSUME NEW e \in prog.load PROVE LoadHolds(e)
    <2>1. ASSUME NEW o \in pts[rep[e[1]]] \ PointerlessObjs PROVE HasAll(getPts(e[2]), getPts(o))
        <3>1. Linked(o, e[2]) /\ o \in Nodes
            BY <1>1, <1>2, <1>5, <1>6 DEF LoadsDone
        <3> QED BY <1>1, <1>3, <1>5, <3>1, LinkedCopies
    <2> QED BY <2>1 DEF LoadHolds, getPts, sccRepNode
<1>8. ASSUME NEW e \in prog.store PROVE StoreHolds(e)
    <2>1. ASSUME NEW o \in pts[rep[e[2]]] \ PointerlessObjs PROVE HasAll(getPts(o), getPts(e[1]))
        <3>1. Linked(e[1], o) /\ o \in Nodes
            BY <1>1, <1>2, <1>5, <1>6 DEF StoresDone
        <3> QED BY <1>1, <1>3, <1>5, <3>1, LinkedCopies
    <2> QED BY <2>1 DEF StoreHolds, getPts, sccRepNode
<1> QED BY <1>1, <1>4, <1>7, <1>8 DEF AllSettled, AccessesHold

(***************************************************************************)
(* Every step keeps the invariant of the solution.                         *)
(***************************************************************************)
LEMMA FixStep ==
    TypeOK /\ MergeInv /\ CopyInv /\ LinkInv /\ NoSelfGeps /\ DummyInv /\ FixInv /\ [Next]_solverVars
        => FixInv'
<1> SUFFICES ASSUME TypeOK, MergeInv, CopyInv, LinkInv, NoSelfGeps, DummyInv, FixInv,
                    [Next]_solverVars
             PROVE  FixInv'
    OBVIOUS
<1>1. ASSUME UNCHANGED solverVars PROVE FixInv'
    <2>1. UNCHANGED <<graphVars, prog, ptsVars, newCopies, worklist, pending, phase, cycles,
                      toCollapse, reanalyze, fieldInsensitive, indCalls, impacted, varGepPtd>>
        BY <1>1 DEF solverVars, vars, waveVars, objectVars, invariantVars
    <2>2. Solving' <=> Solving
        BY <2>1 DEF Solving
    <2>3. Solving => Done'
        BY <2>1, DoneQuiet DEF FixInv, Done
    <2>4. OneAtATime => OneAtATime'
        BY <2>1 DEF OneAtATime, graphVars
    <2>5. phase = "finalize" /\ fieldInsensitive = {} => AllSettled'
        BY <2>1, SolutionFrame DEF AllSettled, FixInv, graphVars, ptsVars
    <2> QED BY <2>1, <2>2, <2>3, <2>4, <2>5 DEF FixInv, Done
<1>2. ASSUME Next, Solving, Solving' PROVE FixInv'
    <2>1. MergeInv'
        BY MergeStep
    <2>2. Done /\ OneAtATime
        BY <1>2 DEF FixInv, Done
    <2>3. Done' /\ OneAtATime'
        BY <1>2, <2>1, <2>2, DoneStep, OneAtATimeStep
    <2> QED BY <1>2, <2>3 DEF FixInv, Done, Solving
<1>3. ASSUME Next, Solving, ~Solving' PROVE FixInv'
    <2>1. endIteration("solve")
        BY <1>3, LastStep
    <2>2. AtFixpoint /\ UNCHANGED <<rep, gepE, prog, pts, fieldInsensitive, indCalls, varGepPtd, impacted>>
        BY <1>3, <2>1 DEF endIteration, AtFixpoint, Solving, graphVars, ptsVars, objectVars,
            invariantVars
    <2>3. AllSettled
        BY <2>2, FixpointHolds
    <2>4. AllSettled'
        BY <2>2, <2>3, SolutionFrame DEF AllSettled
    <2> QED BY <1>3, <2>4 DEF FixInv
<1>4. ASSUME Next, ~Solving PROVE FixInv'
    <2>1. finish \/ Terminated \/ (\E n \in redundantGepNodes : removeGepNode(n))
        BY <1>4, FinalSteps
    <2>2. CASE finish \/ Terminated
        BY <1>1, <2>2, <1>4 DEF finish, Terminated, FixInv, Solving, vars
    <2>3. ASSUME NEW n \in redundantGepNodes, removeGepNode(n) PROVE FixInv'
        BY <2>3 DEF removeGepNode, FixInv, LinkInv, RedundantKnown, Solving
    <2> QED BY <2>1, <2>2, <2>3
<1> QED BY <1>1, <1>2, <1>3, <1>4

(***************************************************************************)
(* All that points to anything is on the first worklist.                   *)
(***************************************************************************)
LEMMA FixInvInit == Init => FixInv
<1> SUFFICES ASSUME IsProgram(prog), StartSolver("solve") PROVE FixInv
    BY ProgramsStart DEF Init
<1>1. TypeOK
    BY InitTypes DEF Phases
<1>2. \A e \in prog.load \cup prog.store : e[1] \in Nodes /\ e[2] \in Nodes
    BY <1>1, ProgramTypes DEF TypeOK, Edges
<1>3. \A n \in Nodes : rep[n] = n /\ (n \in worklist \/ pts[n] = {})
    BY DEF StartSolver
<1>4. \A n \in Nodes : n \in worklist => DueTo(n, {"loads"}) /\ DueTo(n, {"loads", "copies"})
    BY <1>3 DEF DueTo, Queued
<1>5. \A e \in DirectEdges(TRUE) : e[1] \in Nodes
    BY <1>1 DEF DirectEdges, TypeOK, Edges, GepEdges
<1>6. AllSentOrDue
    BY <1>3, <1>4, <1>5 DEF AllSentOrDue, diffPts
<1>7. LoadsDone /\ StoresDone
    BY <1>2, <1>3, <1>4 DEF LoadsDone, StoresDone
<1>8. OneAtATime
    BY DEF StartSolver, OneAtATime
<1> QED BY <1>6, <1>7, <1>8 DEF StartSolver, FixInv, Solving

SolverInv == TypeOK /\ MergeInv /\ CopyInv /\ LinkInv /\ NoSelfGeps /\ DummyInv /\ FixInv

(***************************************************************************)
(* The invariant behind the results about the solution.                    *)
(***************************************************************************)
LEMMA SolverInvariant == Spec => []SolverInv
<1>1. Init => SolverInv
    <2>1. InitSolver("solve") => NoSelfGeps
        BY ProgramsStart DEF StartSolver, IsProgram, NoSelfGeps
    <2> QED
        BY <2>1, ProgramsStart, InitTypes, MergeInvInit, CopyInvInit, LinkInvInit, DummyInvInit, FixInvInit
        DEF Init, Phases, SolverInv
<1>2. SolverInv /\ [Next]_solverVars => SolverInv'
    BY StepTypes, MergeStep, CopyInvStep, LinkInvStep, NoSelfGepsStep, DummyStep, FixStep
       DEF SolverInv
<1> QED BY <1>1, <1>2, PTL DEF Spec

(***************************************************************************)
(* The worklist never runs dry early: when it is empty, no iteration has   *)
(* been asked for and no call is left to resolve, the constraints of the   *)
(* graph hold, and every load and store, of merged pointers too.           *)
(***************************************************************************)
THEOREM LCDStopsAtSolution == Spec => []SolutionReached
<1>1. SolverInv => SolutionReached
    BY FixpointHolds DEF SolverInv, SolutionReached, AllSettled
<1> QED BY <1>1, SolverInvariant, PTL

-----------------------------------------------------------------------------
(***************************************************************************)
(* No step collapses a field when the solver speculates.                   *)
(***************************************************************************)
LEMMA KeptStep == TypeOK /\ KeptInv /\ [Next]_solverVars => KeptInv'
<1> SUFFICES ASSUME TypeOK, KeptInv, [Next]_solverVars PROVE KeptInv'
    OBVIOUS
<1>1. CASE mergeSCC
    <2>1. \A c \in cycles' : c.scc
        BY <1>1 DEF mergeSCC
    <2> QED BY <1>1, <2>1, KeptFrame DEF mergeSCC, objectVars
<1>2. ASSUME NEW c \in cycles, NEW n \in c.left, mergeSrcToTgt(c, n) PROVE KeptInv'
    BY <1>2, KeptMerge DEF mergeSrcToTgt
<1>3. ASSUME NEW n, processNode(n) PROVE KeptInv'
    BY <1>3, KeptPropagate DEF processNode
<1>4. ASSUME NEW n, popFromWorklist(n) PROVE KeptInv'
    <2>1. UNCHANGED <<prog, fieldInsensitive, pwcNodes, cycles>> /\ toCollapse = {}
        BY <1>4 DEF popFromWorklist, objectVars, Settled
    <2>2. KeepsFields => toCollapse' = {}
        BY <1>4, KeptNeedsNone DEF popFromWorklist
    <2> QED BY <2>1, <2>2 DEF KeptInv, KeepsFields, InvariantVGEP, InvariantPWC, MergePWC
<1>5. ASSUME \/ \E n \in Nodes : skipMerged(n) \/ handleLoadStore(n)
             \/ endWorklist \/ UNCHANGED solverVars \/ \E e \in newCopies : addCopyEdge(e)
      PROVE  KeptInv'
    <2>1. UNCHANGED <<prog, fieldInsensitive, toCollapse, pwcNodes, cycles>>
        BY <1>5 DEF skipMerged, handleLoadStore, endWorklist, addCopyEdge, insertCopy, objectVars,
            vars, solverVars
    <2> QED BY <2>1, KeptFrame
<1>6. CASE Common("solve")
    BY <1>6, KeptCommon
<1> QED BY <1>1, <1>2, <1>3, <1>4, <1>5, <1>6 DEF Next

(***************************************************************************)
(* In the optimistic round lazy cycle detection always ends with every     *)
(* call connected and every load and store closed.                         *)
(***************************************************************************)
THEOREM LCDOptimisticSolution ==
    Spec => [](KeepsFields => fieldInsensitive = {} /\ CallsConnected /\ LoadStoreConstraintsHold)
<1>1. Init => KeptInv
    BY ProgramsStart, KeptInvInit DEF Init
<1>2. TypeOK /\ KeptInv /\ [Next]_solverVars => KeptInv'
    BY KeptStep
<1>3. SolverInv => TypeOK
    BY DEF SolverInv
<1>4. /\ SolverInv /\ fieldInsensitive = {} => CallsConnected /\ LoadStoreConstraintsHold
      /\ KeptInv /\ KeepsFields => fieldInsensitive = {}
    BY DEF SolverInv, FixInv, AllSettled, CallsConnected, GraphConstraintsHold,
           LoadStoreConstraintsHold, Solved, KeptInv
<1> QED BY <1>1, <1>2, <1>3, <1>4, SolverInvariant, PTL DEF Spec

-----------------------------------------------------------------------------
(***************************************************************************)
(* Every step keeps track of the geps, whichever components it merges.     *)
(***************************************************************************)
LEMMA GepStep == SolverInv /\ GepInv /\ [Next]_solverVars => GepInv'
<1> SUFFICES ASSUME SolverInv, GepInv, [Next]_solverVars, SingleDefs(prog)',
                    (Solving \/ fieldInsensitive = {})'
             PROVE  GepsTraced'
    BY DEF GepInv
<1>1. /\ TypeOK /\ RepInv /\ DoneSettled /\ RedundantKnown /\ prog' = prog
      /\ NoSelfGeps
    BY ProgramStays DEF SolverInv, MergeInv, LinkInv
<1>2. ASSUME ~Solving PROVE ~Solving' /\ fieldInsensitive' = fieldInsensitive
    <2>1. CASE Next
        <3>1. (\E n \in redundantGepNodes : removeGepNode(n)) \/ finish \/ Terminated
            BY <1>2, <2>1, FinalSteps DEF SolverInv
        <3> QED BY <1>2, <3>1 DEF removeGepNode, finish, Terminated, Solving, objectVars, vars
    <2>2. CASE UNCHANGED solverVars
        BY <1>2, <2>2 DEF Solving, objectVars, vars, solverVars
    <2> QED BY <2>1, <2>2
<1>3. (Solving \/ fieldInsensitive = {}) /\ SingleDefs(prog) /\ GepsTraced
    BY <1>1, <1>2 DEF GepInv
<1>4. CASE mergeSCC
    <2>1. UNCHANGED <<graphVars, newCopies, prog, pwcNodes, pwcInvariants>>
        BY <1>4 DEF mergeSCC, invariantVars
    <2>2. cycles = {} /\ EdgesAtReps /\ RepMaps
        BY <1>1, <1>4 DEF mergeSCC, Settled, RepInv, Solving
    <2>3. PICK found \in {FoundFrom(lcdCandidates \cap Reps)} :
              \E root \in {f \in [found -> Reps] : \A c \in found : f[c] \in c} :
                  cycles' = {[rep |-> root[c], left |-> c \ {root[c]}, members |-> c,
                              geps |-> {}, scc |-> TRUE] : c \in found}
        BY <1>4 DEF mergeSCC
    <2>4. PICK root \in {f \in [found -> Reps] : \A c \in found : f[c] \in c} :
              cycles' = {[rep |-> root[c], left |-> c \ {root[c]}, members |-> c,
                          geps |-> {}, scc |-> TRUE] : c \in found}
        BY <2>3
    <2>5. found \subseteq BigComponents /\ \A c \in found : root[c] \in c
        BY <2>3, <2>4 DEF FoundFrom
    <2> QED BY <1>1, <1>3, <2>1, <2>2, <2>4, <2>5, GepsFound
<1>5. ASSUME NEW c \in cycles, NEW n \in c.left, mergeSrcToTgt(c, n) PROVE GepsTraced'
    BY <1>1, <1>3, <1>5, GepsMerge DEF mergeSrcToTgt
<1>6. ASSUME NEW n \in Nodes, handleLoadStore(n) PROVE GepsTraced'
    BY <1>1, <1>3, <1>6, GepsAsk DEF handleLoadStore, invariantVars
<1>7. ASSUME NEW e \in newCopies, addCopyEdge(e) PROVE GepsTraced'
    BY <1>3, <1>7, GepsAddEdge DEF addCopyEdge
<1>8. ASSUME \/ \E n \in Nodes : popFromWorklist(n) \/ skipMerged(n) \/ processNode(n)
             \/ endWorklist \/ UNCHANGED solverVars
      PROVE  GepsTraced'
    <2>1. UNCHANGED <<graphVars, newCopies, cycles, prog, pwcNodes, pwcInvariants>>
        BY <1>8 DEF popFromWorklist, skipMerged, processNode, endWorklist, invariantVars, vars, solverVars
    <2> QED BY <1>3, <2>1, GepsStay
<1>9. CASE Common("solve")
    BY <1>1, <1>3, <1>9, GepsCommon
<1> QED BY <1>4, <1>5, <1>6, <1>7, <1>8, <1>9 DEF Next

(***************************************************************************)
(* Lazy cycle detection loses no gep of a program in SSA form but those it *)
(* merged into one node with a gep of their kind that adds no offset; with *)
(* both invariants its solution then satisfies every direct constraint,    *)
(* the geps of the recorded cycles excepted.                               *)
(***************************************************************************)
THEOREM LCDGepsAccounted ==
    Spec => [](SingleDefs(prog) /\ (\A g \in prog.gep : ~Swallowed(g))
                   => LostGepsAccounted /\ (KeepsFields /\ InvariantPWC => DirectConstraintsHold))
<1>1. Init => KeptInv /\ GepInv
    BY ProgramsStart, KeptInvInit, GepsInit DEF Init, GepInv
<1>2. SolverInv /\ KeptInv /\ [Next]_solverVars => KeptInv'
    BY KeptStep DEF SolverInv
<1>3. ASSUME SolverInv, KeptInv, GepInv, KeepsFields, InvariantPWC, Solved,
             SingleDefs(prog), \A g \in prog.gep : ~Swallowed(g)
      PROVE  DirectConstraintsHold
    <2>1. fieldInsensitive = {}
        BY <1>3 DEF KeptInv
    <2>2. TypeOK /\ cycles = {} /\ GraphConstraintsHold
        BY <1>3, <2>1 DEF SolverInv, MergeInv, DoneSettled, Settled, Solved, Solving, FixInv, AllSettled
    <2> QED BY <1>3, <2>1, <2>2, TracedDirect
<1>4. SolverInv /\ KeptInv /\ GepInv
          => (SingleDefs(prog) /\ (\A g \in prog.gep : ~Swallowed(g))
                  => LostGepsAccounted /\ (KeepsFields /\ InvariantPWC => DirectConstraintsHold))
    BY <1>3, TracedLost DEF SolverInv, DirectConstraintsHold
<1> QED BY <1>1, <1>2, <1>4, GepStep, SolverInvariant, PTL DEF Spec

-----------------------------------------------------------------------------
(***************************************************************************)
(* No step derives a fact the constraints do not.                          *)
(***************************************************************************)
LEMMA PreciseStep == TypeOK /\ MergeInv /\ PreciseInv /\ [Next]_solverVars => PreciseInv'
<1> SUFFICES ASSUME TypeOK, MergeInv, PreciseInv, [Next]_solverVars, NEW L, Closed(L)'
             PROVE  Within(L)'
    BY DEF PreciseInv
<1>1. Closed(L) /\ Within(L)
    BY ProgramStays DEF Closed, PreciseInv
<1>2. CASE mergeSCC
    <2>1. UNCHANGED <<graphVars, pts, newCopies>>
        BY <1>2 DEF mergeSCC, ptsVars
    <2>2. PICK found \in {FoundFrom(lcdCandidates \cap Reps)} :
              \E root \in {f \in [found -> Reps] : \A c \in found : f[c] \in c} :
                  cycles' = {[rep |-> root[c], left |-> c \ {root[c]}, members |-> c,
                              geps |-> {}, scc |-> TRUE] : c \in found}
        BY <1>2 DEF mergeSCC
    <2>3. PICK root \in {f \in [found -> Reps] : \A c \in found : f[c] \in c} :
              cycles' = {[rep |-> root[c], left |-> c \ {root[c]}, members |-> c,
                          geps |-> {}, scc |-> TRUE] : c \in found}
        BY <2>2
    <2>4. found \subseteq BigComponents /\ \A c \in found : root[c] \in c
        BY <2>2, <2>3 DEF FoundFrom
    <2> QED BY <1>1, <2>1, <2>3, <2>4, WithinFound
<1>3. ASSUME NEW c \in cycles, NEW n \in c.left, mergeSrcToTgt(c, n) PROVE Within(L)'
    BY <1>1, <1>3, WithinMerge DEF mergeSrcToTgt, MergeInv
<1>4. ASSUME NEW n \in Nodes, processNode(n) PROVE Within(L)'
    <2>1. UNCHANGED <<graphVars, newCopies, cycles>> /\ handleCopyGep(n, worklist)
        BY <1>4 DEF processNode
    <2> QED BY <1>1, <2>1, WithinPropagate
<1>5. ASSUME NEW n \in Nodes, handleLoadStore(n) PROVE Within(L)'
    <2>1. /\ UNCHANGED <<graphVars, pts, cycles>>
          /\ newCopies' = NewEdges(LoadCopies(n) \cup StoreCopies(n))
        BY <1>5 DEF handleLoadStore, ptsVars
    <2> QED BY <1>1, <2>1, WithinAsk
<1>6. ASSUME NEW e \in newCopies, addCopyEdge(e) PROVE Within(L)'
    BY <1>1, <1>6, WithinAddEdge DEF addCopyEdge
<1>7. ASSUME \/ \E n \in Nodes : popFromWorklist(n) \/ skipMerged(n)
             \/ endWorklist \/ UNCHANGED solverVars
      PROVE  Within(L)'
    <2>1. UNCHANGED <<graphVars, pts, newCopies, cycles>>
        BY <1>7 DEF popFromWorklist, skipMerged, endWorklist, vars, solverVars, ptsVars
    <2> QED BY <1>1, <2>1, WithinFrame
<1>8. CASE Common("solve")
    BY <1>1, <1>8, WithinCommon
<1> QED BY <1>2, <1>3, <1>4, <1>5, <1>6, <1>7, <1>8 DEF Next

(***************************************************************************)
(* No fact of lazy cycle detection, finalised or not, is outside the least *)
(* solution of the inclusion constraints.                                  *)
(***************************************************************************)
THEOREM LCDIsPrecise == Spec => []Precise
<1>1. Init => PreciseInv
    BY ProgramsStart, WithinInit DEF Init
<1>2. TypeOK /\ MergeInv /\ PreciseInv /\ [Next]_solverVars => PreciseInv'
    BY PreciseStep
<1>3. SolverInv => TypeOK /\ MergeInv
    BY DEF SolverInv
<1>4. TypeOK /\ PreciseInv => Precise
    BY FactsWithin
<1> QED BY <1>1, <1>2, <1>3, <1>4, SolverInvariant, PTL DEF Spec

-----------------------------------------------------------------------------
(***************************************************************************)
(* Positive weight cycles.  The objects that a representative of one       *)
(* points to are about to be collapsed, or the node is still queued: a     *)
(* merge queues the representative it makes, and so does whatever adds to  *)
(* a points-to set, a resolved call excepted.  That one only adds to the   *)
(* dummies, and those are on no cycle.                                     *)
(***************************************************************************)
CyclesCollapsed == \A n \in Reps \cap pwcNodes : ToCollapse(n) \subseteq toCollapse \/ Queued(n) # {}

CollapseInv ==
    /\ \A c \in prog.calls : \A h \in c.heap : h[1] \notin pwcNodes
    /\ \A c \in cycles : c.scc /\ c.geps # {} => Queued(c.rep) # {}
    /\ Solving /\ MergePWC => CyclesCollapsed

\* A node that gains nothing needs no other collapse.
LEMMA CollapsedFrame ==
    ASSUME CyclesCollapsed, rep' = rep, pwcNodes' \subseteq pwcNodes,
           \A n \in Reps \cap pwcNodes : pts'[n] = pts[n] \/ Queued(n)' # {},
           \A n \in Reps \cap pwcNodes :
               Queued(n) # {} => Queued(n)' # {} \/ ToCollapse(n) \subseteq toCollapse',
           fieldInsensitive \subseteq fieldInsensitive',
           toCollapse \subseteq toCollapse' \cup fieldInsensitive'
    PROVE  CyclesCollapsed'
<1> SUFFICES ASSUME NEW n \in Reps, n \in pwcNodes, ~(Queued(n)' # {})
             PROVE  ToCollapse(n)' \subseteq toCollapse'
    BY DEF CyclesCollapsed, Reps
<1>1. rep[n] = n /\ pts'[n] = pts[n]
    BY DEF Reps
<1>2. ToCollapse(n)' \subseteq ToCollapse(n) \ fieldInsensitive'
    BY <1>1 DEF ToCollapse, getPts, sccRepNode
<1>3. ToCollapse(n) \subseteq toCollapse \cup toCollapse'
    BY DEF CyclesCollapsed
<1> QED BY <1>2, <1>3

(***************************************************************************)
(* A merge queues its representative, and leaves the queue of the others   *)
(* as it was.                                                              *)
(***************************************************************************)
LEMMA CollapseInvMerge ==
    ASSUME SolverInv, CollapseInv, NEW c \in cycles, NEW node \in c.left, mergeSrcToTgt(c, node)
    PROVE  CollapseInv'
<1> DEFINE r == c.rep
           smaller == [c EXCEPT !.left = @ \ {node}, !.geps = @ \cup CriticalGeps(node, r)]
<1>1. /\ mergeNode(c, node) /\ TypeOK /\ RepInv /\ DoneSettled
      /\ UNCHANGED <<prog, phase, fieldInsensitive, toCollapse>> /\ worklist' = worklist \cup {r}
    BY DEF SolverInv, MergeInv, mergeSrcToTgt, mergeNode, objectVars
<1>2. Solving /\ MergesApart
    BY <1>1 DEF DoneSettled, Settled, RepInv
<1>3. /\ r \in Reps /\ node \in Reps /\ r # node
      /\ \A m \in Nodes : rep'[m] = IF rep[m] = node THEN r ELSE rep[m]
    BY <1>1, RepInvMerge
<1>4. /\ Reps' = Reps \ {node}
      /\ \A n \in Nodes : n # r => pts'[n] = pts[n]
      /\ pwcNodes' \subseteq pwcNodes \cup {r}
    BY <1>1, <1>3 DEF Reps, TypeOK, mergeNode, unionPts
<1>5. cycles' = (cycles \ {c}) \cup {smaller} /\ smaller.rep = r
    BY <1>1 DEF mergeNode, TypeOK, Cycles
<1> HIDE DEF smaller
<1>6. Queued(r)' # {}
    <2>1. r \in worklist' /\ rep'[r] = r
        BY <1>1, <1>3 DEF Reps
    <2> QED BY <2>1 DEF Queued
<1>7. \A n \in Nodes : n # node => Queued(n) \subseteq Queued(n)'
    <2>1. worklist \subseteq Nodes
        BY <1>1 DEF TypeOK
    <2> QED BY <1>1, <1>3, <2>1 DEF Queued
<1>8. ASSUME NEW d \in prog.calls, NEW h \in d.heap PROVE h[1] \notin pwcNodes'
    <2>1. h[1] # r
        BY DEF SolverInv, DummyInv, Alone, Block
    <2> QED BY <1>4, <2>1 DEF CollapseInv
<1>9. ASSUME NEW d \in cycles', d.scc, d.geps # {} PROVE Queued(d.rep)' # {}
    <2>1. CASE d = smaller
        BY <1>5, <1>6, <2>1
    <2>2. CASE d \in cycles \ {c}
        <3>1. Queued(d.rep) # {}
            BY <1>9, <2>2 DEF CollapseInv
        <3>2. d.rep \in Nodes /\ d.rep # node
            BY <1>2, <2>2 DEF MergesApart, Block, Reps
        <3> QED BY <1>7, <3>1, <3>2
    <2> QED BY <1>5, <2>1, <2>2
<1>10. ASSUME MergePWC PROVE CyclesCollapsed'
    <2>1. CyclesCollapsed
        BY <1>2, <1>10 DEF CollapseInv
    <2> SUFFICES ASSUME NEW n \in Reps', n \in pwcNodes', n # r
                 PROVE  ToCollapse(n)' \subseteq toCollapse' \/ Queued(n)' # {}
        BY <1>6 DEF CyclesCollapsed
    <2>2. n \in Reps \cap pwcNodes /\ n \in Nodes /\ n # node /\ rep'[n] = n /\ rep[n] = n
        BY <1>4 DEF Reps
    <2>3. ToCollapse(n)' = ToCollapse(n)
        BY <1>1, <1>4, <2>2 DEF ToCollapse, getPts, sccRepNode
    <2> QED BY <1>1, <1>7, <2>1, <2>2, <2>3 DEF CyclesCollapsed
<1> QED BY <1>1, <1>8, <1>9, <1>10 DEF CollapseInv, MergePWC

(***************************************************************************)
(* Taking up a node collapses what it points to before it sends anything,  *)
(* and who gains from it is queued.                                        *)
(***************************************************************************)
LEMMA CollapseInvNode ==
    ASSUME SolverInv, CollapseInv, NEW n \in Nodes,
           popFromWorklist(n) \/ skipMerged(n) \/ handleLoadStore(n) \/ processNode(n)
    PROVE  CollapseInv'
<1>1. /\ TypeOK /\ NoSelfGeps /\ cycles = {} /\ toCollapse = {} /\ Solving
      /\ UNCHANGED <<rep, prog, pwcNodes, cycles>>
    BY DEF SolverInv, MergeInv, CopiesSettled, Settled, popFromWorklist, skipMerged, handleLoadStore,
           processNode, Solving, graphVars
<1>2. RepMaps
    BY <1>1 DEF SolverInv, MergeInv, RepInv
<1>3. ASSUME MergePWC PROVE CyclesCollapsed'
    <2>1. CyclesCollapsed
        BY <1>1, <1>3 DEF CollapseInv
    <2>2. CASE popFromWorklist(n)
        <3>1. /\ UNCHANGED <<pts, fieldInsensitive>> /\ worklist' = worklist \ {n}
              /\ toCollapse' = IF NeedsCollapse(rep[n]) THEN ToCollapse(rep[n]) ELSE {}
            BY <2>2 DEF popFromWorklist, ptsVars, objectVars
        <3>2. rep[rep[n]] = rep[n]
            BY <1>2 DEF RepMaps, Reps
        <3>3. ASSUME NEW m \in Reps, m \in pwcNodes, Queued(m) # {}, ~(Queued(m)' # {})
              PROVE  ToCollapse(m) \subseteq toCollapse'
            <4>1. m = rep[n]
                BY <1>1, <3>1, <3>3 DEF Queued
            <4> QED BY <1>3, <3>1, <3>2, <3>3, <4>1 DEF NeedsCollapse, sccRepNode
        <3> QED BY <1>1, <2>1, <3>1, <3>3, CollapsedFrame
    <2>3. CASE skipMerged(n) \/ handleLoadStore(n)
        <3>1. UNCHANGED <<pts, worklist, fieldInsensitive, toCollapse>>
            BY <2>3 DEF skipMerged, handleLoadStore, ptsVars, objectVars
        <3>2. \A m : Queued(m)' = Queued(m)
            BY <1>1, <3>1 DEF Queued
        <3> QED BY <1>1, <2>1, <3>1, <3>2, CollapsedFrame
    <2>4. CASE processNode(n)
        <3>1. handleCopyGep(n, worklist)
            BY <2>4 DEF processNode
        <3>2. fieldInsensitive \subseteq fieldInsensitive'
            BY <3>1 DEF handleCopyGep
        <3>3. \A m \in Nodes : pts'[m] = pts[m] \/ m \in worklist'
            BY <1>1, <3>1, PropagateSends
        <3>4. \A m : Queued(m) \subseteq Queued(m)'
            BY <1>1, <3>1, PropagateSends DEF Queued
        <3>5. \A m \in Reps : pts'[m] = pts[m] \/ Queued(m)' # {}
            BY <1>1, <3>3 DEF Reps, Queued
        <3> QED BY <1>1, <2>1, <3>2, <3>4, <3>5, CollapsedFrame
    <2> QED BY <2>2, <2>3, <2>4
<1> QED BY <1>1, <1>3 DEF CollapseInv, MergePWC

(***************************************************************************)
(* The steps that do not depend on the loop, and those that change neither *)
(* the queue nor a points-to set.                                          *)
(***************************************************************************)
LEMMA CollapseInvCommon ==
    ASSUME SolverInv, CollapseInv, Common("solve")
    PROVE  CollapseInv'
<1>1. TypeOK /\ MergeInv /\ DummyInv
    BY DEF SolverInv
<1>2. ASSUME NEW c \in cycles, finishScc(c) \/ finishCollapse(c) PROVE CollapseInv'
    <2>1. /\ cycles' = cycles \ {c} /\ toCollapse \subseteq toCollapse'
          /\ UNCHANGED <<rep, prog, phase, worklist, pts, fieldInsensitive>>
          /\ pwcNodes' \subseteq pwcNodes \cup (IF c.scc /\ c.geps # {} THEN {c.rep} ELSE {})
        BY <1>2 DEF finishScc, finishCollapse, ptsVars, objectVars, graphVars
    <2>2. Solving /\ Reps' = Reps /\ MergePWC' = MergePWC
        BY <1>1, <2>1 DEF MergeInv, DoneSettled, Settled, Reps, MergePWC
    <2>3. \A m : Queued(m)' = Queued(m)
        BY <2>1 DEF Queued
    <2>4. \A d \in prog.calls : \A h \in d.heap : h[1] \notin pwcNodes'
        BY <1>1, <2>1 DEF CollapseInv, DummyInv, Alone, Block
    <2>5. ASSUME MergePWC, NEW n \in Reps, n \in pwcNodes'
          PROVE  ToCollapse(n)' \subseteq toCollapse' \/ Queued(n)' # {}
        <3>1. ToCollapse(n)' = ToCollapse(n)
            BY <2>1 DEF ToCollapse, getPts, sccRepNode
        <3>2. CASE n \in pwcNodes
            BY <2>1, <2>2, <2>3, <2>5, <3>1, <3>2 DEF CollapseInv, CyclesCollapsed
        <3>3. CASE c.scc /\ c.geps # {} /\ n = c.rep
            BY <2>3, <3>3 DEF CollapseInv
        <3> QED BY <2>1, <2>5, <3>2, <3>3
    <2> QED BY <2>1, <2>2, <2>3, <2>4, <2>5 DEF CollapseInv, CyclesCollapsed
<1>3. ASSUME NEW b \in toCollapse, collapseField(b) PROVE CollapseInv'
    <2> DEFINE hit == {m \in Nodes : pts[m] \cap AllFieldsObjNode(b) # {}}
    <2>1. /\ UNCHANGED <<rep, prog, pwcNodes>> /\ worklist' = worklist \cup {rep[m] : m \in hit}
          /\ toCollapse' = toCollapse \ {b} /\ fieldInsensitive' = fieldInsensitive \cup {b}
          /\ \A m \in Nodes : pts'[m] = CollapsedPts(m, AllFieldsObjNode(b), b)
          /\ \A c \in cycles' : ~c.scc
        BY <1>3 DEF collapseField, graphVars
    <2>2. Solving
        BY <1>1, <1>3 DEF MergeInv, DoneSettled, Settled
    <2>3. ASSUME NEW m \in Reps PROVE pts'[m] = pts[m] \/ Queued(m)' # {}
        <3>1. m \in Nodes /\ rep[m] = m
            BY DEF Reps
        <3>2. CASE m \in hit
            BY <2>1, <3>1, <3>2 DEF Queued
        <3>3. CASE m \notin hit
            BY <2>1, <3>1, <3>3 DEF CollapsedPts
        <3> QED BY <3>2, <3>3
    <2>4. \A m : Queued(m) \subseteq Queued(m)'
        BY <2>1 DEF Queued
    <2>5. ASSUME MergePWC PROVE CyclesCollapsed'
        <3>1. CyclesCollapsed
            BY <2>2, <2>5 DEF CollapseInv
        <3> QED BY <2>1, <2>3, <2>4, <3>1, CollapsedFrame
    <2> QED BY <2>1, <2>5 DEF CollapseInv, MergePWC
<1>4. ASSUME NEW c \in prog.calls, resolveIndCall(c) PROVE CollapseInv'
    <2>1. /\ UNCHANGED <<rep, prog, pwcNodes, cycles, worklist, toCollapse, fieldInsensitive>>
          /\ cycles = {} /\ Solving
          /\ \A m \in Nodes : \/ pts'[m] = pts[m]
                              \/ pts'[m] = pts[m] \cup {o \in ObjNodes : <<m, o>> \in c.heap}
        BY <1>4 DEF resolveIndCall, objectVars, graphVars, Settled, Solving
    <2>2. ASSUME NEW m \in Reps, m \in pwcNodes PROVE pts'[m] = pts[m]
        <3>1. m \in Nodes /\ \A h \in c.heap : h[1] # m
            BY <2>2 DEF Reps, CollapseInv
        <3>2. {o \in ObjNodes : <<m, o>> \in c.heap} = {}
            BY <3>1
        <3> QED BY <2>1, <3>1, <3>2
    <2>3. \A m : Queued(m)' = Queued(m)
        BY <2>1 DEF Queued
    <2>4. ASSUME MergePWC PROVE CyclesCollapsed'
        <3>1. CyclesCollapsed
            BY <2>1, <2>4 DEF CollapseInv
        <3> QED BY <2>1, <2>2, <2>3, <3>1, CollapsedFrame
    <2> QED BY <2>1, <2>4 DEF CollapseInv, MergePWC
<1>5. CASE endIteration("solve")
    <2>1. /\ UNCHANGED <<rep, prog, pwcNodes, cycles, worklist, toCollapse, fieldInsensitive, pts>>
          /\ cycles = {} /\ Solving
        BY <1>5 DEF endIteration, objectVars, graphVars, ptsVars, Settled, Solving
    <2>2. \A m : Queued(m)' = Queued(m)
        BY <2>1 DEF Queued
    <2>3. ASSUME MergePWC PROVE CyclesCollapsed'
        <3>1. CyclesCollapsed
            BY <2>1, <2>3 DEF CollapseInv
        <3> QED BY <2>1, <2>2, <3>1, CollapsedFrame
    <2> QED BY <2>1, <2>3 DEF CollapseInv, MergePWC
<1>6. CASE finish \/ Terminated \/ \E n \in redundantGepNodes : removeGepNode(n)
    <2>1. ~Solving' /\ cycles' = {} /\ UNCHANGED <<prog, pwcNodes>>
        BY <1>1, <1>6 DEF finish, Terminated, removeGepNode, Solving, MergeInv, DoneSettled, Settled, vars
    <2> QED BY <2>1 DEF CollapseInv
<1> QED BY <1>2, <1>3, <1>4, <1>5, <1>6 DEF Common

(***************************************************************************)
(* Every step of lazy cycle detection keeps its positive weight cycles     *)
(* collapsed or queued.                                                    *)
(***************************************************************************)
LEMMA CollapseInvStep == SolverInv /\ CollapseInv /\ [Next]_solverVars => CollapseInv'
<1> SUFFICES ASSUME SolverInv, CollapseInv, [Next]_solverVars PROVE CollapseInv'
    OBVIOUS
<1>1. ASSUME UNCHANGED <<rep, prog, pwcNodes, worklist, toCollapse, fieldInsensitive, pts>>,
             \A c \in cycles' : c \in cycles \/ c.geps = {}, Solving' => Solving
      PROVE  CollapseInv'
    <2>1. \A m : Queued(m)' = Queued(m)
        BY <1>1 DEF Queued
    <2>2. ASSUME MergePWC, Solving PROVE CyclesCollapsed'
        <3>1. CyclesCollapsed
            BY <2>2 DEF CollapseInv
        <3> QED BY <1>1, <2>1, <3>1, CollapsedFrame
    <2> QED BY <1>1, <2>1, <2>2 DEF CollapseInv, MergePWC
<1>2. CASE mergeSCC
    <2>1. /\ UNCHANGED <<rep, prog, pwcNodes, worklist, toCollapse, fieldInsensitive, pts>>
          /\ \A c \in cycles' : c.geps = {}
        BY <1>2 DEF mergeSCC, graphVars, ptsVars, objectVars, Solving
    <2>2. Solving
        BY <1>2 DEF mergeSCC, Solving
    <2> QED BY <1>1, <2>1, <2>2
<1>3. ASSUME NEW c \in cycles, NEW n \in c.left, mergeSrcToTgt(c, n) PROVE CollapseInv'
    BY <1>3, CollapseInvMerge
<1>4. ASSUME NEW n \in Nodes,
             popFromWorklist(n) \/ skipMerged(n) \/ handleLoadStore(n) \/ processNode(n)
      PROVE  CollapseInv'
    BY <1>4, CollapseInvNode
<1>5. ASSUME NEW e \in newCopies, addCopyEdge(e) PROVE CollapseInv'
    <2>1. /\ UNCHANGED <<rep, prog, pwcNodes, toCollapse, fieldInsensitive, pts, phase, cycles>>
          /\ worklist \subseteq worklist'
        BY <1>5 DEF addCopyEdge, insertCopy, objectVars
    <2>2. \A m : Queued(m) \subseteq Queued(m)'
        BY <2>1 DEF Queued
    <2>3. ASSUME MergePWC, Solving PROVE CyclesCollapsed'
        <3>1. CyclesCollapsed
            BY <2>3 DEF CollapseInv
        <3> QED BY <2>1, <2>2, <3>1, CollapsedFrame
    <2>4. \A c \in cycles' : c.scc /\ c.geps # {} => Queued(c.rep)' # {}
        BY <2>1, <2>2 DEF CollapseInv
    <2> QED BY <2>1, <2>3, <2>4 DEF CollapseInv, MergePWC, Solving
<1>6. CASE endWorklist
    BY <1>1, <1>6 DEF endWorklist, graphVars, ptsVars, objectVars, Solving
<1>7. CASE Common("solve")
    BY <1>7, CollapseInvCommon
<1>8. CASE UNCHANGED solverVars
    BY <1>1, <1>8 DEF solverVars, vars, graphVars, ptsVars, objectVars, Solving
<1> QED BY <1>2, <1>3, <1>4, <1>5, <1>6, <1>7, <1>8 DEF Next

-----------------------------------------------------------------------------
(***************************************************************************)
(* What is left of the solution once the fields of collapsed objects are   *)
(* removed: all of it, if none of them stands for another node.            *)
(***************************************************************************)
FinalInv ==
    /\ SetsBelow /\ FieldsJoined
    /\ phase = "finalize" => GraphConstraintsHold /\ AccessesHold /\ GepsHold

(***************************************************************************)
(* A node that was merged never has a fact its representative lacks, and a *)
(* redundant field is kept with its object.                                *)
(***************************************************************************)
LEMMA SetsAndFieldsStep ==
    TypeOK /\ MergeInv /\ DummyInv /\ SetsBelow /\ FieldsJoined /\ FieldsStandAlone /\ [Next]_solverVars
        => SetsBelow' /\ FieldsJoined'
<1> SUFFICES ASSUME TypeOK, MergeInv, DummyInv, SetsBelow, FieldsJoined, FieldsStandAlone,
                    [Next]_solverVars
             PROVE  SetsBelow' /\ FieldsJoined'
    OBVIOUS
<1>1. DummiesAlone
    BY DEF DummyInv, DummiesAlone
<1>2. ASSUME UNCHANGED <<pts, rep, redundantGepNodes>>, cycles = {} \/ cycles' = cycles
      PROVE  SetsBelow' /\ FieldsJoined'
    BY <1>2, JoinedFrame DEF SetsBelow
<1>3. CASE mergeSCC
    BY <1>2, <1>3 DEF mergeSCC, Settled, graphVars, ptsVars, objectVars
<1>4. ASSUME NEW c \in cycles, NEW n \in c.left, mergeSrcToTgt(c, n)
      PROVE  SetsBelow' /\ FieldsJoined'
    BY <1>4, SetsBelowMerge, JoinedMerge DEF mergeSrcToTgt, MergeInv
<1>5. ASSUME NEW n \in Nodes, processNode(n) PROVE SetsBelow' /\ FieldsJoined'
    <2>1. /\ UNCHANGED <<rep, redundantGepNodes, cycles>> /\ EdgesAtReps
          /\ handleCopyGep(n, worklist)
        BY <1>5 DEF processNode, graphVars, Solving, MergeInv, RepInv
    <2> QED BY <2>1, SetsBelowPropagate, JoinedFrame
<1>6. ASSUME \/ \E n \in Nodes : popFromWorklist(n) \/ skipMerged(n) \/ handleLoadStore(n)
             \/ endWorklist \/ UNCHANGED solverVars \/ \E e \in newCopies : addCopyEdge(e)
      PROVE  SetsBelow' /\ FieldsJoined'
    <2>1. UNCHANGED <<pts, rep, redundantGepNodes, cycles>>
        BY <1>6 DEF popFromWorklist, skipMerged, handleLoadStore, endWorklist, addCopyEdge, insertCopy,
            graphVars, ptsVars, objectVars, vars, solverVars
    <2> QED BY <1>2, <2>1
<1>7. CASE Common("solve")
    BY <1>1, <1>7, SetsBelowCommon, JoinedCommon DEF MergeInv
<1> QED BY <1>3, <1>4, <1>5, <1>6, <1>7 DEF Next

(***************************************************************************)
(* The last iteration ends at a solution, and removing a field that stands *)
(* alone changes no answer.                                                *)
(***************************************************************************)
LEMMA FinalStep ==
    SolverInv /\ GepInv /\ CollapseInv /\ FinalInv /\ FieldsStandAlone /\ [Next]_solverVars => FinalInv'
<1> SUFFICES ASSUME SolverInv, GepInv, CollapseInv, FinalInv, FieldsStandAlone, [Next]_solverVars
             PROVE  FinalInv'
    OBVIOUS
<1>1. /\ TypeOK /\ MergeInv /\ RedundantKnown /\ SetsBelow /\ FieldsJoined
      /\ phase = "finalize" => GraphConstraintsHold /\ AccessesHold /\ GepsHold
    BY DEF SolverInv, LinkInv, FinalInv
<1>2. SetsBelow' /\ FieldsJoined'
    BY <1>1, SetsAndFieldsStep DEF SolverInv
<1>3. CASE Next /\ Solving /\ phase' = "finalize"
    <2>1. endIteration("solve")
        BY <1>3, LastStep DEF Solving
    <2>2. /\ AtFixpoint
          /\ UNCHANGED <<rep, gepE, prog, pts, fieldInsensitive, indCalls, varGepPtd, pwcInvariants>>
        BY <2>1, <1>3 DEF endIteration, AtFixpoint, graphVars, ptsVars, objectVars, invariantVars
    <2>3. GraphConstraintsHold /\ AccessesHold
        BY <2>2, FixpointHolds DEF SolverInv, AllSettled
    <2>4. worklist = {} /\ cycles = {} /\ toCollapse = {} /\ RepMaps /\ FieldsGone
        BY <1>3, <2>2 DEF AtFixpoint, Settled, SolverInv, FixInv, OneAtATime, MergeInv, RepInv, FieldInv
    <2>5. MergePWC => \A n \in Reps \cap pwcNodes : ToCollapse(n) = {}
        BY <1>3, <2>4 DEF CollapseInv, CyclesCollapsed, Queued
    <2>6. GepsHold
        BY <1>1, <1>3, <2>3, <2>4, <2>5, TracedGepsHold
    <2> QED BY <1>1, <1>2, <2>2, <2>3, <2>6, SolutionFrame, GepsHoldFrame DEF FinalInv, Pointers
<1>4. ASSUME NEW n \in redundantGepNodes, removeGepNode(n) PROVE FinalInv'
    <2>1. phase = "finalize"
        BY <1>4 DEF removeGepNode
    <2> QED BY <1>1, <1>2, <1>4, <2>1, RemovalFrame, GepsHoldRemoval DEF MergeInv, FinalInv
<1>5. CASE Next /\ ~Solving
    <2>1. finish \/ Terminated \/ \E n \in redundantGepNodes : removeGepNode(n)
        BY <1>1, <1>5, FinalSteps
    <2> QED BY <1>2, <1>4, <2>1 DEF finish, Terminated, vars, FinalInv
<1>6. CASE phase' # "finalize"
    BY <1>2, <1>6 DEF FinalInv
<1>7. CASE UNCHANGED solverVars
    <2>1. /\ phase' = phase
          /\ UNCHANGED <<rep, gepE, prog, pts, fieldInsensitive, indCalls, varGepPtd, pwcInvariants>>
        BY <1>7 DEF vars, solverVars, graphVars, ptsVars, objectVars, invariantVars
    <2> QED BY <1>1, <1>2, <2>1, SolutionFrame, GepsHoldFrame DEF FinalInv, Pointers
<1> QED BY <1>3, <1>5, <1>6, <1>7

(***************************************************************************)
(* Collapsing loses nothing but what the fields it makes redundant stand   *)
(* for: if that is nothing, no object collapsed being the simplest case.   *)
(***************************************************************************)
LEMMA FinalInvariant == Spec /\ []FieldsStandAlone => []FinalInv
<1>1. Init => FinalInv /\ CollapseInv /\ GepInv
    <2> SUFFICES ASSUME IsProgram(prog), StartSolver("solve") PROVE FinalInv /\ CollapseInv /\ GepInv
        BY ProgramsStart DEF Init
    <2>1. GepInv
        BY GepsInit DEF GepInv
    <2> QED BY <2>1 DEF StartSolver, FinalInv, SetsBelow, FieldsJoined, CollapseInv, CyclesCollapsed
<1> QED BY <1>1, SolverInvariant, GepStep, CollapseInvStep, FinalStep, PTL DEF Spec

(***************************************************************************)
(* Whatever objects were collapsed, every load and store is closed when    *)
(* lazy cycle detection is done, through merged pointers too, unless       *)
(* finalisation removes a field that represents another node.              *)
(***************************************************************************)
THEOREM LCDLoadsAndStores == Spec /\ []FieldsStandAlone => []LoadStoreConstraintsHold
<1>1. FinalInv => LoadStoreConstraintsHold
    BY DEF FinalInv, LoadStoreConstraintsHold, Solved
<1> QED BY <1>1, FinalInvariant, PTL

(***************************************************************************)
(* So is every resolvable indirect call connected.                         *)
(***************************************************************************)
THEOREM LCDCalls == Spec /\ []FieldsStandAlone => []CallsConnected
<1>1. FinalInv => CallsConnected
    BY DEF FinalInv, CallsConnected, GraphConstraintsHold, Solved
<1> QED BY <1>1, FinalInvariant, PTL

(***************************************************************************)
(* The addresses, copies and geps of a program in SSA form of which no gep *)
(* was swallowed are satisfied: a gep that a merge took out of the graph   *)
(* is in a recorded cycle, or in a node whose objects have all been        *)
(* collapsed.  In any program they are if each gep is in the graph or      *)
(* recorded.                                                               *)
(***************************************************************************)
THEOREM LCDDirect ==
    Spec /\ []FieldsStandAlone
        => [](GepsTraceable \/ (\A g \in prog.gep : Monitored(g) \/ InGraph(g))
                  => DirectConstraintsHold)
<1>1. FinalInv => (GepsTraceable \/ (\A g \in prog.gep : Monitored(g) \/ InGraph(g))
                       => DirectConstraintsHold)
    BY DEF FinalInv, DirectConstraintsHold, GraphConstraintsHold, GepsHold, Solved
<1> QED BY <1>1, FinalInvariant, PTL

(***************************************************************************)
(* A step of lazy cycle detection infers something or changes nothing, and *)
(* finalisation changes nothing while fields stand alone.                  *)
(***************************************************************************)
LEMMA InclusionStep ==
    ASSUME SolverInv, PreciseInv, [Next]_solverVars, SolverInv', PreciseInv',
           Solving \/ (FinalInv /\ FieldsStandAlone)
    PROVE  [Inclusion!AbsNext]_Inclusion!absVars
<1>1. TypeOK /\ TypeOK' /\ MergeInv /\ MergeInv' /\ prog' = prog /\ RedundantKnown
    BY ProgramStays DEF SolverInv, LinkInv
<1>2. ASSUME Facts' = Facts, phase \in {"finalize", "done"} <=> phase' \in {"finalize", "done"}
      PROVE  UNCHANGED Inclusion!absVars
    <2>1. (phase \in {"finalize", "done"})' = (phase \in {"finalize", "done"})
        BY <1>2
    <2> QED BY <1>1, <1>2, <2>1 DEF Inclusion!absVars
<1>3. ASSUME UNCHANGED <<pts, rep>>, phase \in {"finalize", "done"} <=> phase' \in {"finalize", "done"}
      PROVE  UNCHANGED Inclusion!absVars
    <2>1. Facts' = Facts
        BY <1>3 DEF Facts, getPts, sccRepNode
    <2> QED BY <1>2, <1>3, <2>1
<1>4. CASE UNCHANGED solverVars
    BY <1>3, <1>4 DEF solverVars, vars, graphVars, ptsVars
<1>5. CASE Next /\ Solving /\ Solving'
    <2>1. FactsStay
        BY <1>1, <1>5, MergeStep
    <2> QED BY <1>1, <1>5, <2>1, FactsDerived DEF Inclusion!AbsNext
<1>6. CASE Next /\ Solving /\ ~Solving'
    <2>1. endIteration("solve")
        BY <1>6, LastStep
    <2>2. AtFixpoint /\ UNCHANGED <<prog, pts, rep>>
        BY <1>6, <2>1 DEF endIteration, AtFixpoint, Solving, graphVars, ptsVars
    <2>3. GraphConstraintsHold
        BY <2>2, FixpointHolds DEF SolverInv, AllSettled
    <2> QED BY <1>1, <1>6, <2>2, <2>3, FactsFinish DEF Inclusion!AbsNext
<1>7. CASE Next /\ ~Solving
    <2>1. finish \/ Terminated \/ \E n \in redundantGepNodes : removeGepNode(n)
        BY <1>1, <1>7, FinalSteps
    <2>2. CASE finish \/ Terminated
        BY <1>3, <1>7, <2>2 DEF finish, Terminated, vars, graphVars, ptsVars, Solving
    <2>3. ASSUME NEW n \in redundantGepNodes, removeGepNode(n) PROVE UNCHANGED Inclusion!absVars
        <3>1. Facts' = Facts
            BY <1>1, <1>7, <2>3, RemovalFrame DEF MergeInv, FinalInv
        <3> QED BY <1>2, <2>3, <3>1 DEF removeGepNode
    <2> QED BY <2>1, <2>2, <2>3
<1> QED BY <1>4, <1>5, <1>6, <1>7

(***************************************************************************)
(* Lazy cycle detection implements the inclusion constraints, like the     *)
(* wave, and finalisation changes nothing, unless it removes a field that  *)
(* represents another node.                                                *)
(***************************************************************************)
THEOREM LCDImplementsInclusion ==
    Spec => /\ Inclusion!AbsInit
            /\ [][Solving => Inclusion!AbsNext]_Inclusion!absVars
            /\ []FieldsStandAlone => [][Inclusion!AbsNext]_Inclusion!absVars
<1>1. Init => PreciseInv /\ Inclusion!AbsInit
    BY ProgramsStart, WithinInit, FactsInit DEF Init
<1>2. SolverInv /\ PreciseInv /\ [Next]_solverVars => PreciseInv'
    BY PreciseStep DEF SolverInv
<1>3. SolverInv /\ PreciseInv /\ [Next]_solverVars /\ SolverInv' /\ PreciseInv'
          => [Solving => Inclusion!AbsNext]_Inclusion!absVars
    BY InclusionStep
<1>4. SolverInv /\ PreciseInv /\ FinalInv /\ FieldsStandAlone /\ [Next]_solverVars /\ SolverInv'
      /\ PreciseInv' => [Inclusion!AbsNext]_Inclusion!absVars
    BY InclusionStep
<1> QED BY <1>1, <1>2, <1>3, <1>4, SolverInvariant, FinalInvariant, PTL DEF Spec

-----------------------------------------------------------------------------
(***************************************************************************)
(* Programs without geps.  No field node ever comes to life: it has no     *)
(* incoming edges and holds nothing, so nodes and facts are the ones the   *)
(* inclusion constraints speak of.                                         *)
(***************************************************************************)
FlatInv ==
    prog.gep = {} =>
        /\ gepE = {} /\ pwcNodes = {} /\ fieldInsensitive = {} /\ toCollapse = {}
        /\ \A c \in cycles : c.scc /\ c.geps = {}
        /\ \A n \in Nodes : pts[n] \subseteq WholeObjs
        /\ \A f \in ObjNodes \ WholeObjs : Alone(f) /\ pts[f] = {}

\* What a step of a program without geps does to the points-to sets.
LEMMA FlatPts ==
    ASSUME TypeOK, MergeInv, FlatInv, prog.gep = {}, Next, NEW n \in Nodes
    PROVE  /\ pts'[n] \subseteq WholeObjs
           /\ n \in ObjNodes \ WholeObjs => pts'[n] = {}
<1>1. /\ gepE = {} /\ toCollapse = {} /\ \A m \in Nodes : pts[m] \subseteq WholeObjs
      /\ \A f \in ObjNodes \ WholeObjs : Alone(f) /\ pts[f] = {}
    BY DEF FlatInv
<1>2. ASSUME NEW c \in cycles, NEW node \in c.left, mergeSrcToTgt(c, node)
      PROVE  /\ pts'[n] \subseteq WholeObjs
             /\ n \in ObjNodes \ WholeObjs => pts'[n] = {}
    <2>1. /\ c.rep \in Nodes /\ node \in Nodes
          /\ pts' = [pts EXCEPT ![c.rep] = @ \cup pts[node]]
        BY <1>2 DEF mergeSrcToTgt, mergeNode, unionPts, TypeOK, Cycles
    <2>2. n \in ObjNodes \ WholeObjs => n # c.rep
        BY <1>1 DEF Alone, Block
    <2> QED BY <1>1, <2>1, <2>2 DEF TypeOK
<1>3. ASSUME NEW m \in Nodes, processNode(m)
      PROVE  /\ pts'[n] \subseteq WholeObjs
             /\ n \in ObjNodes \ WholeObjs => pts'[n] = {}
    <2>1. PICK insensitive : pts' = [d \in Nodes |-> pts[d] \cup Gained(m, insensitive, d)]
        BY <1>3 DEF processNode, handleCopyGep
    <2>2. Gained(m, insensitive, n) = IF <<m, n>> \in copyE THEN diffPts(m) ELSE {}
        BY <1>1 DEF Gained, GepsFrom
    <2>3. n \in ObjNodes \ WholeObjs => <<m, n>> \notin copyE
        BY <1>1 DEF Alone
    <2> QED BY <1>1, <2>1, <2>2, <2>3 DEF diffPts
<1>4. ASSUME NEW c \in prog.calls, resolveIndCall(c)
      PROVE  /\ pts'[n] \subseteq WholeObjs
             /\ n \in ObjNodes \ WholeObjs => pts'[n] = {}
    <2>1. pts'[n] \subseteq pts[n] \cup {o \in ObjNodes : <<n, o>> \in c.heap}
        BY <1>4 DEF resolveIndCall
    <2>2. c.heap \subseteq Pointers \X WholeObjs
        BY DEF TypeOK, IsProgram, Calls
    <2> QED BY <1>1, <2>1, <2>2 DEF Pointers
<1>5. CASE UNCHANGED pts
    BY <1>1, <1>5
<1>6. ASSUME \/ mergeSCC \/ endWorklist \/ \E e \in newCopies : addCopyEdge(e)
             \/ \E m \in Nodes : popFromWorklist(m) \/ skipMerged(m) \/ handleLoadStore(m)
      PROVE  UNCHANGED pts
    BY <1>6 DEF mergeSCC, endWorklist, addCopyEdge, insertCopy, popFromWorklist, skipMerged,
        handleLoadStore, ptsVars
<1>7. CASE Common("solve")
    <2>1. ASSUME \/ \E c \in cycles : finishScc(c) \/ finishCollapse(c)
                 \/ endIteration("solve") \/ finish \/ Terminated
                 \/ \E m \in redundantGepNodes : removeGepNode(m)
          PROVE  UNCHANGED pts
        BY <2>1 DEF finishScc, finishCollapse, endIteration, finish, Terminated, removeGepNode, vars,
            ptsVars
    <2> QED BY <1>1, <1>4, <1>5, <1>7, <2>1 DEF Common
<1> QED BY <1>2, <1>3, <1>5, <1>6, <1>7 DEF Next

\* Without geps there is no positive weight cycle and nothing to collapse.
LEMMA FlatGraph ==
    ASSUME TypeOK, MergeInv, FlatInv, prog.gep = {}, Next
    PROVE  /\ gepE' = {} /\ pwcNodes' = {} /\ fieldInsensitive' = {} /\ toCollapse' = {}
           /\ \A c \in cycles' : c.scc /\ c.geps = {}
<1>1. /\ gepE = {} /\ pwcNodes = {} /\ fieldInsensitive = {} /\ toCollapse = {}
      /\ \A c \in cycles : c.scc /\ c.geps = {}
    BY DEF FlatInv
<1>2. CASE mergeSCC
    BY <1>1, <1>2 DEF mergeSCC, graphVars, objectVars
<1>3. ASSUME NEW c \in cycles, NEW node \in c.left, mergeSrcToTgt(c, node)
      PROVE  /\ gepE' = {} /\ pwcNodes' = {} /\ fieldInsensitive' = {} /\ toCollapse' = {}
             /\ \A d \in cycles' : d.scc /\ d.geps = {}
    <2> DEFINE critical == CriticalGeps(node, c.rep)
               smaller == [c EXCEPT !.left = @ \ {node}, !.geps = @ \cup critical]
    <2>1. critical = {}
        BY <1>1 DEF CriticalGeps, InsideScc
    <2>2. gepE' = {}
        BY <1>1, <1>3 DEF mergeSrcToTgt, mergeNode, moveEdgesToRepNode, MovedGeps
    <2>3. smaller.scc = c.scc /\ smaller.geps = c.geps \cup critical
        BY DEF TypeOK, Cycles
    <2>4. cycles' = (cycles \ {c}) \cup {smaller}
        BY <1>3 DEF mergeSrcToTgt, mergeNode
    <2>5. UNCHANGED <<toCollapse, fieldInsensitive>> /\ pwcNodes' = pwcNodes
        BY <1>1, <1>3, <2>1 DEF mergeSrcToTgt, mergeNode, objectVars
    <2> HIDE DEF smaller, critical
    <2> QED BY <1>1, <2>1, <2>2, <2>3, <2>4, <2>5
<1>4. ASSUME NEW n \in Nodes, popFromWorklist(n)
      PROVE  /\ gepE' = {} /\ pwcNodes' = {} /\ fieldInsensitive' = {} /\ toCollapse' = {}
             /\ UNCHANGED cycles
    BY <1>1, <1>4 DEF popFromWorklist, NeedsCollapse, graphVars, objectVars
<1>5. ASSUME NEW n \in Nodes, processNode(n)
      PROVE  /\ gepE' = {} /\ pwcNodes' = {} /\ fieldInsensitive' = {} /\ toCollapse' = {}
             /\ UNCHANGED cycles
    <2>1. NewlyInsensitive(n) = {}
        BY <1>1 DEF NewlyInsensitive, GepsFrom
    <2> QED BY <1>1, <1>5, <2>1 DEF processNode, handleCopyGep, graphVars
<1>6. ASSUME NEW c \in cycles, finishScc(c) \/ finishCollapse(c)
      PROVE  /\ gepE' = {} /\ pwcNodes' = {} /\ fieldInsensitive' = {} /\ toCollapse' = {}
             /\ cycles' \subseteq cycles
    BY <1>1, <1>6 DEF finishScc, finishCollapse, graphVars, objectVars
<1>7. ASSUME \/ endWorklist \/ \E e \in newCopies : addCopyEdge(e)
             \/ \E n \in Nodes : skipMerged(n) \/ handleLoadStore(n)
             \/ \E c \in prog.calls : resolveIndCall(c)
             \/ endIteration("solve") \/ finish \/ Terminated
             \/ \E n \in redundantGepNodes : removeGepNode(n)
      PROVE  UNCHANGED <<gepE, pwcNodes, fieldInsensitive, toCollapse, cycles>>
    BY <1>7 DEF endWorklist, addCopyEdge, insertCopy, skipMerged, handleLoadStore, resolveIndCall,
        endIteration, finish, Terminated, removeGepNode, vars, graphVars, objectVars
<1>8. CASE UNCHANGED <<gepE, pwcNodes, fieldInsensitive, toCollapse, cycles>>
    BY <1>1, <1>8
<1>9. ~\E b \in toCollapse : collapseField(b)
    BY <1>1
<1> QED BY <1>1, <1>2, <1>3, <1>4, <1>5, <1>6, <1>7, <1>8, <1>9 DEF Next, Common

(***************************************************************************)
(* Every step keeps what FlatInv says of the objects.                      *)
(***************************************************************************)
LEMMA FlatStep == TypeOK /\ MergeInv /\ FlatInv /\ [Next]_solverVars => FlatInv'
<1> SUFFICES ASSUME TypeOK, MergeInv, FlatInv, [Next]_solverVars, prog.gep = {}
             PROVE  /\ gepE' = {} /\ pwcNodes' = {} /\ fieldInsensitive' = {} /\ toCollapse' = {}
                    /\ \A c \in cycles' : c.scc /\ c.geps = {}
                    /\ \A n \in Nodes : pts'[n] \subseteq WholeObjs
                    /\ \A f \in ObjNodes \ WholeObjs : Alone(f)' /\ pts'[f] = {}
    BY ProgramStays DEF FlatInv
<1>1. /\ toCollapse = {} /\ \A n \in Nodes : pts[n] \subseteq WholeObjs
      /\ \A f \in ObjNodes \ WholeObjs : Alone(f) /\ f \in Nodes
    BY GraphAssumption DEF FlatInv
<1>2. ASSUME NEW f \in ObjNodes \ WholeObjs PROVE Alone(f)'
    <2>1. \A n \in Nodes : f \notin pts[n]
        BY <1>1
    <2>2. \A c \in prog.calls : \A e \in c.params : e[2] # f
        BY DEF TypeOK, IsProgram, Calls, Pointers
    <2> QED BY <1>1, <2>1, <2>2, AloneStep
<1>3. CASE Next
    BY <1>1, <1>2, <1>3, FlatPts, FlatGraph
<1>4. CASE UNCHANGED solverVars
    BY <1>2, <1>4 DEF FlatInv, solverVars, vars, graphVars, ptsVars, objectVars
<1> QED BY <1>3, <1>4

(***************************************************************************)
(* A program without geps starts with whole objects in its points-to sets. *)
(***************************************************************************)
LEMMA FlatInvInit == Init => FlatInv
<1> SUFFICES ASSUME IsProgram(prog), StartSolver("solve"), prog.gep = {} PROVE FlatInv
    BY ProgramsStart DEF Init, FlatInv
<1>1. \A n \in Nodes : pts[n] \subseteq WholeObjs /\ (n \in ObjNodes => pts[n] = {})
    BY DEF StartSolver, IsProgram, Pointers
<1>2. ASSUME NEW f \in ObjNodes \ WholeObjs PROVE Alone(f) /\ pts[f] = {}
    <2>1. f \in Nodes
        BY GraphAssumption
    <2>2. /\ \A e \in prog.copy : e[2] # f
          /\ \A e \in prog.load \cup prog.store : e[1] # f /\ e[2] # f
        BY DEF IsProgram, Pointers
    <2> QED BY <1>1, <2>1, <2>2, AloneInit
<1> QED BY <1>1, <1>2 DEF StartSolver, FlatInv

(***************************************************************************)
(* The facts of a program without geps.                                    *)
(***************************************************************************)
LEMMA FlatFacts ==
    ASSUME TypeOK, FlatInv, prog.gep = {}, NEW o, NEW n
    PROVE  <<o, n>> \in Facts <=>
               n \in Nodes /\ (n \in ObjNodes => n \in WholeObjs) /\ o \in getPts(n)
<1>1. \A m \in Nodes : \A x \in getPts(m) : Base[x] = x
    BY DEF FlatInv, getPts, sccRepNode, TypeOK, WholeObjs
<1>2. \A f \in ObjNodes \ WholeObjs : f \in Nodes /\ getPts(f) = {}
    BY GraphAssumption DEF FlatInv, Alone, getPts, sccRepNode
<1>3. ASSUME <<o, n>> \in Facts
      PROVE  n \in Nodes /\ (n \in ObjNodes => n \in WholeObjs) /\ o \in getPts(n)
    <2>1. PICK m \in Nodes : \E x \in getPts(m) : <<o, n>> = <<Base[x], Whole(m)>>
        BY <1>3 DEF Facts
    <2>2. PICK x \in getPts(m) : <<o, n>> = <<Base[x], Whole(m)>>
        BY <2>1
    <2>3. m \in ObjNodes => m \in WholeObjs
        BY <1>2
    <2>4. Whole(m) = m
        BY <2>3 DEF Whole, WholeObjs
    <2> QED BY <1>1, <2>2, <2>3, <2>4
<1>4. ASSUME n \in Nodes, n \in ObjNodes => n \in WholeObjs, o \in getPts(n)
      PROVE  <<o, n>> \in Facts
    <2>1. Base[o] = o /\ Whole(n) = n
        BY <1>1, <1>4 DEF Whole, WholeObjs
    <2>2. <<o, n>> \in {<<Base[x], Whole(n)>> : x \in getPts(n)}
        BY <1>4, <2>1
    <2> QED BY <1>4, <2>2 DEF Facts
<1> QED BY <1>3, <1>4

(***************************************************************************)
(* Where everything is settled nothing more can be inferred.               *)
(***************************************************************************)
LEMMA FlatClosed ==
    ASSUME TypeOK, FlatInv, DummyInv, prog.gep = {}, AllSettled, ~InvariantPWC,
           Cardinality(indCalls) < IndirectCallLimit
    PROVE  prog.addr \subseteq Facts /\ Inclusion!Infer(Facts) \subseteq Facts
<1>1. /\ IsProgram(prog) /\ GraphConstraintsHold /\ AccessesHold
      /\ \A c \in prog.calls : ~Resolvable(c)
    BY DEF TypeOK, AllSettled
<1>2. \A o, n : <<o, n>> \in Facts <=>
          n \in Nodes /\ (n \in ObjNodes => n \in WholeObjs) /\ o \in getPts(n)
    BY FlatFacts
<1>3. \A n \in Nodes : getPts(n) \subseteq WholeObjs
    BY DEF FlatInv, getPts, sccRepNode, TypeOK
<1>4. ASSUME NEW a \in Nodes, NEW b \in Nodes, HasAll(getPts(b), getPts(a))
      PROVE  getPts(a) \subseteq getPts(b)
    BY <1>3, <1>4 DEF HasAll, Covers, WholeObjs
<1>5. \A p \in Pointers : p \in Nodes /\ p \notin ObjNodes
    BY DEF Pointers
<1>6. \A o \in WholeObjs : o \in Nodes /\ Base[o] = o
    BY GraphAssumption DEF WholeObjs
<1>7. /\ prog.addr \subseteq WholeObjs \X Pointers
      /\ prog.copy \subseteq Pointers \X Pointers
      /\ prog.load \subseteq Pointers \X Pointers /\ prog.store \subseteq Pointers \X Pointers
      /\ prog.calls \subseteq Calls
    BY <1>1 DEF IsProgram
<1>8. prog.addr \subseteq Facts
    <2> SUFFICES ASSUME NEW e \in prog.addr PROVE e \in Facts
        OBVIOUS
    <2>1. e = <<e[1], e[2]>> /\ e[1] \in WholeObjs /\ e[2] \in Pointers
        BY <1>7
    <2>2. HasAll(getPts(e[2]), {e[1]})
        BY <1>1 DEF GraphConstraintsHold, AddrHolds
    <2>3. e[1] \in getPts(e[2])
        BY <1>6, <2>1, <2>2 DEF HasAll, Covers
    <2> QED BY <1>2, <1>5, <2>1, <2>3
<1>9. ASSUME NEW c \in Inclusion!Called(Facts)
      PROVE  /\ c \in prog.calls /\ c \in indCalls /\ c.argsMatch
             /\ \A e \in c.params : CopyHolds(e)
    <2>1. c \in prog.calls /\ c.argsMatch /\ <<c.fun, c.fptr>> \in Facts
        BY DEF Inclusion!Called
    <2>2. c.fun \in getPts(c.fptr)
        BY <1>2, <2>1
    <2>3. c \in indCalls
        BY <1>1, <2>1, <2>2 DEF Resolvable
    <2>4. Connected(c)
        BY <1>1, <2>1 DEF GraphConstraintsHold
    <2> QED BY <2>1, <2>2, <2>3, <2>4 DEF Connected
<1>10. ASSUME NEW e \in Inclusion!Inclusions(Facts)
       PROVE  /\ e[1] \in Nodes /\ e[2] \in Nodes /\ (e[2] \in ObjNodes => e[2] \in WholeObjs)
              /\ HasAll(getPts(e[2]), getPts(e[1]))
    <2>1. CASE e \in prog.copy
        BY <1>1, <1>5, <1>7, <2>1 DEF GraphConstraintsHold, CopyHolds
    <2>2. ASSUME NEW x \in prog.load, NEW o \in Inclusion!Through(Facts, x[1]), e = <<o, x[2]>>
          PROVE  /\ e[1] \in Nodes /\ e[2] \in Nodes /\ (e[2] \in ObjNodes => e[2] \in WholeObjs)
                 /\ HasAll(getPts(e[2]), getPts(e[1]))
        <3>1. x[1] \in Pointers /\ x[2] \in Pointers
            BY <1>7
        <3>2. o \notin PointerlessObjs /\ \E f \in Facts : f[2] = x[1] /\ o = f[1]
            BY <2>2 DEF Inclusion!Through, Inclusion!PointeesIn
        <3>3. <<o, x[1]>> \in Facts
            <4>1. Facts \subseteq {<<Base[y], Whole(m)>> : y \in ObjNodes, m \in Nodes}
                BY DEF Facts, getPts, sccRepNode, TypeOK, PTS
            <4> QED BY <3>2, <4>1
        <3>4. o \in getPts(x[1]) \ PointerlessObjs /\ o \in Nodes
            BY <1>2, <1>3, <1>5, <1>6, <3>1, <3>2, <3>3
        <3>5. LoadHolds(x)
            BY <1>1 DEF AccessesHold
        <3> QED BY <1>5, <2>2, <3>1, <3>4, <3>5 DEF LoadHolds
    <2>3. ASSUME NEW x \in prog.store, NEW o \in Inclusion!Through(Facts, x[2]), e = <<x[1], o>>
          PROVE  /\ e[1] \in Nodes /\ e[2] \in Nodes /\ (e[2] \in ObjNodes => e[2] \in WholeObjs)
                 /\ HasAll(getPts(e[2]), getPts(e[1]))
        <3>1. x[1] \in Pointers /\ x[2] \in Pointers
            BY <1>7
        <3>2. o \notin PointerlessObjs /\ \E f \in Facts : f[2] = x[2] /\ o = f[1]
            BY <2>3 DEF Inclusion!Through, Inclusion!PointeesIn
        <3>3. <<o, x[2]>> \in Facts
            <4>1. Facts \subseteq {<<Base[y], Whole(m)>> : y \in ObjNodes, m \in Nodes}
                BY DEF Facts, getPts, sccRepNode, TypeOK, PTS
            <4> QED BY <3>2, <4>1
        <3>4. o \in getPts(x[2]) \ PointerlessObjs /\ o \in Nodes /\ o \in WholeObjs
            BY <1>2, <1>3, <1>5, <1>6, <3>1, <3>2, <3>3
        <3>5. StoreHolds(x)
            BY <1>1 DEF AccessesHold
        <3> QED BY <1>5, <2>3, <3>1, <3>4, <3>5 DEF StoreHolds
    <2>4. ASSUME NEW c \in Inclusion!Called(Facts), e \in c.params
          PROVE  /\ e[1] \in Nodes /\ e[2] \in Nodes /\ (e[2] \in ObjNodes => e[2] \in WholeObjs)
                 /\ HasAll(getPts(e[2]), getPts(e[1]))
        <3>1. e \in Pointers \X Pointers
            BY <1>7, <1>9, <2>4 DEF Calls
        <3> QED BY <1>5, <1>9, <2>4, <3>1 DEF CopyHolds
    <2> QED BY <2>1, <2>2, <2>3, <2>4, InclusionOf
<1>11. ASSUME NEW f \in Inclusion!Infer(Facts) PROVE f \in Facts
    <2>1. ASSUME NEW e \in Inclusion!Inclusions(Facts),
                 NEW o \in Inclusion!PointeesIn(Facts, e[1]), f = <<o, e[2]>>
          PROVE  f \in Facts
        <3>1. <<o, e[1]>> \in Facts
            <4>1. Facts \subseteq {<<Base[y], Whole(m)>> : y \in ObjNodes, m \in Nodes}
                BY DEF Facts, getPts, sccRepNode, TypeOK, PTS
            <4> QED BY <2>1, <4>1 DEF Inclusion!PointeesIn
        <3>2. o \in getPts(e[2])
            BY <1>2, <1>4, <1>10, <3>1
        <3> QED BY <1>2, <1>10, <2>1, <3>2
    <2>2. ASSUME NEW c \in Inclusion!Called(Facts), NEW h \in c.heap, f = <<h[2], h[1]>>
          PROVE  f \in Facts
        <3>1. h[1] \in Nodes \ ObjNodes
            BY <1>9, DummyTypes
        <3>2. Alone(h[1]) /\ Holds(h)
            BY <1>9 DEF DummyInv
        <3>3. h[2] \in getPts(h[1])
            BY <3>1, <3>2 DEF Alone, Holds, getPts, sccRepNode
        <3> QED BY <1>2, <2>2, <3>1, <3>3
    <2> QED BY <2>1, <2>2, InferenceOf
<1> QED BY <1>8, <1>11

(***************************************************************************)
(* Lazy cycle detection computes exactly the least solution of every       *)
(* program without geps: it misses no fact, whichever cycles it happens to *)
(* find and in whatever order it works, and it invents none.               *)
(***************************************************************************)
THEOREM LCDLeastSolution == Spec => []LeastSolution
<1>1. Init => PreciseInv /\ FlatInv
    BY ProgramsStart, WithinInit, FlatInvInit DEF Init
<1>2. TypeOK /\ MergeInv /\ PreciseInv /\ FlatInv /\ [Next]_solverVars => PreciseInv' /\ FlatInv'
    BY PreciseStep, FlatStep
<1>3. SolverInv => TypeOK /\ MergeInv
    BY DEF SolverInv
<1>4. SolverInv /\ PreciseInv /\ FlatInv => LeastSolution
    <2> SUFFICES ASSUME SolverInv, PreciseInv, FlatInv, Solved, prog.gep = {}, ~InvariantPWC,
                        Cardinality(indCalls) < IndirectCallLimit
                 PROVE  Facts = Inclusion!Least
        BY DEF LeastSolution
    <2>1. TypeOK /\ DummyInv /\ AllSettled /\ IsProgram(prog)
        BY DEF SolverInv, FixInv, FlatInv, Solved, TypeOK
    <2>2. prog.addr \subseteq Facts /\ Inclusion!Infer(Facts) \subseteq Facts
        BY <2>1, FlatClosed
    <2>3. Inclusion!Least \subseteq Facts
        BY <2>1, <2>2, LeastIsLeast
    <2>4. Facts \subseteq Inclusion!Least
        BY <2>1, FactsWithin DEF Precise
    <2> QED BY <2>3, <2>4
<1> QED BY <1>1, <1>2, <1>3, <1>4, SolverInvariant, PTL DEF Spec

=============================================================================
