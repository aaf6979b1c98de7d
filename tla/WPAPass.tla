------------------------------ MODULE WPAPass ------------------------------
(***************************************************************************)
(* The pipeline of the pass: the wave solver analyses the program once     *)
(* with both likely invariants assumed and once, on a PAG built anew, with *)
(* none; after each round the targets resolved for the indirect calls are  *)
(* collected.  The program starts under the first policy and is switched   *)
(* to the second when an invariant is violated at run time, see KaliMonitor*)
(***************************************************************************)
EXTENDS AndersenWaveDiff

CONSTANT ShortCircuit   \* the values of Options::ShortCircuit

ASSUME PassAssumption ==
    /\ ShortCircuit \subseteq BOOLEAN
    /\ \A p \in Programs : p.invariantPWC /\ p.invariantVGEP

VARIABLES
    round,              \* 1, 2, or 3 when both policies are collected
    optimistic,         \* the points-to sets round 1 ends with, by pointer
    wInvIndCallMap,     \* <<call, target>> found with the invariants ...
    woInvIndCallMap     \* ... and without

passVars == <<round, optimistic, wInvIndCallMap, woInvIndCallMap>>
allVars == <<vars, passVars>>

\* collectCFI: the call graph edges of the indirect calls.
collectCFI == {<<c.fptr, c.fun>> : c \in indCalls}

PassInit ==
    /\ Init
    /\ round = 1
    /\ optimistic = [n \in Nodes |-> {}]
    /\ wInvIndCallMap = {} /\ woInvIndCallMap = {}

(***************************************************************************)
(* resetPAG and a second AndersenWaveDiff: nothing the first round found   *)
(* is left but the policy.                                                 *)
(***************************************************************************)
secondRound ==
    /\ phase = "done" /\ round = 1
    /\ FALSE \in ShortCircuit
    /\ round' = 2
    /\ optimistic' = [n \in Nodes |-> getPts(n)]
    /\ wInvIndCallMap' = collectCFI
    /\ prog' = [prog EXCEPT !.invariantPWC = FALSE, !.invariantVGEP = FALSE]
    /\ copyE' = prog.copy /\ loadE' = prog.load /\ storeE' = prog.store /\ gepE' = prog.gep
    /\ rep' = [n \in Nodes |-> n] /\ subs' = [n \in Nodes |-> {}]
    /\ pts' = [n \in Nodes |-> {o \in ObjNodes : <<o, n>> \in prog.addr}]
    /\ propa' = [n \in Nodes |-> {}]
    /\ worklist' = {e[2] : e \in prog.addr}
    /\ phase' = "scc"
    /\ fields' = {} /\ fieldInsensitive' = {} /\ pwcNodes' = {} /\ indCalls' = {}
    /\ pending' = {} /\ topo' = {} /\ impacted' = {} /\ varGepPtd' = {} /\ pwcInvariants' = {}
    /\ UNCHANGED <<redundantGepNodes, tmpWorklist, cycles, toCollapse, newCopies, reanalyze,
                   woInvIndCallMap>>

finishPass ==
    /\ phase = "done"
    /\ \/ round = 2 /\ UNCHANGED wInvIndCallMap
       \/ round = 1 /\ TRUE \in ShortCircuit /\ wInvIndCallMap' = collectCFI
    /\ round' = 3
    /\ woInvIndCallMap' = collectCFI
    /\ UNCHANGED <<vars, optimistic>>

PassNext ==
    \/ Next /\ UNCHANGED passVars
    \/ secondRound
    \/ finishPass

\* One thread that runs until it is done.
PassSpec == PassInit /\ [][PassNext]_allVars /\ WF_allVars(PassNext)

----------------------------------------------------------------------------
(***************************************************************************)
(* Switching the policy never forbids what was allowed before it: every    *)
(* target the optimistic policy has for a call is in the fallback policy,  *)
(* unless round 2 spent its budget of resolved calls on others.            *)
(***************************************************************************)
FallbackCoversOptimistic ==
    round = 3 =>
        \/ wInvIndCallMap \subseteq woInvIndCallMap
        \/ Cardinality(indCalls) >= IndirectCallLimit

(***************************************************************************)
(* Assuming an invariant only removes facts: whatever a pointer points to  *)
(* in the optimistic solution, it points to in the fallback solution, as   *)
(* the object itself or as the base it was collapsed into.                 *)
(***************************************************************************)
OptimisticIsSubset ==
    (round = 2 /\ phase = "done" /\ Cardinality(indCalls) < IndirectCallLimit) =>
        \A n \in Nodes \ ObjNodes : HasAll(getPts(n), optimistic[n])

\* The pass terminates.
PassTerminates == <>(round = 3)
=============================================================================
