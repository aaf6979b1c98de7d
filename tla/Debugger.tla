------------------------------ MODULE Debugger ------------------------------
(***************************************************************************)
(* The pointer debugger: Debugger.cpp numbers the objects that the loads   *)
(* of the functions under debug may return, inserts calls that record the  *)
(* addresses of these objects, and inserts a check of every such load;     *)
(* debugger.cpp is the run time of both.                                   *)
(*                                                                         *)
(* The instrumented program is external.  It runs constructors, then main; *)
(* functions have one local object each and may be active more than once,  *)
(* an allocator may return null, and nothing is ever freed.                *)
(***************************************************************************)
EXTENDS Naturals, FiniteSets, Sequences, Functions

CONSTANTS
    Funs,           \* functions other than main, each with one local object
    HeapSites,      \* calls of an allocator
    Globals,
    Nodes,          \* NodeIDs of pointees; points-to sets iterate upwards
    ValueOf,        \* node -> object, or NoValue
    NumLoads,       \* bound: the loads of pointers under debug, in order
    PtsChoices,     \* points-to sets of the loads, one function per program
    HeapAddrs, FrameAddr, GlobalAddr,   \* base addresses of the objects
    RecursiveFuns,  \* functions that are entered while they are active
    FailingSites    \* allocator calls that may return null

Objects == Funs \cup HeapSites \cup Globals
Loads == 1..NumLoads
Addrs == HeapAddrs \cup Range(FrameAddr) \cup Range(GlobalAddr)
Null == "null"
Nothing == "nothing"
NoValue == "no value"

ASSUME DebuggerAssumption ==
    /\ Funs \cap HeapSites = {} /\ Funs \cap Globals = {} /\ HeapSites \cap Globals = {}
    /\ Nothing \notin Objects /\ NoValue \notin Objects
    /\ Nodes \subseteq Nat
    /\ ValueOf \in [Nodes -> Objects \cup {NoValue}]
    /\ NumLoads \in Nat
    /\ PtsChoices \subseteq [Loads -> SUBSET Nodes]
    /\ FrameAddr \in Seq(Addrs) /\ GlobalAddr \in [Globals -> Addrs]
    /\ IsInjective(FrameAddr) /\ IsInjective(GlobalAddr)
    /\ Range(FrameAddr) \cap HeapAddrs = {}
    /\ Range(GlobalAddr) \cap (HeapAddrs \cup Range(FrameAddr)) = {}
    /\ Null \notin Addrs
    /\ RecursiveFuns \subseteq Funs /\ FailingSites \subseteq HeapSites

VARIABLES
    pts,            \* load -> points-to set of its value
    \* the instrumentation:
    load,           \* the load being instrumented, NumLoads + 1 at the end
    todo,           \* pointees of that load not looked at yet
    dbgTgtID,
    recorded,       \* object -> id, 0 if it has none
    validTargets,   \* load -> the ids its check is passed
    \* the run time:
    valMap,         \* pairs <<id, address>>
    \* the program:
    inMain,
    stack,          \* functions active now, the innermost last
    heap            \* address -> site of the object there, or Nothing

compileVars == <<load, todo, dbgTgtID, recorded, validTargets>>
programVars == <<inMain, stack, heap>>
vars == <<pts, compileVars, valMap, programVars>>

TypeOK ==
    /\ pts \in [Loads -> SUBSET Nodes]
    /\ load \in 1..NumLoads + 1
    /\ todo \subseteq Nodes
    /\ dbgTgtID \in Nat
    /\ recorded \in [Objects -> Nat]
    /\ validTargets \in [Loads -> SUBSET Nat]
    /\ valMap \subseteq Nat \X Addrs
    /\ inMain \in BOOLEAN
    /\ stack \in Seq(Funs) /\ Len(stack) <= Len(FrameAddr)
    /\ heap \in [HeapAddrs -> HeapSites \cup {Nothing}]

PtsOf(l) == IF l \in Loads THEN pts[l] ELSE {}

Init ==
    /\ pts \in PtsChoices
    /\ load = 1 /\ todo = PtsOf(1)
    /\ dbgTgtID = 0
    /\ recorded = [o \in Objects |-> 0]
    /\ validTargets = [l \in Loads |-> {}]
    /\ valMap = {}
    /\ inMain = FALSE
    /\ stack = <<>>
    /\ heap = [a \in HeapAddrs |-> Nothing]

----------------------------------------------------------------------------
(***************************************************************************)
(* One turn of the loop of instrumentPointer.  The counter of new ids      *)
(* doubles as the id of the pointee at hand.                               *)
(***************************************************************************)
NextPointee(n) == n \in todo /\ \A other \in todo : n <= other

Numbered(o, id) ==
    /\ recorded' = [recorded EXCEPT ![o] = id]
    /\ dbgTgtID' = id
    /\ validTargets' = [validTargets EXCEPT ![load] = @ \cup {id}]

\* The counter advances once per load only.
newTargetMutant(n) ==
    /\ NextPointee(n)
    /\ ValueOf[n] # NoValue /\ recorded[ValueOf[n]] = 0
    /\ Numbered(ValueOf[n], load)
    /\ todo' = todo \ {n}
    /\ UNCHANGED <<pts, load, valMap, programVars>>

newTarget(n) ==
    /\ NextPointee(n)
    /\ ValueOf[n] # NoValue /\ recorded[ValueOf[n]] = 0
    /\ Numbered(ValueOf[n], dbgTgtID + 1)
    /\ todo' = todo \ {n}
    /\ UNCHANGED <<pts, load, valMap, programVars>>

\* A known object is not passed to the check.
knownTargetMutant(n) ==
    /\ NextPointee(n)
    /\ ValueOf[n] # NoValue /\ recorded[ValueOf[n]] # 0
    /\ dbgTgtID' = recorded[ValueOf[n]]
    /\ todo' = todo \ {n}
    /\ UNCHANGED <<pts, load, recorded, validTargets, valMap, programVars>>

knownTarget(n) ==
    /\ NextPointee(n)
    /\ ValueOf[n] # NoValue /\ recorded[ValueOf[n]] # 0
    /\ Numbered(ValueOf[n], recorded[ValueOf[n]])
    /\ todo' = todo \ {n}
    /\ UNCHANGED <<pts, load, valMap, programVars>>

skipValueless(n) ==
    /\ NextPointee(n)
    /\ ValueOf[n] = NoValue
    /\ todo' = todo \ {n}
    /\ UNCHANGED <<pts, load, dbgTgtID, recorded, validTargets, valMap, programVars>>

nextLoad ==
    /\ load <= NumLoads /\ todo = {}
    /\ load' = load + 1
    /\ todo' = PtsOf(load + 1)
    /\ UNCHANGED <<pts, dbgTgtID, recorded, validTargets, valMap, programVars>>

----------------------------------------------------------------------------
Instrumented == load > NumLoads

\* The library's recordTarget; the calls exist only for objects with an id.
recordTarget(o, val) ==
    valMap' = IF recorded[o] = 0 THEN valMap
              ELSE IF val = Null THEN {r \in valMap : r[1] # recorded[o]}
              ELSE valMap \cup {<<recorded[o], val>>}

(***************************************************************************)
(* Where InvariantHandler::recordTarget puts the calls: after an alloca    *)
(* with a reset before every return, after an allocator call, and for a    *)
(* global at the entry of main.                                            *)
(***************************************************************************)
Call(f) ==
    /\ Instrumented
    /\ Len(stack) < Len(FrameAddr)
    /\ f \in Range(stack) => f \in RecursiveFuns
    /\ stack' = Append(stack, f)
    /\ recordTarget(f, FrameAddr[Len(stack) + 1])
    /\ UNCHANGED <<pts, compileVars, inMain, heap>>

ReturnMutant ==
    /\ Instrumented
    /\ stack # <<>>
    /\ stack' = SubSeq(stack, 1, Len(stack) - 1)
    /\ UNCHANGED <<pts, compileVars, valMap, inMain, heap>>

Return ==
    /\ Instrumented
    /\ stack # <<>>
    /\ stack' = SubSeq(stack, 1, Len(stack) - 1)
    /\ recordTarget(stack[Len(stack)], Null)
    /\ UNCHANGED <<pts, compileVars, inMain, heap>>

Malloc(s) ==
    /\ Instrumented
    /\ \/ \E a \in HeapAddrs :
            /\ heap[a] = Nothing
            /\ heap' = [heap EXCEPT ![a] = s]
            /\ recordTarget(s, a)
       \/ /\ s \in FailingSites
          /\ recordTarget(s, Null)
          /\ UNCHANGED heap
    /\ UNCHANGED <<pts, compileVars, inMain, stack>>

enterMain ==
    /\ Instrumented
    /\ ~inMain /\ stack = <<>>
    /\ inMain' = TRUE
    /\ valMap' = valMap \cup
           {<<recorded[o], GlobalAddr[o]>> : o \in {g \in Globals : recorded[g] # 0}}
    /\ UNCHANGED <<pts, compileVars, stack, heap>>

Next ==
    \/ \E n \in Nodes : newTarget(n) \/ knownTarget(n) \/ skipValueless(n)
    \/ nextLoad
    \/ \E f \in Funs : Call(f)
    \/ Return
    \/ \E s \in HeapSites : Malloc(s)
    \/ enterMain

Spec == Init /\ [][Next]_vars

----------------------------------------------------------------------------
\* checkPtr of a base address after a load: is it reported?
Reported(l, a) == \A id \in validTargets[l] : <<id, a>> \notin valMap

\* Objects are live at their address: globals always, heap objects for good.
LiveAt(o, a) ==
    \/ o \in Globals /\ GlobalAddr[o] = a
    \/ o \in Funs /\ \E d \in DOMAIN stack : stack[d] = o /\ FrameAddr[d] = a
    \/ o \in HeapSites /\ a \in HeapAddrs /\ heap[a] = o

TargetsOf(l) == {ValueOf[n] : n \in pts[l]} \ {NoValue}

\* Some reset of an object's id may come from elsewhere than its own end.
ResetByOthers(o) ==
    \E f \in Funs \cup FailingSites :
        /\ recorded[f] = recorded[o]
        /\ f = o => f \in RecursiveFuns \cup FailingSites

(***************************************************************************)
(* A load that returns an object of its points-to set is reported only if  *)
(* the object is a global and main has not begun, or if its record was     *)
(* reset by an object with the same id, a second activation, or a failed   *)
(* allocation at the same call.                                            *)
(***************************************************************************)
AlarmsExplained ==
    Instrumented =>
        \A l \in Loads : \A o \in TargetsOf(l) : \A a \in Addrs :
            LiveAt(o, a) /\ Reported(l, a) =>
                ResetByOthers(o) \/ (o \in Globals /\ ~inMain)

(***************************************************************************)
(* A load that returns an object outside its points-to set is reported     *)
(* unless the object has the id of one inside: addresses that frames have  *)
(* left are never taken for targets.                                       *)
(***************************************************************************)
MissesExplained ==
    Instrumented =>
        \A l \in Loads : \A o \in Objects \ TargetsOf(l) : \A a \in Addrs :
            LiveAt(o, a) /\ ~Reported(l, a) =>
                recorded[o] # 0 /\ \E t \in TargetsOf(l) : recorded[t] = recorded[o]

\* Occurrences of objects that the instrumentation has been through.
Met == {i \in Loads \X Nodes :
            /\ i[2] \in pts[i[1]] /\ ValueOf[i[2]] # NoValue
            /\ i[1] < load \/ (i[1] = load /\ i[2] \notin todo)}

(***************************************************************************)
(* Two objects get one id only after some object was met a second time:    *)
(* the debugger's reports can be trusted where no object is the target of  *)
(* two loads, or of one load as itself and as a field.                     *)
(***************************************************************************)
SharedIdsNeedRepeats ==
    (\E o \in Objects, t \in Objects : o # t /\ recorded[o] # 0 /\ recorded[o] = recorded[t]) =>
        \E i \in Met, j \in Met : i # j /\ ValueOf[i[2]] = ValueOf[j[2]]
=============================================================================
