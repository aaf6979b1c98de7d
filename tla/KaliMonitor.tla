---------------------------- MODULE KaliMonitor ----------------------------
(***************************************************************************)
(* The run time of an instrumented program: the calls that InvariantHandler*)
(* and WPAPass insert into it and the library they call (view_switch.cpp,  *)
(* docfi.cpp).  The monitor keeps, under the id of an allocation site, the *)
(* addresses of the objects a variable-index gep was assumed not to reach, *)
(* watches one gep of each positive weight cycle, and at the first failure *)
(* of an invariant moves the checks of indirect calls from the optimistic  *)
(* to the fallback policy for good.                                        *)
(*                                                                         *)
(* The program is external.  It calls, returns, allocates, follows geps,   *)
(* sends any number of pointers round the cycles, and makes the indirect   *)
(* calls its analysis allows: those of the fallback policy only after an   *)
(* invariant has really failed.                                            *)
(***************************************************************************)
EXTENDS Naturals, FiniteSets, Sequences, Functions

CONSTANTS
    Funs,           \* functions, each with one local object
    HeapSites,      \* calls of an allocator
    Excluded,       \* variable-index gep -> the sites it must not reach
    HeapAddrs,      \* addresses of heap objects ...
    FrameAddr,      \* ... and of the local object at each call depth
    Offs,           \* offsets inside an object; 0 is its base
    KnownStack,     \* addresses between stack_start and stack_end
    PwcGeps,        \* the cycles in the order of the map, each its geps ...
    FirstGep,       \* ... and the one that comes first among them
    GepOffset,      \* gep -> what it adds, 0 if its index is not constant
    VariableGeps,   \* those whose index is not constant
    MaxDrift,       \* bound: what they add in one turn
    MaxPwc,         \* bound: the pointers that pass the watched geps
    MaxOnWay,       \* bound: how many are on their way round at a time
    KnownStackPwc,  \* the pointers between stack_start and stack_end
    IntWidth,       \* updatePWC takes a 32 bit value: 2^32
    CallSites, Targets,
    WInv, WoInv,    \* call site -> targets with and without the invariants
    RecursiveFuns,  \* functions that are entered while they are active
    FailingSites    \* allocator calls that may return null

Vgeps == DOMAIN Excluded
Sites == Funs \cup HeapSites
Depths == DOMAIN FrameAddr
Addrs == HeapAddrs \cup Range(FrameAddr)
Pwcs == DOMAIN PwcGeps
Ptrs == 1..MaxPwc
Null == "null"
Nothing == "nothing"

ASSUME MonitorAssumption ==
    /\ Funs \cap HeapSites = {} /\ Nothing \notin Sites
    /\ Excluded \in [Vgeps -> SUBSET Sites]
    /\ FrameAddr \in Seq(Addrs)
    /\ \A d \in Depths, e \in Depths : FrameAddr[d] = FrameAddr[e] => d = e
    /\ Range(FrameAddr) \cap HeapAddrs = {} /\ Null \notin Addrs
    /\ KnownStack \subseteq Addrs
    /\ Offs \subseteq Nat
    /\ GepOffset \in [DOMAIN GepOffset -> Nat] /\ VariableGeps \subseteq DOMAIN GepOffset
    /\ PwcGeps \in Seq(SUBSET DOMAIN GepOffset) /\ FirstGep \in Seq(DOMAIN GepOffset)
    /\ Len(FirstGep) = Len(PwcGeps) /\ \A c \in Pwcs : FirstGep[c] \in PwcGeps[c]
    /\ \A g \in VariableGeps : GepOffset[g] = 0
    /\ MaxPwc \in Nat /\ MaxDrift \in Nat /\ MaxOnWay \in Nat
    /\ KnownStackPwc \subseteq Ptrs /\ IntWidth \in Nat \ {0}
    /\ WInv \in [CallSites -> SUBSET Targets]
    /\ WoInv \in [CallSites -> SUBSET Targets]
    /\ \A cs \in CallSites : WInv[cs] \subseteq WoInv[cs]
    /\ RecursiveFuns \subseteq Funs /\ FailingSites \subseteq HeapSites

(***************************************************************************)
(* The loop of handlePWCInvariants goes through the cycles in the order of *)
(* their map, which is a hash map, and instruments the first gep of each,  *)
(* once: a later cycle that begins with the same gep is not watched.       *)
(***************************************************************************)
Watched == {c \in Pwcs : \A e \in Pwcs : FirstGep[e] = FirstGep[c] => c <= e}

ConstantOffset(geps) == FoldFunctionOnSet(+, 0, GepOffset, geps)

computeOffsetInPWC(c) == ConstantOffset(PwcGeps[c])

VARIABLES
    vgepMap,        \* monitored site -> addresses recorded for it
    pwcInvariants,  \* watched cycle -> the value recorded for it
    invFlipped,
    cfiErrors,      \* calls <<call site, target>> that checkCFI reported
    \* the program:
    stack,          \* functions active now, the innermost last
    heap,           \* address -> site of the object there, or Nothing
    onWay,          \* pointers on their way round a cycle
    \* what has happened to it:
    forgotten,      \* <<site, address>> reset while the object was there
    badVgep,        \* a gep has reached an object that it must not reach
    badPwc,         \* a pointer has come round a cycle
    hidden          \* one of both in a way that the monitor may miss

monitorVars == <<vgepMap, pwcInvariants, invFlipped, cfiErrors>>
programVars == <<stack, heap, onWay>>
historyVars == <<forgotten, badVgep, badPwc, hidden>>
vars == <<monitorVars, programVars, historyVars>>

\* Sites with an id in valueToKaliIdMap, whose objects are recorded.
Monitored == UNION {Excluded[g] : g \in Vgeps}

(***************************************************************************)
(* A pointer on its way: what it was before the first gep of its cycle and *)
(* after it, and whether no other pointer has passed that gep since.       *)
(***************************************************************************)
Travellers == [cycle : Pwcs, before : Ptrs, after : Nat, alone : BOOLEAN]

TypeOK ==
    /\ vgepMap \in [Monitored -> SUBSET Addrs]
    /\ pwcInvariants \in [Watched -> Nat]
    /\ invFlipped \in BOOLEAN
    /\ cfiErrors \subseteq CallSites \X Targets
    /\ stack \in Seq(Funs) /\ Len(stack) <= Len(FrameAddr)
    /\ heap \in [HeapAddrs -> HeapSites \cup {Nothing}]
    /\ onWay \subseteq Travellers
    /\ forgotten \subseteq Monitored \X Addrs
    /\ badVgep \in BOOLEAN /\ badPwc \in BOOLEAN /\ hidden \in BOOLEAN

Init ==
    /\ vgepMap = [s \in Monitored |-> {}]
    /\ pwcInvariants = [c \in Watched |-> 0]
    /\ invFlipped = FALSE
    /\ cfiErrors = {}
    /\ stack = <<>>
    /\ heap = [a \in HeapAddrs |-> Nothing]
    /\ onWay = {} /\ forgotten = {}
    /\ badVgep = FALSE /\ badPwc = FALSE /\ hidden = FALSE

(***************************************************************************)
(* The object at an address: the local of an active call or a heap object. *)
(* The library replaces free by an empty function, so heap objects stay.   *)
(***************************************************************************)
ObjectsAt(a) ==
    {stack[d] : d \in {d \in DOMAIN stack : FrameAddr[d] = a}}
        \cup {heap[b] : b \in {b \in HeapAddrs \cap {a} : heap[b] # Nothing}}

(***************************************************************************)
(* vgepRecordTarget, the null value standing for a reset, whoever passes   *)
(* it.  The calls exist only for sites that have an id.                    *)
(***************************************************************************)
vgepRecordTargetMutant(s, val) ==
    vgepMap' = [t \in Monitored |-> IF t = s THEN {val} \ {Null} ELSE vgepMap[t]]

vgepRecordTarget(s, val) ==
    vgepMap' = [t \in Monitored |->
        IF t # s THEN vgepMap[t]
        ELSE IF val = Null THEN {} ELSE vgepMap[t] \cup {val}]

\* The objects of a monitored site at some addresses, as <<site, address>>.
ObjectsOf(s, addrs) == {r \in (Monitored \cap {s}) \X addrs : s \in ObjectsAt(r[2])}

(***************************************************************************)
(* A function is entered: its local object is recorded after the alloca.   *)
(***************************************************************************)
Call(f) ==
    /\ Len(stack) < Len(FrameAddr)
    /\ f \in Range(stack) => f \in RecursiveFuns
    /\ stack' = Append(stack, f)
    /\ vgepRecordTarget(f, FrameAddr[Len(stack) + 1])
    /\ UNCHANGED <<pwcInvariants, invFlipped, cfiErrors, heap, onWay, historyVars>>

(***************************************************************************)
(* Every return resets the id of the function's local object, whichever    *)
(* activation it leaves: those below it lose their records.                *)
(***************************************************************************)
ReturnMutant ==
    /\ stack # <<>>
    /\ stack' = SubSeq(stack, 1, Len(stack) - 1)
    /\ UNCHANGED <<monitorVars, heap, onWay, historyVars>>

Return ==
    /\ stack # <<>>
    /\ stack' = SubSeq(stack, 1, Len(stack) - 1)
    /\ vgepRecordTarget(stack[Len(stack)], Null)
    /\ forgotten' = (forgotten \cup ObjectsOf(stack[Len(stack)], Addrs))
                        \ {<<stack[Len(stack)], FrameAddr[Len(stack)]>>}
    /\ UNCHANGED <<pwcInvariants, invFlipped, cfiErrors, heap, onWay, badVgep, badPwc, hidden>>

(***************************************************************************)
(* The result of an allocator call is recorded, a null one too: it resets  *)
(* the records of the objects that the same call has allocated before.     *)
(***************************************************************************)
Malloc(s) ==
    /\ \/ \E a \in HeapAddrs :
            /\ heap[a] = Nothing
            /\ heap' = [heap EXCEPT ![a] = s]
            /\ vgepRecordTarget(s, a)
            /\ UNCHANGED forgotten
       \/ /\ s \in FailingSites
          /\ vgepRecordTarget(s, Null)
          /\ forgotten' = forgotten \cup ObjectsOf(s, HeapAddrs)
          /\ UNCHANGED heap
    /\ UNCHANGED <<pwcInvariants, invFlipped, cfiErrors, stack, onWay, badVgep, badPwc, hidden>>

(***************************************************************************)
(* ptdTargetCheck compares the operand with the recorded base addresses of *)
(* the gep's targets, outside the stack the process began with.            *)
(***************************************************************************)
ptdTargetCheck(g, a, off) ==
    /\ a \notin KnownStack
    /\ off = 0
    /\ \E s \in Excluded[g] : a \in vgepMap[s]

\* What ptdTargetCheck does not see: the ignored stack, an operand inside
\* the object, and an object whose record was reset.
VgepHidden(g, a, off) ==
    a \in KnownStack \/ off # 0 \/ \E s \in Excluded[g] : <<s, a>> \in forgotten

Vgep(g, a, off) ==
    /\ ObjectsAt(a) # {}
    /\ invFlipped' = (invFlipped \/ ptdTargetCheck(g, a, off))
    /\ badVgep' = (badVgep \/ ObjectsAt(a) \cap Excluded[g] # {})
    /\ hidden' = (hidden \/ (ObjectsAt(a) \cap Excluded[g] # {} /\ VgepHidden(g, a, off)))
    /\ UNCHANGED <<vgepMap, pwcInvariants, cfiErrors, programVars, forgotten, badPwc>>

(***************************************************************************)
(* checkPWC sees a pointer before the watched gep of a cycle, updatePWC    *)
(* records it after the gep.                                               *)
(***************************************************************************)
checkPWC(c, newVal) ==
    /\ computeOffsetInPWC(c) # 0
    /\ newVal \notin KnownStackPwc
    /\ newVal = pwcInvariants[c] + computeOffsetInPWC(c)

\* Only the first pointer is recorded.
updatePWCMutant(c, invVal) ==
    pwcInvariants' = [pwcInvariants EXCEPT ![c] = IF @ = 0 THEN invVal % IntWidth ELSE @]

updatePWC(c, invVal) == pwcInvariants' = [pwcInvariants EXCEPT ![c] = invVal % IntWidth]

\* What geps add at run time beyond their constant offsets.
Drifts(geps) == IF geps \cap VariableGeps = {} THEN {0} ELSE 0..MaxDrift

\* What p may be when it has passed the other geps of its cycle.
ComesBackAs(p) ==
    LET others == PwcGeps[p.cycle] \ {FirstGep[p.cycle]} IN
    {r \in Ptrs : \E k \in Drifts(others) : r = p.after + ConstantOffset(others) + k}

\* What checkPWC does not see: a cycle that is not watched or has no constant
\* offset, a pointer that another has followed through the gep, that the gep
\* itself or a gep without a constant offset has moved, whose upper bits are
\* lost, or that is in the ignored stack.
TurnHidden(p, r) ==
    \/ p.cycle \notin Watched \/ computeOffsetInPWC(p.cycle) = 0
    \/ ~p.alone \/ p.after # p.before
    \/ r # p.before + computeOffsetInPWC(p.cycle)
    \/ p.before >= IntWidth \/ r \in KnownStackPwc

(***************************************************************************)
(* A pointer passes the first gep of a cycle: one that enters it, or p,    *)
(* which has come round.  Passing pointers of every cycle that begins with *)
(* the gep are checked and recorded for the one that watches it.           *)
(***************************************************************************)
Passes(c, r, out, others) ==
    /\ \E w \in Watched :
            /\ FirstGep[w] = FirstGep[c]
            /\ invFlipped' = (invFlipped \/ checkPWC(w, r))
            /\ updatePWC(w, out)
    /\ onWay' = {[o EXCEPT !.alone = @ /\ FirstGep[o.cycle] # FirstGep[c]] : o \in others}
                    \cup {[cycle |-> c, before |-> r, after |-> out, alone |-> TRUE]}
    /\ UNCHANGED <<vgepMap, cfiErrors, stack, heap, forgotten, badVgep>>

Results(c, r) == {r + GepOffset[FirstGep[c]] + k : k \in Drifts({FirstGep[c]})}

Enter(c, r) ==
    /\ Cardinality(onWay) < MaxOnWay
    /\ \E out \in Results(c, r) : Passes(c, r, out, onWay)
    /\ UNCHANGED <<badPwc, hidden>>

ComeRound(p, r) ==
    /\ r \in ComesBackAs(p)
    /\ \E out \in Results(p.cycle, r) : Passes(p.cycle, r, out, onWay \ {p})
    /\ badPwc' = (badPwc \/ r # p.before)
    /\ hidden' = (hidden \/ (r # p.before /\ TurnHidden(p, r)))

(***************************************************************************)
(* checkCFI before an indirect call.  Call sites without a target in the   *)
(* optimistic solution are never registered and have no check.             *)
(***************************************************************************)
Instrumented == {cs \in CallSites : WInv[cs] # {}}

validTgtsMutant(cs) == WInv[cs]

validTgts(cs) == IF invFlipped THEN WoInv[cs] ELSE WInv[cs]

IndirectCall(cs, t) ==
    /\ t \in WInv[cs] \/ (t \in WoInv[cs] /\ (badVgep \/ badPwc))
    /\ cfiErrors' = cfiErrors \cup
           {c \in {<<cs, t>>} : cs \in Instrumented /\ t \notin validTgts(cs)}
    /\ UNCHANGED <<vgepMap, pwcInvariants, invFlipped, programVars, historyVars>>

Next ==
    \/ \E f \in Funs : Call(f)
    \/ Return
    \/ \E s \in HeapSites : Malloc(s)
    \/ \E g \in Vgeps, a \in Addrs, off \in Offs : Vgep(g, a, off)
    \/ \E c \in Pwcs, r \in Ptrs : Enter(c, r)
    \/ \E p \in onWay, r \in Ptrs : ComeRound(p, r)
    \/ \E cs \in CallSites, t \in Targets : IndirectCall(cs, t)

Spec == Init /\ [][Next]_vars
-----------------------------------------------------------------------------
(***************************************************************************)
(* The table never names memory that the site's objects have left: frames  *)
(* come and go at the same addresses, and an address left behind would be  *)
(* taken for another function's local.                                     *)
(***************************************************************************)
RecordsLive == \A s \in Monitored : \A a \in vgepMap[s] : s \in ObjectsAt(a)

(***************************************************************************)
(* The policy switches only when an invariant has failed: before a pointer *)
(* has been on a cycle, invFlipped means that a gep has reached an object  *)
(* it was assumed to miss.                                                 *)
(***************************************************************************)
NoFalseAlarm == invFlipped => badVgep \/ onWay # {}

(***************************************************************************)
(* instrumentVGEPInvariant: "Check that the gep can never point to the     *)
(* objects in target".  Wherever an excluded object is, a gep that reached *)
(* it now would switch the policy, but for the ignored stack, an operand   *)
(* inside the object, and a record that another activation's return or a   *)
(* failed allocation has reset.                                            *)
(***************************************************************************)
VgepsDetected ==
    \A g \in Vgeps, a \in Addrs, off \in Offs :
        ObjectsAt(a) \cap Excluded[g] # {} => ptdTargetCheck(g, a, off) \/ VgepHidden(g, a, off)

(***************************************************************************)
(* However many pointers are on their way round however many cycles,       *)
(* checkPWC will see each of them come round, but for the turns that       *)
(* TurnHidden lists: the table has one record for all cycles that begin    *)
(* with a gep, that of the last pointer, after the gep, in 32 bits.        *)
(***************************************************************************)
TurnsDetected ==
    \A p \in onWay : \A r \in ComesBackAs(p) : TurnHidden(p, r) \/ checkPWC(p.cycle, r)

(***************************************************************************)
(* handlePWCInvariants: "If the cycle is complete, then the first time r   *)
(* will have the value r'.  When the cycle is complete it'll have r' + 4.  *)
(* This indicates the cycle is complete".                                  *)
(***************************************************************************)
CyclesDetected == badPwc => invFlipped

(***************************************************************************)
(* A call that the fallback policy allows is reported only if the failure  *)
(* that made it possible is one that the monitor may miss.                 *)
(***************************************************************************)
ErrorsExplained == cfiErrors # {} => hidden
=============================================================================
