------------------------- MODULE KaliMonitorProofs -------------------------
(***************************************************************************)
(* What the monitor's two tables promise, whatever the program is, how deep*)
(* it calls, which sites the invariants exclude, which cycles there are    *)
(* and what their geps add.                                                *)
(***************************************************************************)
EXTENDS KaliMonitor, TLAPS, SequenceTheorems

(***************************************************************************)
(* vgepRecordTarget changes the record of one site.                        *)
(***************************************************************************)
LEMMA RecordType ==
    ASSUME TypeOK, NEW s, NEW val \in Addrs \cup {Null}, vgepRecordTarget(s, val)
    PROVE  /\ vgepMap' \in [Monitored -> SUBSET Addrs]
           /\ \A t \in Monitored : t # s => vgepMap'[t] = vgepMap[t]
           /\ s \in Monitored /\ val = Null => vgepMap'[s] = {}
           /\ s \in Monitored /\ val # Null => vgepMap'[s] = vgepMap[s] \cup {val}
BY DEF vgepRecordTarget, TypeOK

(***************************************************************************)
(* What passes a gep is a number, recorded as one that fits the table.     *)
(***************************************************************************)
LEMMA ResultsAreNumbers ==
    ASSUME NEW c \in Pwcs, NEW r \in Ptrs, NEW out \in Results(c, r)
    PROVE  out \in Nat /\ out % IntWidth \in Nat
<1>1. FirstGep[c] \in DOMAIN GepOffset
  BY MonitorAssumption DEF Pwcs
<1>2. GepOffset[FirstGep[c]] \in Nat
  BY <1>1, MonitorAssumption
<1>3. r \in Nat /\ MaxDrift \in Nat
  BY MonitorAssumption DEF Ptrs
<1>4. \A k \in Drifts({FirstGep[c]}) : k \in Nat
  BY <1>3 DEF Drifts
<1>5. PICK k \in Drifts({FirstGep[c]}) : out = r + GepOffset[FirstGep[c]] + k
  BY DEF Results
<1>6. out \in Nat
  <2>1. k \in Nat
    BY <1>4
  <2> QED
    BY <1>2, <1>3, <1>5, <2>1
<1> QED
  BY <1>6, MonitorAssumption

(***************************************************************************)
(* A pass leaves the table of cycles a table of numbers, and its pointer   *)
(* joins the others on their way.                                          *)
(***************************************************************************)
LEMMA PassKeepsTypes ==
    ASSUME TypeOK, NEW c \in Pwcs, NEW r \in Ptrs, NEW out \in Results(c, r),
           NEW others \in SUBSET Travellers, Passes(c, r, out, others)
    PROVE  /\ pwcInvariants' \in [Watched -> Nat]
           /\ invFlipped' \in BOOLEAN
           /\ onWay' \subseteq Travellers
<1>1. out \in Nat /\ out % IntWidth \in Nat
  BY ResultsAreNumbers
<1>2. PICK w \in Watched : /\ invFlipped' = (invFlipped \/ checkPWC(w, r))
                           /\ updatePWC(w, out)
  BY DEF Passes
<1>3. pwcInvariants' \in [Watched -> Nat]
  BY <1>1, <1>2 DEF updatePWC, TypeOK
<1>4. [cycle |-> c, before |-> r, after |-> out, alone |-> TRUE] \in Travellers
  BY <1>1 DEF Travellers
<1>5. \A o \in others : [o EXCEPT !.alone = @ /\ FirstGep[o.cycle] # FirstGep[c]] \in Travellers
  BY DEF Travellers
<1>6. onWay' \subseteq Travellers
  BY <1>4, <1>5 DEF Passes
<1> QED
  BY <1>2, <1>3, <1>6 DEF TypeOK

(***************************************************************************)
(* The monitor's state and the program's keep their types.                 *)
(***************************************************************************)
THEOREM TypeCorrect == Spec => []TypeOK
<1>1. Init => TypeOK
  <2> SUFFICES ASSUME Init PROVE TypeOK
    OBVIOUS
  <2>1. stack \in Seq(Funs) /\ Len(stack) <= Len(FrameAddr)
    BY MonitorAssumption DEF Init
  <2>2. heap \in [HeapAddrs -> HeapSites \cup {Nothing}]
    BY DEF Init
  <2>3. vgepMap \in [Monitored -> SUBSET Addrs]
    BY DEF Init
  <2>4. pwcInvariants \in [Watched -> Nat]
    BY DEF Init
  <2> QED
    BY <2>1, <2>2, <2>3, <2>4 DEF Init, TypeOK
<1>2. TypeOK /\ [Next]_vars => TypeOK'
  <2> SUFFICES ASSUME TypeOK, [Next]_vars PROVE TypeOK'
    OBVIOUS
  <2>1. ASSUME NEW f \in Funs, Call(f) PROVE TypeOK'
    <3>0. Len(stack) + 1 \in 1..Len(FrameAddr)
      BY <2>1, MonitorAssumption DEF Call, TypeOK
    <3>1. FrameAddr[Len(stack) + 1] \in Addrs
      BY <3>0, MonitorAssumption
    <3>2. vgepMap' \in [Monitored -> SUBSET Addrs]
      BY <2>1, <3>1, RecordType DEF Call
    <3> QED
      BY <2>1, <3>2, <3>0, MonitorAssumption DEF Call, historyVars, TypeOK
  <2>2. CASE Return
    <3>1. vgepMap' \in [Monitored -> SUBSET Addrs]
      BY <2>2, RecordType DEF Return
    <3>2. stack' \in Seq(Funs) /\ Len(stack') <= Len(FrameAddr)
      BY <2>2, MonitorAssumption DEF Return, TypeOK
    <3>3. forgotten' \subseteq Monitored \X Addrs
      BY <2>2 DEF Return, ObjectsOf, TypeOK
    <3> QED
      BY <2>2, <3>1, <3>2, <3>3 DEF Return, TypeOK
  <2>3. ASSUME NEW s \in HeapSites, Malloc(s) PROVE TypeOK'
    <3>1. CASE \E a \in HeapAddrs :
                 /\ heap[a] = Nothing
                 /\ heap' = [heap EXCEPT ![a] = s]
                 /\ vgepRecordTarget(s, a)
                 /\ UNCHANGED forgotten
      <4>1. PICK a \in HeapAddrs : /\ heap' = [heap EXCEPT ![a] = s]
                                   /\ vgepRecordTarget(s, a)
                                   /\ UNCHANGED forgotten
        BY <3>1
      <4>2. vgepMap' \in [Monitored -> SUBSET Addrs]
        BY <4>1, RecordType DEF Addrs
      <4> QED
        BY <2>3, <4>1, <4>2 DEF Malloc, TypeOK
    <3>2. CASE /\ vgepRecordTarget(s, Null) /\ UNCHANGED heap
               /\ forgotten' = forgotten \cup ObjectsOf(s, HeapAddrs)
      <4>1. vgepMap' \in [Monitored -> SUBSET Addrs]
        BY <3>2, RecordType
      <4>2. forgotten' \subseteq Monitored \X Addrs
        BY <3>2 DEF ObjectsOf, Addrs, TypeOK
      <4> QED
        BY <2>3, <3>2, <4>1, <4>2 DEF Malloc, TypeOK
    <3> QED
      BY <2>3, <3>1, <3>2 DEF Malloc
  <2>4. ASSUME NEW g \in Vgeps, NEW a \in Addrs, NEW off \in Offs, Vgep(g, a, off)
        PROVE  TypeOK'
    BY <2>4 DEF Vgep, programVars, TypeOK
  <2>5. ASSUME NEW c \in Pwcs, NEW r \in Ptrs, Enter(c, r) PROVE TypeOK'
    <3>1. PICK out \in Results(c, r) : Passes(c, r, out, onWay)
      BY <2>5 DEF Enter
    <3>2. onWay \subseteq Travellers
      BY DEF TypeOK
    <3> QED
      BY <2>5, <3>1, <3>2, PassKeepsTypes DEF Enter, Passes, TypeOK
  <2>6. ASSUME NEW p \in onWay, NEW r \in Ptrs, ComeRound(p, r) PROVE TypeOK'
    <3>1. PICK out \in Results(p.cycle, r) : Passes(p.cycle, r, out, onWay \ {p})
      BY <2>6 DEF ComeRound
    <3>2. p.cycle \in Pwcs /\ onWay \ {p} \subseteq Travellers
      BY DEF Travellers, TypeOK
    <3>3. badPwc' \in BOOLEAN /\ hidden' \in BOOLEAN
      BY <2>6 DEF ComeRound, TypeOK
    <3> QED
      BY <3>1, <3>2, <3>3, PassKeepsTypes DEF Passes, TypeOK
  <2>7. ASSUME NEW cs \in CallSites, NEW t \in Targets, IndirectCall(cs, t) PROVE TypeOK'
    BY <2>7 DEF IndirectCall, programVars, historyVars, TypeOK
  <2>8. CASE UNCHANGED vars
    BY <2>8 DEF vars, monitorVars, programVars, historyVars, TypeOK
  <2> QED
    BY <2>1, <2>2, <2>3, <2>4, <2>5, <2>6, <2>7, <2>8 DEF Next
<1> QED
  BY <1>1, <1>2, PTL DEF Spec

(***************************************************************************)
(* Objects stay where they are until their function returns: what a call   *)
(* or an allocation adds, and what a return takes away.                    *)
(***************************************************************************)
LEMMA CallKeepsObjects ==
    ASSUME TypeOK, NEW f \in Funs, Call(f), NEW a
    PROVE  /\ ObjectsAt(a) \subseteq ObjectsAt(a)'
           /\ a = FrameAddr[Len(stack) + 1] => f \in ObjectsAt(a)'
           /\ a # FrameAddr[Len(stack) + 1] => ObjectsAt(a)' = ObjectsAt(a)
           /\ ObjectsAt(a)' \subseteq ObjectsAt(a) \cup {f}
<1>1. /\ stack' = Append(stack, f) /\ heap' = heap /\ stack \in Seq(Funs)
  BY DEF Call, TypeOK
<1>2. /\ DOMAIN stack' = DOMAIN stack \cup {Len(stack) + 1}
      /\ stack'[Len(stack) + 1] = f
      /\ \A d \in DOMAIN stack : stack'[d] = stack[d]
  BY <1>1
<1> DEFINE F(st) == {st[d] : d \in {d \in DOMAIN st : FrameAddr[d] = a}}
<1>3. F(stack') = F(stack) \cup {x \in {f} : FrameAddr[Len(stack) + 1] = a}
  BY <1>2
<1> HIDE DEF F
<1>6. /\ ObjectsAt(a) = F(stack) \cup {heap[b] : b \in {b \in HeapAddrs \cap {a} : heap[b] # Nothing}}
      /\ ObjectsAt(a)' = F(stack') \cup {heap[b] : b \in {b \in HeapAddrs \cap {a} : heap[b] # Nothing}}
  BY <1>1 DEF ObjectsAt, F
<1> QED
  BY <1>3, <1>6

(***************************************************************************)
(* A return takes away the local of the returning function and nothing     *)
(* else.                                                                   *)
(***************************************************************************)
LEMMA ReturnKeepsObjects ==
    ASSUME TypeOK, Return, NEW a, NEW s, s # stack[Len(stack)]
    PROVE  s \in ObjectsAt(a)' <=> s \in ObjectsAt(a)
<1>1. /\ stack \in Seq(Funs) /\ stack # <<>> /\ heap' = heap
      /\ stack' = SubSeq(stack, 1, Len(stack) - 1)
  BY DEF Return, TypeOK
<1>0. Len(stack) \in Nat \ {0}
  BY <1>1, EmptySeq
<1>2. /\ DOMAIN stack = DOMAIN stack' \cup {Len(stack)}
      /\ \A d \in DOMAIN stack' : stack'[d] = stack[d]
  <2>1. /\ DOMAIN stack' = 1..(Len(stack) - 1)
        /\ \A d \in 1..(Len(stack) - 1) : stack'[d] = stack[d]
    BY <1>0, <1>1
  <2>2. DOMAIN stack = 1..Len(stack)
    BY <1>1
  <2>3. 1..Len(stack) = 1..(Len(stack) - 1) \cup {Len(stack)}
    BY <1>0
  <2> QED
    BY <2>1, <2>2, <2>3
<1> QED
  BY <1>1, <1>2 DEF ObjectsAt

(***************************************************************************)
(* An allocation adds one object at a free address.                        *)
(***************************************************************************)
LEMMA MallocKeepsObjects ==
    ASSUME TypeOK, NEW s \in HeapSites, NEW b \in HeapAddrs, heap[b] = Nothing,
           heap' = [heap EXCEPT ![b] = s], stack' = stack, NEW a
    PROVE  /\ ObjectsAt(a) \subseteq ObjectsAt(a)'
           /\ s \in ObjectsAt(b)'
           /\ ObjectsAt(a)' \subseteq ObjectsAt(a) \cup {s}
           /\ a # b => ObjectsAt(a)' = ObjectsAt(a)
<1>1. s # Nothing
  BY MonitorAssumption DEF Sites
<1>2. /\ heap'[b] = s /\ \A c \in HeapAddrs : c # b => heap'[c] = heap[c]
  BY DEF TypeOK
<1> QED
  BY <1>1, <1>2 DEF ObjectsAt

(***************************************************************************)
(* The other steps leave the table and the program's memory alone.         *)
(***************************************************************************)
LEMMA TableStays ==
    ASSUME [Next]_vars
    PROVE  \/ \E f \in Funs : Call(f)
           \/ Return
           \/ \E s \in HeapSites : Malloc(s)
           \/ UNCHANGED <<vgepMap, stack, heap, forgotten>>
<1>1. ASSUME NEW g \in Vgeps, NEW b \in Addrs, NEW off \in Offs, Vgep(g, b, off)
      PROVE  UNCHANGED <<vgepMap, stack, heap, forgotten>>
  BY <1>1 DEF Vgep, programVars
<1>2. ASSUME NEW c \in Pwcs, NEW r \in Ptrs, Enter(c, r)
      PROVE  UNCHANGED <<vgepMap, stack, heap, forgotten>>
  BY <1>2 DEF Enter, Passes
<1>3. ASSUME NEW p \in onWay, NEW r \in Ptrs, ComeRound(p, r)
      PROVE  UNCHANGED <<vgepMap, stack, heap, forgotten>>
  BY <1>3 DEF ComeRound, Passes
<1>4. ASSUME NEW cs \in CallSites, NEW t \in Targets, IndirectCall(cs, t)
      PROVE  UNCHANGED <<vgepMap, stack, heap, forgotten>>
  BY <1>4 DEF IndirectCall, programVars, historyVars
<1>5. UNCHANGED vars => UNCHANGED <<vgepMap, stack, heap, forgotten>>
  BY DEF vars, monitorVars, programVars, historyVars
<1> QED
  BY <1>1, <1>2, <1>3, <1>4, <1>5 DEF Next

(***************************************************************************)
(* Every recorded address is that of a live object of the site: returns    *)
(* take the local's address out before its frame can be used again.        *)
(***************************************************************************)
THEOREM RecordsStayLive == Spec => []RecordsLive
<1>1. Init => RecordsLive
  BY DEF Init, RecordsLive
<1>2. TypeOK /\ RecordsLive /\ [Next]_vars => RecordsLive'
  <2> SUFFICES ASSUME TypeOK, RecordsLive, [Next]_vars,
                      NEW s \in Monitored, NEW a \in vgepMap'[s]
               PROVE  s \in ObjectsAt(a)'
    BY DEF RecordsLive
  <2>1. ASSUME NEW f \in Funs, Call(f) PROVE s \in ObjectsAt(a)'
    <3>0. FrameAddr[Len(stack) + 1] \in Addrs /\ FrameAddr[Len(stack) + 1] # Null
      BY <2>1, MonitorAssumption DEF Call, TypeOK
    <3>1. CASE a \in vgepMap[s]
      BY <2>1, <3>1, CallKeepsObjects DEF RecordsLive
    <3>2. CASE a \notin vgepMap[s]
      <4>1. vgepRecordTarget(f, FrameAddr[Len(stack) + 1])
        BY <2>1 DEF Call
      <4>2. s = f /\ a = FrameAddr[Len(stack) + 1]
        BY <3>0, <3>2, <4>1, RecordType
      <4> QED
        BY <2>1, <4>2, CallKeepsObjects
    <3> QED
      BY <3>1, <3>2
  <2>2. CASE Return
    <3>1. vgepRecordTarget(stack[Len(stack)], Null)
      BY <2>2 DEF Return
    <3>2. s # stack[Len(stack)] /\ a \in vgepMap[s]
      BY <3>1, RecordType
    <3>3. s \in ObjectsAt(a)
      BY <3>2 DEF RecordsLive
    <3> QED
      BY <2>2, <3>2, <3>3, ReturnKeepsObjects
  <2>3. ASSUME NEW h \in HeapSites, Malloc(h) PROVE s \in ObjectsAt(a)'
    <3>1. CASE \E b \in HeapAddrs :
                 /\ heap[b] = Nothing
                 /\ heap' = [heap EXCEPT ![b] = h]
                 /\ vgepRecordTarget(h, b)
      <4>1. PICK b \in HeapAddrs : /\ heap[b] = Nothing
                                   /\ heap' = [heap EXCEPT ![b] = h]
                                   /\ vgepRecordTarget(h, b)
        BY <3>1
      <4>2. stack' = stack /\ b \in Addrs /\ b # Null
        BY <2>3, MonitorAssumption DEF Malloc, Addrs
      <4>3. CASE a \in vgepMap[s]
        <5>1. heap[b] = Nothing /\ heap' = [heap EXCEPT ![b] = h]
          BY <4>1
        <5>2. ObjectsAt(a) \subseteq ObjectsAt(a)'
          BY <4>2, <5>1, MallocKeepsObjects
        <5> QED
          BY <4>3, <5>2 DEF RecordsLive
      <4>4. CASE a \notin vgepMap[s]
        <5>1. s = h /\ a = b
          BY <4>1, <4>2, <4>4, RecordType
        <5>2. heap[b] = Nothing /\ heap' = [heap EXCEPT ![b] = h]
          BY <4>1
        <5>3. h \in ObjectsAt(b)'
          BY <4>2, <5>2, MallocKeepsObjects
        <5> QED
          BY <5>1, <5>3
      <4> QED
        BY <4>3, <4>4
    <3>2. CASE vgepRecordTarget(h, Null) /\ UNCHANGED heap
      <4>1. a \in vgepMap[s] /\ UNCHANGED stack
        BY <2>3, <3>2, RecordType DEF Malloc
      <4> QED
        BY <3>2, <4>1 DEF RecordsLive, ObjectsAt
    <3> QED
      BY <2>3, <3>1, <3>2 DEF Malloc
  <2>4. CASE UNCHANGED <<vgepMap, stack, heap>>
    BY <2>4 DEF RecordsLive, ObjectsAt
  <2> QED
    BY <2>1, <2>2, <2>3, <2>4, TableStays DEF Next
<1> QED
  BY <1>1, <1>2, TypeCorrect, PTL DEF Spec

(***************************************************************************)
(* The policy switches only after an excluded object was reached or a      *)
(* pointer went on a cycle: frames that reuse an address raise no alarm,   *)
(* whatever the program is.                                                *)
(***************************************************************************)
THEOREM NoFalseAlarms == Spec => []NoFalseAlarm
<1>1. Init => NoFalseAlarm
  BY DEF Init, NoFalseAlarm
<1>2. RecordsLive /\ NoFalseAlarm /\ [Next]_vars => NoFalseAlarm'
  <2> SUFFICES ASSUME RecordsLive, NoFalseAlarm, [Next]_vars PROVE NoFalseAlarm'
    OBVIOUS
  <2>1. ASSUME NEW g \in Vgeps, NEW a \in Addrs, NEW off \in Offs, Vgep(g, a, off)
        PROVE  NoFalseAlarm'
    <3>1. CASE ptdTargetCheck(g, a, off)
      <4>1. PICK s \in Excluded[g] : a \in vgepMap[s]
        BY <3>1 DEF ptdTargetCheck
      <4>2. s \in Monitored
        BY DEF Monitored
      <4>3. s \in ObjectsAt(a)
        BY <4>1, <4>2 DEF RecordsLive
      <4>4. badVgep'
        BY <2>1, <4>3 DEF Vgep
      <4> QED
        BY <4>4 DEF NoFalseAlarm
    <3>2. CASE ~ptdTargetCheck(g, a, off)
      BY <2>1, <3>2 DEF Vgep, programVars, NoFalseAlarm
    <3> QED
      BY <3>1, <3>2
  <2>2. ASSUME NEW c \in Pwcs, NEW r \in Ptrs, Enter(c, r) PROVE NoFalseAlarm'
    BY <2>2 DEF Enter, Passes, NoFalseAlarm
  <2>3. ASSUME NEW p \in onWay, NEW r \in Ptrs, ComeRound(p, r) PROVE NoFalseAlarm'
    BY <2>3 DEF ComeRound, Passes, NoFalseAlarm
  <2>4. CASE UNCHANGED <<invFlipped, badVgep, onWay>>
    BY <2>4 DEF NoFalseAlarm
  <2> QED
    BY <2>1, <2>2, <2>3, <2>4
       DEF Next, Call, Return, Malloc, IndirectCall, programVars, monitorVars, historyVars, vars
<1> QED
  BY <1>1, <1>2, RecordsStayLive, PTL DEF Spec

(***************************************************************************)
(* The converse of RecordsLive: an object of a monitored site is missing   *)
(* from the table only where a return of another activation or a failed    *)
(* allocation has reset it.                                                *)
(***************************************************************************)
RecordedUnlessForgotten ==
    \A s \in Monitored, a \in Addrs :
        s \in ObjectsAt(a) => a \in vgepMap[s] \/ <<s, a>> \in forgotten

(***************************************************************************)
(* A call adds to the records, and the only new object is recorded.        *)
(***************************************************************************)
LEMMA CallRecords ==
    ASSUME TypeOK, RecordedUnlessForgotten, NEW f \in Funs, Call(f)
    PROVE  RecordedUnlessForgotten'
<1> SUFFICES ASSUME NEW s \in Monitored, NEW a \in Addrs, s \in ObjectsAt(a)'
             PROVE  a \in vgepMap'[s] \/ <<s, a>> \in forgotten'
  BY DEF RecordedUnlessForgotten
<1>1. vgepRecordTarget(f, FrameAddr[Len(stack) + 1]) /\ forgotten' = forgotten
  BY DEF Call, historyVars
<1>2. FrameAddr[Len(stack) + 1] \in Addrs /\ FrameAddr[Len(stack) + 1] # Null
  BY MonitorAssumption DEF Call, TypeOK
<1>3. CASE s \in ObjectsAt(a)
  BY <1>1, <1>2, <1>3, RecordType DEF RecordedUnlessForgotten
<1>4. CASE s \notin ObjectsAt(a)
  <2>1. s = f /\ a = FrameAddr[Len(stack) + 1]
    BY <1>4, CallKeepsObjects
  <2> QED
    BY <1>1, <1>2, <2>1, RecordType
<1> QED
  BY <1>3, <1>4

(***************************************************************************)
(* A return forgets the other activations of its function, and its own     *)
(* local is gone.                                                          *)
(***************************************************************************)
LEMMA ReturnRecords ==
    ASSUME TypeOK, RecordedUnlessForgotten, Return
    PROVE  RecordedUnlessForgotten'
<1> SUFFICES ASSUME NEW s \in Monitored, NEW a \in Addrs, s \in ObjectsAt(a)'
             PROVE  a \in vgepMap'[s] \/ <<s, a>> \in forgotten'
  BY DEF RecordedUnlessForgotten
<1> DEFINE f == stack[Len(stack)]
<1>1. /\ vgepRecordTarget(f, Null)
      /\ forgotten' = (forgotten \cup ObjectsOf(f, Addrs)) \ {<<f, FrameAddr[Len(stack)]>>}
  BY DEF Return
<1>2. CASE s # f
  <2>1. s \in ObjectsAt(a)
    BY <1>2, ReturnKeepsObjects
  <2>2. a \in vgepMap[s] \/ <<s, a>> \in forgotten
    BY <2>1 DEF RecordedUnlessForgotten
  <2>3. vgepMap'[s] = vgepMap[s]
    BY <1>1, <1>2, RecordType
  <2> QED
    BY <1>1, <1>2, <2>2, <2>3
<1>3. CASE s = f
  <2>1. /\ stack \in Seq(Funs) /\ stack # <<>> /\ heap' = heap
        /\ stack' = SubSeq(stack, 1, Len(stack) - 1)
    BY DEF Return, TypeOK
  <2>2. /\ Len(stack) \in Nat \ {0} /\ DOMAIN stack = 1..Len(stack)
        /\ Len(stack) <= Len(FrameAddr)
    BY <2>1, EmptySeq DEF TypeOK
  <2>3. /\ DOMAIN stack' = 1..(Len(stack) - 1)
        /\ \A d \in 1..(Len(stack) - 1) : stack'[d] = stack[d]
    BY <2>1, <2>2
  <2>4. s \in Funs
    BY <1>3, <2>1, <2>2
  <2>5. \A b \in HeapAddrs : heap[b] # s \/ heap[b] = Nothing
    BY <2>4, MonitorAssumption DEF TypeOK
  <2>6. PICK d \in 1..(Len(stack) - 1) : stack[d] = s /\ FrameAddr[d] = a
    BY <2>1, <2>3, <2>5 DEF ObjectsAt
  <2>7. s \in ObjectsAt(a)
    BY <2>2, <2>6 DEF ObjectsAt
  <2>8. a # FrameAddr[Len(stack)]
    <3>1. d \in Depths /\ Len(stack) \in Depths /\ d # Len(stack)
      BY <2>2, MonitorAssumption DEF Depths
    <3> QED
      BY <2>6, <3>1, MonitorAssumption
  <2>9. <<s, a>> \in ObjectsOf(f, Addrs)
    BY <1>3, <2>7 DEF ObjectsOf
  <2> QED
    BY <1>1, <2>8, <2>9
<1> QED
  BY <1>2, <1>3

(***************************************************************************)
(* An allocation records its object, and one that fails forgets those that *)
(* the same call has allocated.                                            *)
(***************************************************************************)
LEMMA MallocRecords ==
    ASSUME TypeOK, RecordedUnlessForgotten, NEW h \in HeapSites, Malloc(h)
    PROVE  RecordedUnlessForgotten'
<1> SUFFICES ASSUME NEW s \in Monitored, NEW a \in Addrs, s \in ObjectsAt(a)'
             PROVE  a \in vgepMap'[s] \/ <<s, a>> \in forgotten'
  BY DEF RecordedUnlessForgotten
<1>1. CASE \E b \in HeapAddrs : /\ heap[b] = Nothing
                                /\ heap' = [heap EXCEPT ![b] = h]
                                /\ vgepRecordTarget(h, b)
                                /\ UNCHANGED forgotten
  <2>1. PICK b \in HeapAddrs : /\ heap[b] = Nothing
                               /\ heap' = [heap EXCEPT ![b] = h]
                               /\ vgepRecordTarget(h, b)
                               /\ UNCHANGED forgotten
    BY <1>1
  <2>2. stack' = stack /\ b \in Addrs /\ b # Null
    BY MonitorAssumption DEF Malloc, Addrs
  <2>3. CASE s \in ObjectsAt(a)
    BY <2>1, <2>2, <2>3, RecordType DEF RecordedUnlessForgotten
  <2>4. CASE s \notin ObjectsAt(a)
    <3>1. heap[b] = Nothing /\ heap' = [heap EXCEPT ![b] = h]
      BY <2>1
    <3>2. /\ ObjectsAt(a)' \subseteq ObjectsAt(a) \cup {h}
          /\ a # b => ObjectsAt(a)' = ObjectsAt(a)
      BY <2>2, <3>1, MallocKeepsObjects
    <3>3. s = h /\ a = b
      BY <2>4, <3>2
    <3>4. vgepRecordTarget(h, b)
      BY <2>1
    <3> QED
      BY <2>2, <3>3, <3>4, RecordType
  <2> QED
    BY <2>3, <2>4
<1>2. CASE /\ vgepRecordTarget(h, Null) /\ UNCHANGED heap
           /\ forgotten' = forgotten \cup ObjectsOf(h, HeapAddrs)
  <2>1. s \in ObjectsAt(a) /\ stack' = stack
    BY <1>2 DEF Malloc, ObjectsAt
  <2>2. CASE s # h
    BY <1>2, <2>1, <2>2, RecordType DEF RecordedUnlessForgotten
  <2>3. CASE s = h
    <3>1. s \notin Funs
      BY <2>3, MonitorAssumption
    <3>2. \A d \in DOMAIN stack : stack[d] # s
      BY <3>1 DEF TypeOK
    <3>3. a \in HeapAddrs
      BY <2>1, <3>2 DEF ObjectsAt
    <3>4. <<s, a>> \in ObjectsOf(h, HeapAddrs)
      BY <2>1, <2>3, <3>3 DEF ObjectsOf
    <3> QED
      BY <1>2, <3>4
  <2> QED
    BY <2>2, <2>3
<1> QED
  BY <1>1, <1>2 DEF Malloc

(***************************************************************************)
(* Whatever the program calls and allocates, a gep that reaches an excluded*)
(* object switches the policy, but for the ignored stack, operands inside  *)
(* the object, and records reset by another activation's return or a failed*)
(* allocation.                                                             *)
(***************************************************************************)
THEOREM ExcludedObjectsDetected == Spec => []VgepsDetected
<1>1. Init => RecordedUnlessForgotten
  BY DEF Init, ObjectsAt, RecordedUnlessForgotten
<1>2. TypeOK /\ RecordedUnlessForgotten /\ [Next]_vars => RecordedUnlessForgotten'
  <2> SUFFICES ASSUME TypeOK, RecordedUnlessForgotten, [Next]_vars
               PROVE  RecordedUnlessForgotten'
    OBVIOUS
  <2>1. CASE UNCHANGED <<vgepMap, stack, heap, forgotten>>
    BY <2>1 DEF RecordedUnlessForgotten, ObjectsAt
  <2> QED
    BY <2>1, TableStays, CallRecords, ReturnRecords, MallocRecords
<1>3. RecordedUnlessForgotten => VgepsDetected
  <2> SUFFICES ASSUME RecordedUnlessForgotten,
                      NEW g \in Vgeps, NEW a \in Addrs, NEW off \in Offs,
                      NEW s \in ObjectsAt(a) \cap Excluded[g], ~VgepHidden(g, a, off)
               PROVE  ptdTargetCheck(g, a, off)
    BY DEF VgepsDetected
  <2>1. s \in Monitored
    BY DEF Monitored
  <2>2. a \in vgepMap[s]
    BY <2>1 DEF RecordedUnlessForgotten, VgepHidden
  <2> QED
    BY <2>2 DEF ptdTargetCheck, VgepHidden
<1> QED
  BY <1>1, <1>2, <1>3, TypeCorrect, PTL DEF Spec

(***************************************************************************)
(* A gep has one watcher, the first of the cycles that begin with it.      *)
(***************************************************************************)
LEMMA OneWatcher ==
    ASSUME NEW c \in Watched, NEW e \in Watched, FirstGep[c] = FirstGep[e]
    PROVE  c = e
<1>1. c \in Nat /\ e \in Nat
  BY MonitorAssumption DEF Watched, Pwcs
<1>2. c <= e /\ e <= c
  BY DEF Watched
<1> QED
  BY <1>1, <1>2

(***************************************************************************)
(* The record of a watched cycle is the pointer that was the last to pass  *)
(* its first gep, whichever cycle that pointer is on.                      *)
(***************************************************************************)
LastRecorded ==
    \A p \in onWay : p.alone /\ p.cycle \in Watched
                        => pwcInvariants[p.cycle] = p.after % IntWidth

(***************************************************************************)
(* A pass records its pointer and leaves no other one alone on the gep.    *)
(***************************************************************************)
LEMMA PassRecords ==
    ASSUME TypeOK, LastRecorded, NEW c \in Pwcs, NEW r \in Ptrs, NEW out \in Results(c, r),
           NEW others \in SUBSET onWay, Passes(c, r, out, others)
    PROVE  LastRecorded'
<1> SUFFICES ASSUME NEW p \in onWay', p.alone, p.cycle \in Watched
             PROVE  pwcInvariants'[p.cycle] = p.after % IntWidth
  BY DEF LastRecorded
<1>1. PICK w \in Watched : FirstGep[w] = FirstGep[c] /\ updatePWC(w, out)
  BY DEF Passes
<1>2. pwcInvariants' = [pwcInvariants EXCEPT ![w] = out % IntWidth]
  BY <1>1 DEF updatePWC
<1>3. pwcInvariants \in [Watched -> Nat] /\ onWay \subseteq Travellers
  BY DEF TypeOK
<1>4. CASE p = [cycle |-> c, before |-> r, after |-> out, alone |-> TRUE]
  <2>1. p.cycle = w
    BY <1>1, <1>4, OneWatcher
  <2> QED
    BY <1>2, <1>3, <1>4, <2>1
<1>5. ASSUME NEW o \in others, p = [o EXCEPT !.alone = @ /\ FirstGep[o.cycle] # FirstGep[c]]
      PROVE  pwcInvariants'[p.cycle] = p.after % IntWidth
  <2>1. o \in Travellers
    BY <1>3
  <2>2. /\ p.cycle = o.cycle /\ p.after = o.after
        /\ p.alone = (o.alone /\ FirstGep[o.cycle] # FirstGep[c])
    BY <1>5, <2>1 DEF Travellers
  <2>3. o.alone /\ p.cycle # w
    BY <1>1, <2>2
  <2>4. pwcInvariants[o.cycle] = o.after % IntWidth
    BY <2>2, <2>3 DEF LastRecorded
  <2> QED
    BY <1>2, <1>3, <2>2, <2>3, <2>4
<1> QED
  BY <1>4, <1>5 DEF Passes

(***************************************************************************)
(* For any number of cycles, pointers and offsets, a pointer that comes    *)
(* round is seen by checkPWC, but for the turns that TurnHidden lists.     *)
(***************************************************************************)
THEOREM CompletionsDetected == Spec => []TurnsDetected
<1>1. Init => LastRecorded
  BY DEF Init, LastRecorded
<1>2. TypeOK /\ LastRecorded /\ [Next]_vars => LastRecorded'
  <2> SUFFICES ASSUME TypeOK, LastRecorded, [Next]_vars PROVE LastRecorded'
    OBVIOUS
  <2>1. ASSUME NEW c \in Pwcs, NEW r \in Ptrs, Enter(c, r) PROVE LastRecorded'
    BY <2>1, PassRecords DEF Enter
  <2>2. ASSUME NEW p \in onWay, NEW r \in Ptrs, ComeRound(p, r) PROVE LastRecorded'
    <3>1. p.cycle \in Pwcs
      BY DEF TypeOK, Travellers
    <3>2. PICK out \in Results(p.cycle, r) : Passes(p.cycle, r, out, onWay \ {p})
      BY <2>2 DEF ComeRound
    <3> QED
      BY <3>1, <3>2, PassRecords
  <2>3. CASE UNCHANGED <<onWay, pwcInvariants>>
    BY <2>3 DEF LastRecorded
  <2> QED
    BY <2>1, <2>2, <2>3
       DEF Next, Call, Return, Malloc, Vgep, IndirectCall, programVars, monitorVars, vars
<1>3. TypeOK /\ LastRecorded => TurnsDetected
  <2> SUFFICES ASSUME TypeOK, LastRecorded, NEW p \in onWay, NEW r \in ComesBackAs(p),
                      ~TurnHidden(p, r)
               PROVE  checkPWC(p.cycle, r)
    BY DEF TurnsDetected
  <2>1. /\ p.cycle \in Watched /\ computeOffsetInPWC(p.cycle) # 0
        /\ p.alone /\ p.after = p.before
        /\ r = p.before + computeOffsetInPWC(p.cycle)
        /\ ~(p.before >= IntWidth) /\ r \notin KnownStackPwc
    BY DEF TurnHidden
  <2>2. p.before \in Nat
    BY MonitorAssumption DEF TypeOK, Travellers, Ptrs
  <2>3. p.after % IntWidth = p.before
    <3> DEFINE n == p.before
    <3>1. n \in Nat /\ IntWidth \in Nat \ {0} /\ ~(n >= IntWidth)
      BY <2>1, <2>2, MonitorAssumption
    <3> HIDE DEF n
    <3>2. n % IntWidth = n
      BY <3>1
    <3> QED
      BY <2>1, <3>2 DEF n
  <2>4. pwcInvariants[p.cycle] = p.before
    BY <2>1, <2>3 DEF LastRecorded
  <2> QED
    BY <2>1, <2>4 DEF checkPWC
<1> QED
  BY <1>1, <1>2, <1>3, TypeCorrect, PTL DEF Spec

(***************************************************************************)
(* Every failure of an invariant has switched the policy or is one that    *)
(* the monitor may miss.                                                   *)
(***************************************************************************)
FailuresSeen == badVgep \/ badPwc => hidden \/ invFlipped

(***************************************************************************)
(* The check is that of the watched cycle: a pointer that comes round      *)
(* switches the policy if checkPWC sees it.                                *)
(***************************************************************************)
LEMMA TurnSeen ==
    ASSUME TypeOK, TurnsDetected, NEW p \in onWay, NEW r \in Ptrs, ComeRound(p, r),
           r # p.before
    PROVE  hidden' \/ invFlipped'
<1>1. CASE TurnHidden(p, r)
  BY <1>1 DEF ComeRound
<1>2. CASE ~TurnHidden(p, r)
  <2>1. r \in ComesBackAs(p)
    BY DEF ComeRound
  <2>2. checkPWC(p.cycle, r)
    BY <1>2, <2>1 DEF TurnsDetected
  <2>3. p.cycle \in Watched
    BY <1>2 DEF TurnHidden
  <2>4. PICK w \in Watched : /\ FirstGep[w] = FirstGep[p.cycle]
                             /\ invFlipped' = (invFlipped \/ checkPWC(w, r))
    BY DEF ComeRound, Passes
  <2> QED
    BY <2>2, <2>3, <2>4, OneWatcher
<1> QED
  BY <1>1, <1>2

(***************************************************************************)
(* For every program and every pair of policies, a call that the fallback  *)
(* policy allows is reported only after a failure that the monitor may     *)
(* miss: otherwise the policies are switched before the first call that    *)
(* needs it.                                                               *)
(***************************************************************************)
THEOREM ErrorsAreExplained == Spec => []ErrorsExplained
<1>1. Init => FailuresSeen /\ ErrorsExplained
  BY DEF Init, FailuresSeen, ErrorsExplained
<1>2. TypeOK /\ VgepsDetected /\ TurnsDetected /\ FailuresSeen /\ [Next]_vars => FailuresSeen'
  <2> SUFFICES ASSUME TypeOK, VgepsDetected, TurnsDetected, FailuresSeen, [Next]_vars
               PROVE  FailuresSeen'
    OBVIOUS
  <2>1. ASSUME NEW g \in Vgeps, NEW a \in Addrs, NEW off \in Offs, Vgep(g, a, off)
        PROVE  FailuresSeen'
    <3>1. CASE ObjectsAt(a) \cap Excluded[g] # {}
      BY <2>1, <3>1 DEF VgepsDetected, Vgep, FailuresSeen
    <3>2. CASE ObjectsAt(a) \cap Excluded[g] = {}
      BY <2>1, <3>2 DEF Vgep, FailuresSeen
    <3> QED
      BY <3>1, <3>2
  <2>2. ASSUME NEW c \in Pwcs, NEW r \in Ptrs, Enter(c, r) PROVE FailuresSeen'
    <3>1. invFlipped => invFlipped'
      BY <2>2 DEF Enter, Passes
    <3> QED
      BY <2>2, <3>1 DEF Enter, Passes, FailuresSeen
  <2>3. ASSUME NEW p \in onWay, NEW r \in Ptrs, ComeRound(p, r) PROVE FailuresSeen'
    <3>1. CASE r # p.before
      BY <2>3, <3>1, TurnSeen DEF FailuresSeen
    <3>2. CASE r = p.before
      <4>1. (invFlipped => invFlipped') /\ badVgep' = badVgep
        BY <2>3 DEF ComeRound, Passes
      <4>2. badPwc' = badPwc /\ hidden' = hidden
        BY <2>3, <3>2 DEF ComeRound, TypeOK
      <4> QED
        BY <4>1, <4>2 DEF FailuresSeen
    <3> QED
      BY <3>1, <3>2
  <2>4. CASE UNCHANGED <<badVgep, badPwc, hidden, invFlipped>>
    BY <2>4 DEF FailuresSeen
  <2> QED
    BY <2>1, <2>2, <2>3, <2>4
       DEF Next, Call, Return, Malloc, IndirectCall, historyVars, monitorVars, vars
<1>3. FailuresSeen /\ ErrorsExplained /\ [Next]_vars => ErrorsExplained'
  <2> SUFFICES ASSUME FailuresSeen, ErrorsExplained, [Next]_vars PROVE ErrorsExplained'
    OBVIOUS
  <2>1. ASSUME NEW cs \in CallSites, NEW t \in Targets, IndirectCall(cs, t)
        PROVE  ErrorsExplained'
    <3>1. hidden' = hidden
      BY <2>1 DEF IndirectCall, historyVars
    <3>2. CASE hidden
      BY <3>1, <3>2 DEF ErrorsExplained
    <3>3. CASE ~hidden
      <4>1. t \in WInv[cs] \/ (t \in WoInv[cs] /\ invFlipped)
        BY <2>1, <3>3 DEF IndirectCall, FailuresSeen
      <4>2. t \in validTgts(cs)
        BY <4>1, MonitorAssumption DEF validTgts
      <4>3. cfiErrors' = cfiErrors
        BY <2>1, <4>2 DEF IndirectCall
      <4> QED
        BY <3>1, <4>3 DEF ErrorsExplained
    <3> QED
      BY <3>2, <3>3
  <2>2. CASE cfiErrors' = cfiErrors /\ (hidden => hidden')
    BY <2>2 DEF ErrorsExplained
  <2>3. ASSUME NEW g \in Vgeps, NEW a \in Addrs, NEW off \in Offs, Vgep(g, a, off)
        PROVE  ErrorsExplained'
    BY <2>2, <2>3 DEF Vgep
  <2>4. ASSUME NEW c \in Pwcs, NEW r \in Ptrs, Enter(c, r) PROVE ErrorsExplained'
    BY <2>2, <2>4 DEF Enter, Passes
  <2>5. ASSUME NEW p \in onWay, NEW r \in Ptrs, ComeRound(p, r) PROVE ErrorsExplained'
    BY <2>2, <2>5 DEF ComeRound, Passes
  <2>6. CASE UNCHANGED <<cfiErrors, hidden>>
    BY <2>2, <2>6
  <2> QED
    BY <2>1, <2>3, <2>4, <2>5, <2>6
       DEF Next, Call, Return, Malloc, historyVars, monitorVars, vars
<1> QED
  BY <1>1, <1>2, <1>3, TypeCorrect, ExcludedObjectsDetected, CompletionsDetected, PTL DEF Spec
=============================================================================
