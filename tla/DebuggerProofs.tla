--------------------------- MODULE DebuggerProofs ---------------------------
(***************************************************************************)
(* What the reports of the pointer debugger can be trusted for, whatever   *)
(* the points-to solution, the number of loads and the program are.        *)
(***************************************************************************)
EXTENDS Debugger, TLAPS, SequenceTheorems

(***************************************************************************)
(* recordTarget keeps the map a set of pairs of an id and an address.      *)
(***************************************************************************)
LEMMA RecordType ==
    ASSUME TypeOK, NEW o \in Objects, NEW val \in Addrs \cup {Null}, recordTarget(o, val)
    PROVE  valMap' \subseteq Nat \X Addrs
BY DEF recordTarget, TypeOK

(***************************************************************************)
(* The three outcomes of a turn of the loop over the pointees.             *)
(***************************************************************************)
Turn(n) == newTarget(n) \/ knownTarget(n) \/ skipValueless(n)

(***************************************************************************)
(* The pointees left are those of the load at hand.                        *)
(***************************************************************************)
TodoIsPointees == todo \subseteq PtsOf(load)

(***************************************************************************)
(* A pointee that gets an id is an object of the load at hand.             *)
(***************************************************************************)
LEMMA PointeeType ==
    ASSUME TypeOK, TodoIsPointees, NEW n \in Nodes, Turn(n)
    PROVE  /\ load \in Loads /\ load <= NumLoads /\ n \in pts[load] /\ n \in todo
           /\ ValueOf[n] # NoValue => ValueOf[n] \in Objects /\ ValueOf[n] \in TargetsOf(load)
<1>1. n \in todo
  BY DEF Turn, newTarget, knownTarget, skipValueless, NextPointee
<1>2. load \in Loads /\ n \in pts[load]
  BY <1>1 DEF TodoIsPointees, PtsOf
<1>3. ValueOf[n] # NoValue => ValueOf[n] \in Objects
  BY DebuggerAssumption
<1>4. load <= NumLoads
  BY <1>2, DebuggerAssumption DEF Loads
<1> QED
  BY <1>1, <1>2, <1>3, <1>4 DEF TargetsOf

(***************************************************************************)
(* The state keeps its types.                                              *)
(***************************************************************************)
THEOREM TypeCorrect == Spec => [](TypeOK /\ TodoIsPointees)
<1>1. Init => TypeOK /\ TodoIsPointees
  <2> SUFFICES ASSUME Init PROVE TypeOK /\ TodoIsPointees
    OBVIOUS
  <2>1. pts \in [Loads -> SUBSET Nodes]
    BY DebuggerAssumption DEF Init
  <2>2. todo \subseteq Nodes /\ load \in 1..NumLoads + 1
    BY <2>1, DebuggerAssumption DEF Init, PtsOf
  <2>3. stack \in Seq(Funs) /\ Len(stack) <= Len(FrameAddr)
    BY DebuggerAssumption DEF Init
  <2> QED
    BY <2>1, <2>2, <2>3 DEF Init, TypeOK, TodoIsPointees
<1>2. TypeOK /\ TodoIsPointees /\ [Next]_vars => (TypeOK /\ TodoIsPointees)'
  <2> SUFFICES ASSUME TypeOK, TodoIsPointees, [Next]_vars PROVE (TypeOK /\ TodoIsPointees)'
    OBVIOUS
  <2>1. ASSUME NEW n \in Nodes, Turn(n) PROVE (TypeOK /\ TodoIsPointees)'
    <3>0. load \in Loads /\ (ValueOf[n] # NoValue => ValueOf[n] \in Objects)
      BY <2>1, PointeeType
    <3>1. CASE newTarget(n)
      BY <3>0, <3>1 DEF newTarget, Numbered, TypeOK, TodoIsPointees, PtsOf, programVars
    <3>2. CASE knownTarget(n)
      <4>1. recorded[ValueOf[n]] \in Nat
        BY <3>0, <3>2 DEF knownTarget, TypeOK
      <4> QED
        BY <3>0, <3>2, <4>1 DEF knownTarget, Numbered, TypeOK, TodoIsPointees, PtsOf, programVars
    <3>3. CASE skipValueless(n)
      BY <3>3 DEF skipValueless, TypeOK, TodoIsPointees, PtsOf, programVars
    <3> QED
      BY <2>1, <3>1, <3>2, <3>3 DEF Turn
  <2>2. CASE nextLoad
    BY <2>2, DebuggerAssumption DEF nextLoad, TypeOK, TodoIsPointees, PtsOf, Loads, programVars
  <2>3. ASSUME NEW f \in Funs, Call(f) PROVE (TypeOK /\ TodoIsPointees)'
    <3>1. Len(stack) + 1 \in 1..Len(FrameAddr)
      BY <2>3, DebuggerAssumption DEF Call, TypeOK
    <3>2. FrameAddr[Len(stack) + 1] \in Addrs
      BY <3>1, DebuggerAssumption
    <3>3. valMap' \subseteq Nat \X Addrs
      BY <2>3, <3>2, RecordType DEF Call, Objects
    <3> QED
      BY <2>3, <3>1, <3>3, DebuggerAssumption
         DEF Call, TypeOK, TodoIsPointees, PtsOf, compileVars
  <2>4. CASE Return
    <3>1. stack \in Seq(Funs) /\ stack # <<>>
      BY <2>4 DEF Return, TypeOK
    <3>2. stack[Len(stack)] \in Objects
      BY <3>1 DEF Objects
    <3>3. valMap' \subseteq Nat \X Addrs
      BY <2>4, <3>2, RecordType DEF Return
    <3>4. stack' \in Seq(Funs) /\ Len(stack') <= Len(FrameAddr)
      BY <2>4, DebuggerAssumption DEF Return, TypeOK
    <3> QED
      BY <2>4, <3>3, <3>4 DEF Return, TypeOK, TodoIsPointees, PtsOf, compileVars
  <2>5. ASSUME NEW s \in HeapSites, Malloc(s) PROVE (TypeOK /\ TodoIsPointees)'
    <3>1. PICK val \in HeapAddrs \cup {Null} :
             /\ recordTarget(s, val)
             /\ heap' = heap \/ (val \in HeapAddrs /\ heap' = [heap EXCEPT ![val] = s])
      BY <2>5 DEF Malloc
    <3>2. valMap' \subseteq Nat \X Addrs
      BY <3>1, RecordType DEF Addrs, Objects
    <3>3. heap' \in [HeapAddrs -> HeapSites \cup {Nothing}]
      BY <3>1 DEF TypeOK
    <3> QED
      BY <2>5, <3>2, <3>3 DEF Malloc, TypeOK, TodoIsPointees, PtsOf, compileVars
  <2>6. CASE enterMain
    <3>1. valMap' \subseteq Nat \X Addrs
      BY <2>6, DebuggerAssumption DEF enterMain, TypeOK, Objects
    <3> QED
      BY <2>6, <3>1 DEF enterMain, TypeOK, TodoIsPointees, PtsOf, compileVars
  <2>7. CASE UNCHANGED vars
    BY <2>7 DEF vars, compileVars, programVars, TypeOK, TodoIsPointees, PtsOf
  <2> QED
    BY <2>1, <2>2, <2>3, <2>4, <2>5, <2>6, <2>7 DEF Next, Turn
<1> QED
  BY <1>1, <1>2, PTL DEF Spec

(***************************************************************************)
(* What an occurrence that the loop has been through leaves: ids are those *)
(* of targets, the targets of finished loads have theirs, and nothing has  *)
(* run yet.                                                                *)
(***************************************************************************)
IdsOfTargets ==
    /\ \A l \in Loads : \A id \in validTargets[l] :
           id # 0 /\ \E t \in TargetsOf(l) : recorded[t] = id
    /\ \A i \in Met : recorded[ValueOf[i[2]]] \in validTargets[i[1]]
    /\ ~Instrumented => /\ valMap = {} /\ ~inMain /\ stack = <<>>
                        /\ heap = [a \in HeapAddrs |-> Nothing]

(***************************************************************************)
(* A turn goes through one more occurrence, the end of a load through none.*)
(***************************************************************************)
LEMMA MetGrows ==
    ASSUME TypeOK, TodoIsPointees, NEW n \in Nodes, Turn(n)
    PROVE  /\ Met' = IF ValueOf[n] = NoValue THEN Met ELSE Met \cup {<<load, n>>}
           /\ <<load, n>> \notin Met
<1>1. load \in Loads /\ n \in pts[load] /\ n \in todo
  BY PointeeType
<1>2. load' = load /\ pts' = pts /\ todo' = todo \ {n}
  BY DEF Turn, newTarget, knownTarget, skipValueless
<1>3. load \in Nat
  BY <1>1, DebuggerAssumption DEF Loads
<1>4. <<load, n>> \notin Met
  BY <1>1, <1>3 DEF Met
<1>5. ASSUME NEW i \in Loads \X Nodes
      PROVE  i \in Met' <=> i \in Met \/ (ValueOf[n] # NoValue /\ i = <<load, n>>)
  BY <1>1, <1>2, <1>3 DEF Met
<1>6. Met \subseteq Loads \X Nodes /\ Met' \subseteq Loads \X Nodes
  BY DEF Met
<1> QED
  BY <1>1, <1>4, <1>5, <1>6

(***************************************************************************)
(* Going on to the next load changes nothing in what has been met.         *)
(***************************************************************************)
LEMMA MetStays ==
    ASSUME TypeOK, nextLoad \/ UNCHANGED <<pts, load, todo>>
    PROVE  Met' = Met
<1>1. CASE nextLoad
  <2>1. load' = load + 1 /\ pts' = pts /\ todo = {} /\ todo' = PtsOf(load + 1)
    BY <1>1 DEF nextLoad
  <2>2. ASSUME NEW l \in Loads, NEW n \in Nodes
        PROVE  (l < load' \/ (l = load' /\ n \notin todo')) /\ n \in pts[l]
               <=> (l < load \/ (l = load /\ n \notin todo)) /\ n \in pts[l]
    BY <2>1, DebuggerAssumption DEF Loads, PtsOf, TypeOK
  <2> QED
    BY <2>1, <2>2 DEF Met
<1>2. CASE UNCHANGED <<pts, load, todo>>
  BY <1>2 DEF Met
<1> QED
  BY <1>1, <1>2

(***************************************************************************)
(* Once everything is instrumented, no turn is left.                       *)
(***************************************************************************)
LEMMA RunLeavesIds ==
    ASSUME TypeOK, TodoIsPointees, [Next]_vars, Instrumented
    PROVE  UNCHANGED <<pts, compileVars>>
<1>1. load > NumLoads /\ ~(load <= NumLoads)
  BY DebuggerAssumption DEF Instrumented, TypeOK
<1>2. ASSUME NEW n \in Nodes PROVE ~Turn(n)
  BY <1>1, PointeeType
<1> QED
  BY <1>1, <1>2 DEF Next, Turn, nextLoad, Call, Return, Malloc, enterMain, vars

(***************************************************************************)
(* Every step keeps the ids of the targets met so far recorded.            *)
(***************************************************************************)
LEMMA IdsOfTargetsKept ==
    ASSUME TypeOK, TodoIsPointees, IdsOfTargets, [Next]_vars
    PROVE  IdsOfTargets'
<1>1. ASSUME NEW n \in Nodes, Turn(n) PROVE IdsOfTargets'
  <2>1. /\ load \in Loads /\ load <= NumLoads /\ n \in pts[load]
        /\ ValueOf[n] # NoValue => ValueOf[n] \in Objects /\ ValueOf[n] \in TargetsOf(load)
    BY <1>1, PointeeType
  <2>2. /\ Met' = IF ValueOf[n] = NoValue THEN Met ELSE Met \cup {<<load, n>>}
        /\ Met \subseteq Loads \X Nodes
    BY <1>1, MetGrows DEF Met
  <2>3. ~Instrumented /\ UNCHANGED <<pts, load, valMap, inMain, stack, heap>>
    BY <1>1, <2>1, DebuggerAssumption
       DEF Turn, newTarget, knownTarget, skipValueless, programVars, Instrumented, TypeOK
  <2>4. \A l : TargetsOf(l)' = TargetsOf(l)
    BY <2>3 DEF TargetsOf
  <2>5. \A l \in Loads : TargetsOf(l) \subseteq Objects
    BY DebuggerAssumption DEF TargetsOf, TypeOK
  <2>6. CASE skipValueless(n)
    BY <2>2, <2>3, <2>4, <2>6 DEF skipValueless, IdsOfTargets, Instrumented
  <2>7. CASE newTarget(n) \/ knownTarget(n)
    <3>1. PICK id \in Nat \ {0} :
             /\ Numbered(ValueOf[n], id)
             /\ recorded[ValueOf[n]] = 0 \/ recorded[ValueOf[n]] = id
      BY <2>1, <2>7 DEF newTarget, knownTarget, TypeOK
    <3>2. ValueOf[n] # NoValue
      BY <2>7 DEF newTarget, knownTarget
    <3>3. /\ recorded'[ValueOf[n]] = id
          /\ \A o \in Objects : recorded[o] # 0 => recorded'[o] = recorded[o]
      BY <2>1, <3>1, <3>2 DEF Numbered, TypeOK
    <3>4. /\ id \in validTargets'[load] /\ validTargets'[load] \subseteq validTargets[load] \cup {id}
          /\ \A l \in Loads : validTargets[l] \subseteq validTargets'[l]
          /\ \A l \in Loads : l # load => validTargets'[l] = validTargets[l]
      BY <2>1, <3>1 DEF Numbered, TypeOK
    <3>5. ASSUME NEW l \in Loads, NEW i \in validTargets'[l]
          PROVE  i # 0 /\ \E t \in TargetsOf(l)' : recorded'[t] = i
      <4>1. CASE i \in validTargets[l]
        BY <2>4, <2>5, <3>3, <4>1 DEF IdsOfTargets
      <4>2. CASE i \notin validTargets[l]
        <5>1. i = id /\ l = load
          BY <3>4, <4>2
        <5> QED
          BY <2>1, <2>4, <3>2, <3>3, <5>1
      <4> QED
        BY <4>1, <4>2
    <3>6. ASSUME NEW i \in Met' PROVE recorded'[ValueOf[i[2]]] \in validTargets'[i[1]]
      <4>1. CASE i \in Met
        <5>1. i[1] \in Loads /\ i[2] \in Nodes /\ ValueOf[i[2]] \in Objects
          BY <4>1, DebuggerAssumption DEF Met
        <5>2. recorded[ValueOf[i[2]]] \in validTargets[i[1]] /\ recorded[ValueOf[i[2]]] # 0
          BY <4>1, <5>1 DEF IdsOfTargets
        <5> QED
          BY <3>3, <3>4, <5>1, <5>2
      <4>2. CASE i = <<load, n>>
        BY <3>3, <3>4, <4>2
      <4> QED
        BY <2>2, <4>1, <4>2
    <3>7. ~Instrumented' => /\ valMap' = {} /\ ~inMain' /\ stack' = <<>>
                            /\ heap' = [a \in HeapAddrs |-> Nothing]
      BY <2>3 DEF IdsOfTargets
    <3> QED
      BY <3>5, <3>6, <3>7 DEF IdsOfTargets
  <2> QED
    BY <1>1, <2>6, <2>7 DEF Turn
<1>2. CASE nextLoad
  <2>1. Met' = Met
    BY <1>2, MetStays
  <2>2. UNCHANGED <<pts, recorded, validTargets, valMap, inMain, stack, heap>>
    BY <1>2 DEF nextLoad, programVars
  <2>3. ~Instrumented
    BY <1>2, DebuggerAssumption DEF nextLoad, Instrumented, TypeOK
  <2> QED
    BY <2>1, <2>2, <2>3 DEF IdsOfTargets, TargetsOf
<1>3. CASE Instrumented
  <2>1. UNCHANGED <<pts, compileVars>>
    BY <1>3, RunLeavesIds
  <2>2. Met' = Met
    BY <2>1, MetStays DEF compileVars
  <2> QED
    BY <1>3, <2>1, <2>2 DEF IdsOfTargets, TargetsOf, compileVars, Instrumented
<1>4. CASE UNCHANGED vars
  <2>1. Met' = Met
    BY <1>4, MetStays DEF vars, compileVars
  <2> QED
    BY <1>4, <2>1 DEF IdsOfTargets, TargetsOf, Instrumented, vars, compileVars, programVars
<1> QED
  BY <1>1, <1>2, <1>3, <1>4 DEF Next, Turn, Call, Return, Malloc, enterMain

(***************************************************************************)
(* Every target of a load that has been met has a recorded id.             *)
(***************************************************************************)
THEOREM TargetsHaveIds == Spec => []IdsOfTargets
<1>1. Init => IdsOfTargets
  <2> SUFFICES ASSUME Init PROVE IdsOfTargets
    OBVIOUS
  <2>1. Met = {}
    BY DebuggerAssumption DEF Init, Met, Loads, PtsOf
  <2>2. \A l \in Loads : validTargets[l] = {}
    BY DEF Init
  <2> QED
    BY <2>1, <2>2 DEF Init, IdsOfTargets
<1>2. TypeOK /\ TodoIsPointees /\ IdsOfTargets /\ [Next]_vars => IdsOfTargets'
  BY IdsOfTargetsKept
<1> QED
  BY <1>1, <1>2, TypeCorrect, PTL DEF Spec

(***************************************************************************)
(* While no object has been met twice, the counter is the greatest id and  *)
(* ids are given once.                                                     *)
(***************************************************************************)
Repeated == \E i \in Met, j \in Met : i # j /\ ValueOf[i[2]] = ValueOf[j[2]]

IdsFresh ==
    /\ \A o \in Objects : recorded[o] # 0 => \E i \in Met : ValueOf[i[2]] = o
    /\ \/ Repeated
       \/ /\ \A o \in Objects : recorded[o] <= dbgTgtID
          /\ \A o, t \in Objects : recorded[o] # 0 /\ recorded[o] = recorded[t] => o = t

(***************************************************************************)
(* The debugger's ids are right until an object is met a second time.      *)
(***************************************************************************)
THEOREM IdsSharedOnlyAfterRepeats == Spec => []SharedIdsNeedRepeats
<1>1. Init => IdsFresh
  BY DEF Init, IdsFresh
<1>2. TypeOK /\ TodoIsPointees /\ IdsFresh /\ [Next]_vars => IdsFresh'
  <2> SUFFICES ASSUME TypeOK, TodoIsPointees, IdsFresh, [Next]_vars PROVE IdsFresh'
    OBVIOUS
  <2>1. ASSUME NEW n \in Nodes, Turn(n) PROVE IdsFresh'
    <3>1. /\ Met' = IF ValueOf[n] = NoValue THEN Met ELSE Met \cup {<<load, n>>}
          /\ <<load, n>> \notin Met
      BY <2>1, MetGrows
    <3>2. ValueOf[n] # NoValue => ValueOf[n] \in Objects
      BY <2>1, PointeeType
    <3>3. CASE skipValueless(n)
      BY <3>1, <3>3 DEF skipValueless, IdsFresh, Repeated
    <3>4. CASE knownTarget(n)
      <4>1. recorded[ValueOf[n]] # 0 /\ ValueOf[n] # NoValue /\ recorded' = recorded
        <5>1. recorded' = [recorded EXCEPT ![ValueOf[n]] = recorded[ValueOf[n]]]
          BY <3>4 DEF knownTarget, Numbered
        <5> QED
          BY <3>4, <5>1 DEF knownTarget, TypeOK
      <4>2. PICK i \in Met : ValueOf[i[2]] = ValueOf[n]
        BY <3>2, <4>1 DEF IdsFresh
      <4>3. i # <<load, n>> /\ i \in Met' /\ <<load, n>> \in Met'
        BY <3>1, <4>1, <4>2
      <4>4. Repeated'
        BY <4>2, <4>3 DEF Repeated
      <4>5. \A o \in Objects : recorded'[o] # 0 => \E j \in Met' : ValueOf[j[2]] = o
        BY <3>1, <4>1 DEF IdsFresh
      <4> QED
        BY <4>4, <4>5 DEF IdsFresh
    <3>5. CASE newTarget(n)
      <4>1. /\ ValueOf[n] \in Objects /\ recorded[ValueOf[n]] = 0
            /\ recorded' = [recorded EXCEPT ![ValueOf[n]] = dbgTgtID + 1]
            /\ dbgTgtID' = dbgTgtID + 1
        BY <3>2, <3>5 DEF newTarget, Numbered
      <4>2. Met' = Met \cup {<<load, n>>}
        BY <3>1, <3>5 DEF newTarget
      <4>3. ASSUME NEW o \in Objects, recorded'[o] # 0
            PROVE  \E j \in Met' : ValueOf[j[2]] = o
        <5>1. CASE o = ValueOf[n]
          <6>1. <<load, n>> \in Met' /\ <<load, n>>[2] = n
            BY <4>2
          <6> QED
            BY <5>1, <6>1
        <5>2. CASE o # ValueOf[n]
          <6>1. recorded[o] # 0
            BY <4>1, <4>3, <5>2 DEF TypeOK
          <6> QED
            BY <4>2, <6>1 DEF IdsFresh
        <5> QED
          BY <5>1, <5>2
      <4>4. Repeated => Repeated'
        BY <4>2 DEF Repeated
      <4>5. ASSUME \A o \in Objects : recorded[o] <= dbgTgtID,
                   \A o, t \in Objects : recorded[o] # 0 /\ recorded[o] = recorded[t] => o = t
            PROVE  /\ \A o \in Objects : recorded'[o] <= dbgTgtID'
                   /\ \A o, t \in Objects : recorded'[o] # 0 /\ recorded'[o] = recorded'[t] => o = t
        BY <4>1, <4>5 DEF TypeOK
      <4> QED
        BY <4>3, <4>4, <4>5 DEF IdsFresh
    <3> QED
      BY <2>1, <3>3, <3>4, <3>5 DEF Turn
  <2>2. CASE nextLoad \/ UNCHANGED <<pts, load, todo, recorded, dbgTgtID>>
    <3>1. Met' = Met /\ recorded' = recorded /\ dbgTgtID' = dbgTgtID
      BY <2>2, MetStays DEF nextLoad
    <3> QED
      BY <3>1 DEF IdsFresh, Repeated
  <2> QED
    BY <2>1, <2>2 DEF Next, Turn, Call, Return, Malloc, enterMain, vars, compileVars
<1>3. IdsFresh => SharedIdsNeedRepeats
  BY DEF IdsFresh, SharedIdsNeedRepeats, Repeated
<1> QED
  BY <1>1, <1>2, <1>3, TypeCorrect, PTL DEF Spec

(***************************************************************************)
(* Two objects are never live at one address.                              *)
(***************************************************************************)
LEMMA LiveUnique ==
    ASSUME TypeOK, NEW o \in Objects, NEW t \in Objects, NEW a, LiveAt(o, a), LiveAt(t, a)
    PROVE  o = t
<1>1. /\ DOMAIN stack \subseteq DOMAIN FrameAddr
      /\ \A d \in DOMAIN FrameAddr : FrameAddr[d] \in Range(FrameAddr)
  BY DebuggerAssumption DEF TypeOK, Range
<1>2. \A g \in Globals : GlobalAddr[g] \in Range(GlobalAddr)
  BY DebuggerAssumption DEF Range
<1>3. ASSUME NEW u \in Objects, LiveAt(u, a)
      PROVE  /\ u \in Globals => a \in Range(GlobalAddr)
             /\ u \in Funs => a \in Range(FrameAddr)
             /\ u \in HeapSites => a \in HeapAddrs
  BY <1>1, <1>2, <1>3, DebuggerAssumption DEF LiveAt
<1>4. CASE o \in Globals
  BY <1>3, <1>4, DebuggerAssumption DEF LiveAt, Objects, IsInjective
<1>5. CASE o \in Funs
  <2>1. t \in Funs
    BY <1>3, <1>5, DebuggerAssumption DEF Objects
  <2>2. PICK d \in DOMAIN stack : stack[d] = o /\ FrameAddr[d] = a
    BY <1>5, DebuggerAssumption DEF LiveAt
  <2>3. PICK e \in DOMAIN stack : stack[e] = t /\ FrameAddr[e] = a
    BY <2>1, DebuggerAssumption DEF LiveAt
  <2>4. d = e
    BY <1>1, <2>2, <2>3, DebuggerAssumption DEF IsInjective
  <2> QED
    BY <2>2, <2>3, <2>4
<1>6. CASE o \in HeapSites
  <2>1. t \in HeapSites
    BY <1>3, <1>6, DebuggerAssumption DEF Objects
  <2> QED
    BY <1>6, <2>1, DebuggerAssumption DEF LiveAt
<1> QED
  BY <1>4, <1>5, <1>6 DEF Objects

(***************************************************************************)
(* How calls, returns and allocations change what is live where.           *)
(***************************************************************************)
LEMMA CallLive ==
    ASSUME TypeOK, NEW f \in Funs, Call(f), NEW o, NEW a
    PROVE  LiveAt(o, a)' <=> LiveAt(o, a) \/ (o = f /\ a = FrameAddr[Len(stack) + 1])
<1>1. /\ stack' = Append(stack, f) /\ heap' = heap /\ stack \in Seq(Funs)
  BY DEF Call, TypeOK
<1>2. /\ DOMAIN stack' = DOMAIN stack \cup {Len(stack) + 1}
      /\ stack'[Len(stack) + 1] = f
      /\ \A d \in DOMAIN stack : stack'[d] = stack[d]
  BY <1>1
<1> QED
  BY <1>1, <1>2 DEF LiveAt

(***************************************************************************)
(* A return ends the innermost frame's life, and no other.                 *)
(***************************************************************************)
LEMMA ReturnLive ==
    ASSUME TypeOK, Return, NEW o, NEW a
    PROVE  /\ stack[Len(stack)] \in Funs
           /\ LiveAt(o, a)' => LiveAt(o, a)
           /\ o # stack[Len(stack)] => (LiveAt(o, a)' <=> LiveAt(o, a))
           /\ o = stack[Len(stack)] /\ LiveAt(o, a)'
                 => \E d \in DOMAIN stack : d # Len(stack) /\ stack[d] = o
<1>1. /\ stack \in Seq(Funs) /\ stack # <<>> /\ heap' = heap
      /\ stack' = SubSeq(stack, 1, Len(stack) - 1)
  BY DEF Return, TypeOK
<1>2. Len(stack) \in Nat \ {0}
  BY <1>1, EmptySeq
<1>3. /\ DOMAIN stack' = 1..(Len(stack) - 1)
      /\ \A d \in 1..(Len(stack) - 1) : stack'[d] = stack[d]
  BY <1>1, <1>2
<1>4. DOMAIN stack = 1..Len(stack) /\ stack[Len(stack)] \in Funs
  BY <1>1, <1>2
<1>5. 1..Len(stack) = 1..(Len(stack) - 1) \cup {Len(stack)} /\ Len(stack) \notin 1..(Len(stack) - 1)
  BY <1>2
<1>6. stack[Len(stack)] \notin Globals /\ stack[Len(stack)] \notin HeapSites
  BY <1>4, DebuggerAssumption
<1> QED
  BY <1>1, <1>3, <1>4, <1>5, <1>6 DEF LiveAt

(***************************************************************************)
(* An allocation makes the one block it hands out live.                    *)
(***************************************************************************)
LEMMA MallocLive ==
    ASSUME TypeOK, NEW s \in HeapSites, NEW b \in HeapAddrs, heap[b] = Nothing,
           heap' = [heap EXCEPT ![b] = s], stack' = stack, NEW o \in Objects, NEW a
    PROVE  LiveAt(o, a)' <=> LiveAt(o, a) \/ (o = s /\ a = b)
<1>1. Nothing \notin HeapSites
  BY DebuggerAssumption DEF Objects
<1>2. /\ heap'[b] = s /\ \A c \in HeapAddrs : c # b => heap'[c] = heap[c]
  BY DEF TypeOK
<1>3. s \notin Globals /\ s \notin Funs
  BY DebuggerAssumption
<1> QED
  BY <1>1, <1>2, <1>3 DEF LiveAt

(***************************************************************************)
(* Every recorded address is that of a live object with the id it is       *)
(* recorded for.                                                           *)
(***************************************************************************)
RecordsLive ==
    \A r \in valMap : \E o \in Objects :
        recorded[o] # 0 /\ recorded[o] = r[1] /\ LiveAt(o, r[2])

(***************************************************************************)
(* Every step keeps the records of the run-time table live.                *)
(***************************************************************************)
LEMMA RecordsLiveKept ==
    ASSUME TypeOK, TodoIsPointees, IdsOfTargets, RecordsLive, [Next]_vars
    PROVE  RecordsLive'
<1> SUFFICES ASSUME NEW r \in valMap'
             PROVE  \E o \in Objects : recorded'[o] # 0 /\ recorded'[o] = r[1] /\ LiveAt(o, r[2])'
  BY DEF RecordsLive
<1>1. CASE ~Instrumented
  <2>1. valMap = {}
    BY <1>1 DEF IdsOfTargets
  <2>2. valMap' = {}
    BY <1>1, <2>1 DEF Next, newTarget, knownTarget, skipValueless, nextLoad, Call, Return,
                      Malloc, enterMain, programVars, vars
  <2> QED
    BY <2>2
<1>2. CASE Instrumented
  <2>1. recorded' = recorded
    BY <1>2, RunLeavesIds DEF compileVars
  <2>2. ASSUME r \in valMap
        PROVE  \E o \in Objects : recorded[o] # 0 /\ recorded[o] = r[1] /\ LiveAt(o, r[2])
    BY <2>2 DEF RecordsLive
  <2>3. ASSUME NEW f \in Funs, Call(f)
        PROVE  \E o \in Objects : recorded'[o] # 0 /\ recorded'[o] = r[1] /\ LiveAt(o, r[2])'
    <3>1. CASE r \in valMap
      BY <2>1, <2>2, <2>3, <3>1, CallLive
    <3>2. CASE r \notin valMap
      <4>1. PICK b : b = FrameAddr[Len(stack) + 1]
        OBVIOUS
      <4>2. f \in Objects /\ recorded[f] # 0 /\ r = <<recorded[f], b>>
        BY <2>3, <3>2, <4>1 DEF Call, recordTarget, Objects
      <4>3. LiveAt(f, b)'
        BY <2>3, <4>1, CallLive
      <4>4. r[1] = recorded[f] /\ r[2] = b
        BY <4>2
      <4> QED
        BY <2>1, <4>2, <4>3, <4>4
    <3> QED
      BY <3>1, <3>2
  <2>4. CASE Return
    <3>1. r \in valMap /\ (recorded[stack[Len(stack)]] # 0 => r[1] # recorded[stack[Len(stack)]])
      BY <2>4 DEF Return, recordTarget
    <3>2. PICK o \in Objects : recorded[o] # 0 /\ recorded[o] = r[1] /\ LiveAt(o, r[2])
      BY <2>2, <3>1
    <3>3. o # stack[Len(stack)]
      BY <3>1, <3>2
    <3>4. LiveAt(o, r[2])'
      BY <2>4, <3>2, <3>3, ReturnLive
    <3> QED
      BY <2>1, <3>2, <3>4
  <2>5. ASSUME NEW s \in HeapSites, Malloc(s)
        PROVE  \E o \in Objects : recorded'[o] # 0 /\ recorded'[o] = r[1] /\ LiveAt(o, r[2])'
    <3>1. CASE \E a \in HeapAddrs :
                 /\ heap[a] = Nothing
                 /\ heap' = [heap EXCEPT ![a] = s]
                 /\ recordTarget(s, a)
      <4>1. PICK a \in HeapAddrs : /\ heap[a] = Nothing
                                   /\ heap' = [heap EXCEPT ![a] = s]
                                   /\ recordTarget(s, a)
        BY <3>1
      <4>2. stack' = stack /\ s \in Objects /\ a # Null
        BY <2>5, DebuggerAssumption DEF Malloc, Objects, Addrs
      <4>3. \A o \in Objects : \A b : LiveAt(o, b)' <=> LiveAt(o, b) \/ (o = s /\ b = a)
        BY <4>1, <4>2, MallocLive
      <4>4. CASE r \in valMap
        BY <2>1, <2>2, <4>3, <4>4
      <4>5. CASE r \notin valMap
        <5>1. recorded[s] # 0 /\ r = <<recorded[s], a>>
          BY <4>1, <4>2, <4>5 DEF recordTarget
        <5>2. r[1] = recorded[s] /\ r[2] = a
          BY <5>1
        <5> QED
          BY <2>1, <4>2, <4>3, <5>1, <5>2
      <4> QED
        BY <4>4, <4>5
    <3>2. CASE recordTarget(s, Null) /\ UNCHANGED heap
      <4>1. r \in valMap /\ UNCHANGED <<stack, heap>>
        BY <2>5, <3>2 DEF Malloc, recordTarget
      <4> QED
        BY <2>1, <2>2, <4>1 DEF LiveAt
    <3> QED
      BY <2>5, <3>1, <3>2 DEF Malloc
  <2>6. CASE enterMain
    <3>1. UNCHANGED <<stack, heap>>
      BY <2>6 DEF enterMain
    <3>2. CASE r \in valMap
      BY <2>1, <2>2, <3>1, <3>2 DEF LiveAt
    <3>3. CASE r \notin valMap
      <4>1. PICK g \in Globals : recorded[g] # 0 /\ r = <<recorded[g], GlobalAddr[g]>>
        BY <2>6, <3>3 DEF enterMain
      <4>2. r[1] = recorded[g] /\ r[2] = GlobalAddr[g] /\ g \in Objects
        BY <4>1 DEF Objects
      <4> QED
        BY <2>1, <4>1, <4>2 DEF LiveAt
    <3> QED
      BY <3>2, <3>3
  <2>7. CASE UNCHANGED <<valMap, stack, heap>>
    BY <2>1, <2>2, <2>7 DEF LiveAt
  <2> QED
    BY <2>3, <2>4, <2>5, <2>6, <2>7
       DEF Next, newTarget, knownTarget, skipValueless, nextLoad, programVars, vars
<1> QED
  BY <1>1, <1>2

(***************************************************************************)
(* A load that returns an object it should not is always reported, except  *)
(* for the objects whose ids targets of the load have too.                 *)
(***************************************************************************)
THEOREM MissesAreExplained == Spec => []MissesExplained
<1>1. Init => RecordsLive
  BY DEF Init, RecordsLive
<1>2. TypeOK /\ TodoIsPointees /\ IdsOfTargets /\ RecordsLive /\ [Next]_vars => RecordsLive'
  BY RecordsLiveKept
<1>3. TypeOK /\ IdsOfTargets /\ RecordsLive => MissesExplained
  <2> SUFFICES ASSUME TypeOK, IdsOfTargets, RecordsLive,
                      NEW l \in Loads, NEW o \in Objects, NEW a \in Addrs,
                      LiveAt(o, a), ~Reported(l, a)
               PROVE  recorded[o] # 0 /\ \E t \in TargetsOf(l) : recorded[t] = recorded[o]
    BY DEF MissesExplained
  <2>1. PICK id \in validTargets[l] : <<id, a>> \in valMap
    BY DEF Reported
  <2>2. PICK u \in Objects : recorded[u] # 0 /\ recorded[u] = id /\ LiveAt(u, a)
    <3>1. <<id, a>>[1] = id /\ <<id, a>>[2] = a
      OBVIOUS
    <3> QED
      BY <2>1, <3>1 DEF RecordsLive
  <2>3. u = o
    BY <2>2, LiveUnique
  <2> QED
    BY <2>1, <2>2, <2>3 DEF IdsOfTargets
<1> QED
  BY <1>1, <1>2, <1>3, TypeCorrect, TargetsHaveIds, PTL DEF Spec

(***************************************************************************)
(* The converse: a live object with an id is recorded, unless something    *)
(* else resets its id, and globals before main has begun.  Functions that  *)
(* are not entered while they are active are on the stack at most once.    *)
(***************************************************************************)
LiveRecorded ==
    Instrumented =>
        \A o \in Objects, a \in Addrs :
            LiveAt(o, a) /\ recorded[o] # 0 =>
                \/ <<recorded[o], a>> \in valMap
                \/ ResetByOthers(o)
                \/ o \in Globals /\ ~inMain

NoRecursion ==
    \A d, e \in DOMAIN stack : stack[d] = stack[e] /\ stack[d] \notin RecursiveFuns => d = e

(***************************************************************************)
(* Every step keeps functions that do not recurse off the stack twice.     *)
(***************************************************************************)
LEMMA NoRecursionKept ==
    ASSUME TypeOK, NoRecursion, [Next]_vars
    PROVE  NoRecursion'
<1>1. ASSUME NEW f \in Funs, Call(f) PROVE NoRecursion'
  <2>1. /\ stack' = Append(stack, f) /\ stack \in Seq(Funs)
        /\ f \notin RecursiveFuns => \A d \in DOMAIN stack : stack[d] # f
    BY <1>1 DEF Call, TypeOK, Range
  <2> QED
    BY <2>1 DEF NoRecursion
<1>2. CASE Return
  <2>1. /\ stack \in Seq(Funs) /\ stack # <<>>
        /\ stack' = SubSeq(stack, 1, Len(stack) - 1)
    BY <1>2 DEF Return, TypeOK
  <2>2. Len(stack) \in Nat \ {0}
    BY <2>1, EmptySeq
  <2>3. /\ DOMAIN stack' = 1..(Len(stack) - 1)
        /\ \A d \in 1..(Len(stack) - 1) : stack'[d] = stack[d]
    BY <2>1, <2>2
  <2>4. DOMAIN stack = 1..Len(stack)
    BY <2>1
  <2> QED
    BY <2>2, <2>3, <2>4 DEF NoRecursion
<1>3. CASE UNCHANGED stack
  BY <1>3 DEF NoRecursion
<1> QED
  BY <1>1, <1>2, <1>3
     DEF Next, newTarget, knownTarget, skipValueless, nextLoad, Malloc, enterMain,
         programVars, vars

(***************************************************************************)
(* Every step keeps what is live and has an id in the run-time table.      *)
(***************************************************************************)
LEMMA LiveRecordedKept ==
    ASSUME TypeOK, TodoIsPointees, IdsOfTargets, NoRecursion, LiveRecorded, Instrumented,
           [Next]_vars
    PROVE  LiveRecorded'
<1>1. recorded' = recorded
  BY RunLeavesIds DEF compileVars
<1> SUFFICES ASSUME NEW o \in Objects, NEW a \in Addrs, LiveAt(o, a)', recorded[o] # 0,
                    ~ResetByOthers(o), o \in Globals => inMain'
             PROVE  <<recorded[o], a>> \in valMap'
  <2>1. \A o : ResetByOthers(o)' <=> ResetByOthers(o)
    BY <1>1 DEF ResetByOthers
  <2> QED
    BY <1>1, <2>1 DEF LiveRecorded, ResetByOthers
<1>2. LiveAt(o, a) /\ (o \in Globals => inMain) => <<recorded[o], a>> \in valMap
  BY DEF LiveRecorded
<1>3. ASSUME NEW f \in Funs, Call(f) PROVE <<recorded[o], a>> \in valMap'
  <2>1. /\ valMap \subseteq valMap'
        /\ recorded[f] # 0 => <<recorded[f], FrameAddr[Len(stack) + 1]>> \in valMap'
    <3>1. Len(stack) + 1 \in DOMAIN FrameAddr
      BY <1>3, DebuggerAssumption DEF Call, TypeOK
    <3>2. FrameAddr[Len(stack) + 1] \in Addrs
      BY <3>1, DebuggerAssumption
    <3>3. FrameAddr[Len(stack) + 1] # Null
      BY <3>2, DebuggerAssumption
    <3> QED
      BY <1>3, <3>3 DEF Call, recordTarget
  <2>2. inMain' = inMain
    BY <1>3 DEF Call
  <2> QED
    BY <1>2, <1>3, <2>1, <2>2, CallLive
<1>4. CASE Return
  <2>1. LiveAt(o, a) /\ inMain' = inMain /\ stack[Len(stack)] \in Funs
    BY <1>4, ReturnLive DEF Return
  <2>2. <<recorded[o], a>> \in valMap
    BY <1>2, <2>1
  <2>3. recorded[stack[Len(stack)]] # recorded[o]
    <3>1. CASE o = stack[Len(stack)]
      <4>1. PICK d \in DOMAIN stack : d # Len(stack) /\ stack[d] = o
        BY <1>4, <3>1, ReturnLive
      <4>2. Len(stack) \in DOMAIN stack
        <5>1. stack \in Seq(Funs) /\ stack # <<>>
          BY <1>4 DEF Return, TypeOK
        <5> QED
          BY <5>1, EmptySeq
      <4>3. o \in RecursiveFuns
        BY <3>1, <4>1, <4>2 DEF NoRecursion
      <4> QED
        BY <2>1, <3>1, <4>3 DEF ResetByOthers
    <3>2. CASE o # stack[Len(stack)]
      BY <2>1, <3>2 DEF ResetByOthers
    <3> QED
      BY <3>1, <3>2
  <2>4. <<recorded[o], a>>[1] = recorded[o]
    OBVIOUS
  <2> QED
    BY <1>4, <2>2, <2>3, <2>4 DEF Return, recordTarget
<1>5. ASSUME NEW s \in HeapSites, Malloc(s) PROVE <<recorded[o], a>> \in valMap'
  <2>0. stack' = stack /\ inMain' = inMain
    BY <1>5 DEF Malloc
  <2>1. CASE \E b \in HeapAddrs :
               /\ heap[b] = Nothing
               /\ heap' = [heap EXCEPT ![b] = s]
               /\ recordTarget(s, b)
    <3>1. PICK b \in HeapAddrs : /\ heap[b] = Nothing
                                 /\ heap' = [heap EXCEPT ![b] = s]
                                 /\ recordTarget(s, b)
      BY <2>1
    <3>2. b # Null
      BY DebuggerAssumption DEF Addrs
    <3>3. LiveAt(o, a) \/ (o = s /\ a = b)
      BY <2>0, <3>1, MallocLive
    <3>4. /\ valMap \subseteq valMap'
          /\ recorded[s] # 0 => <<recorded[s], b>> \in valMap'
      BY <3>1, <3>2 DEF recordTarget
    <3> QED
      BY <1>2, <2>0, <3>3, <3>4
  <2>2. CASE s \in FailingSites /\ recordTarget(s, Null) /\ UNCHANGED heap
    <3>1. LiveAt(o, a)
      BY <2>0, <2>2 DEF LiveAt
    <3>2. recorded[s] # recorded[o]
      BY <2>2 DEF ResetByOthers
    <3>3. <<recorded[o], a>>[1] = recorded[o]
      OBVIOUS
    <3> QED
      BY <1>2, <2>0, <2>2, <3>1, <3>2, <3>3 DEF recordTarget
  <2> QED
    BY <1>5, <2>1, <2>2 DEF Malloc
<1>6. CASE enterMain
  <2>1. LiveAt(o, a)
    BY <1>6 DEF enterMain, LiveAt
  <2>2. CASE o \in Globals
    <3>1. GlobalAddr[o] = a
      BY <2>1, <2>2, DebuggerAssumption DEF LiveAt
    <3> QED
      BY <1>6, <2>2, <3>1 DEF enterMain
  <2>3. CASE o \notin Globals
    BY <1>2, <1>6, <2>1, <2>3 DEF enterMain
  <2> QED
    BY <2>2, <2>3
<1>7. CASE UNCHANGED <<valMap, stack, heap, inMain>>
  BY <1>2, <1>7 DEF LiveAt
<1> QED
  BY <1>3, <1>4, <1>5, <1>6, <1>7
     DEF Next, newTarget, knownTarget, skipValueless, nextLoad, programVars, vars

(***************************************************************************)
(* When the program starts, only globals are live.                         *)
(***************************************************************************)
LEMMA StartRecorded ==
    ASSUME TypeOK, IdsOfTargets, ~Instrumented, [Next]_vars
    PROVE  LiveRecorded'
<1>1. ~inMain /\ stack = <<>> /\ heap = [a \in HeapAddrs |-> Nothing]
  BY DEF IdsOfTargets
<1>2. UNCHANGED <<inMain, stack, heap>>
  BY DEF Next, newTarget, knownTarget, skipValueless, nextLoad, Call, Return, Malloc,
         enterMain, programVars, vars
<1>3. DOMAIN stack = {}
  BY <1>1
<1>4. Nothing \notin HeapSites
  BY DebuggerAssumption DEF Objects
<1>5. \A o, a : LiveAt(o, a)' => o \in Globals
  BY <1>1, <1>2, <1>3, <1>4 DEF LiveAt
<1> QED
  BY <1>1, <1>2, <1>5 DEF LiveRecorded

(***************************************************************************)
(* A load that returns one of its targets is reported only if another      *)
(* object, activation or failed allocation has reset the target's id, or   *)
(* main has not begun.                                                     *)
(***************************************************************************)
THEOREM AlarmsAreExplained == Spec => []AlarmsExplained
<1>1. Init => NoRecursion /\ LiveRecorded
  <2> SUFFICES ASSUME Init PROVE NoRecursion /\ LiveRecorded
    OBVIOUS
  <2>1. DOMAIN stack = {} /\ ~inMain
    BY DEF Init
  <2>2. Nothing \notin HeapSites /\ heap = [a \in HeapAddrs |-> Nothing]
    BY DebuggerAssumption DEF Init, Objects
  <2>3. \A o, a : LiveAt(o, a) => o \in Globals
    BY <2>1, <2>2 DEF LiveAt
  <2> QED
    BY <2>1, <2>3 DEF NoRecursion, LiveRecorded
<1>2. TypeOK /\ TodoIsPointees /\ IdsOfTargets /\ NoRecursion /\ LiveRecorded /\ [Next]_vars
        => (NoRecursion /\ LiveRecorded)'
  BY NoRecursionKept, LiveRecordedKept, StartRecorded
<1>3. TypeOK /\ IdsOfTargets /\ LiveRecorded => AlarmsExplained
  <2> SUFFICES ASSUME TypeOK, IdsOfTargets, LiveRecorded, Instrumented,
                      NEW l \in Loads, NEW o \in TargetsOf(l), NEW a \in Addrs,
                      LiveAt(o, a), Reported(l, a)
               PROVE  ResetByOthers(o) \/ (o \in Globals /\ ~inMain)
    BY DEF AlarmsExplained
  <2>1. PICK n \in pts[l] : ValueOf[n] = o /\ o # NoValue
    BY DEF TargetsOf
  <2>2. n \in Nodes /\ o \in Objects
    BY <2>1, DebuggerAssumption DEF TypeOK
  <2>3. l < load
    BY DebuggerAssumption DEF Instrumented, Loads, TypeOK
  <2>4. <<l, n>> \in Met /\ <<l, n>>[1] = l /\ <<l, n>>[2] = n
    BY <2>1, <2>2, <2>3 DEF Met
  <2>5. recorded[o] \in validTargets[l]
    <3>1. recorded[ValueOf[<<l, n>>[2]]] \in validTargets[<<l, n>>[1]]
      BY <2>4 DEF IdsOfTargets
    <3> QED
      BY <2>1, <2>4, <3>1
  <2>6. recorded[o] # 0
    BY <2>5 DEF IdsOfTargets
  <2>7. <<recorded[o], a>> \notin valMap
    BY <2>5 DEF Reported
  <2> QED
    BY <2>2, <2>6, <2>7 DEF LiveRecorded
<1> QED
  BY <1>1, <1>2, <1>3, TypeCorrect, TargetsHaveIds, PTL DEF Spec
=============================================================================
