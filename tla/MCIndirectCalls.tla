--------------------------- MODULE MCIndirectCalls ---------------------------
(***************************************************************************)
(* The programs of MCAndersen and one with indirect calls: fp calls        *)
(* f (which returns its argument) or the allocator alloc, and g once ret,  *)
(* the result, is called as well or flows back to fp; with every           *)
(* combination of the arity and type checks.                               *)
(***************************************************************************)
EXTENDS MCAndersen

CONSTANTS fp, arg, pf, pg, ret, dummy,  \* pointers: pf and pg are formals
          f, g, alloc, heapObj,         \* functions and alloc's dummy object
          Checks                        \* how a call may match its target

ASSUME ChecksAssumption == Checks \subseteq {"none", "args", "all"}

CallObjs == {f, g, alloc, heapObj}
MCCallObjNodes == MCObjNodes \cup CallObjs
MCCallNodes == MCNodes \cup {fp, arg, pf, pg, ret, dummy} \cup CallObjs
MCCallBase == MCBase @@ [o \in CallObjs |-> o]
MCCallFields == MCFields @@ [o \in CallObjs |-> [k \in MCOffsets |-> o]]

Call(ptr, fun, params, heap, check) ==
    [fptr |-> ptr, fun |-> fun, params |-> params, heap |-> heap,
     argsMatch |-> check # "none", typesMatch |-> check = "all"]

CallPrograms ==
    {[addr |-> {<<f, fp>>, <<alloc, fp>>, <<g, arg>>},
      copy |-> {}, load |-> {}, store |-> {}, gep |-> {},
      calls |-> {Call(fp, f, {<<arg, pf>>, <<pf, ret>>}, {}, k[1]),
                 Call(fp, alloc, {<<dummy, ret>>}, {<<dummy, heapObj>>}, k[2]),
                 Call(ret, g, {<<ret, pg>>, <<pg, fp>>}, {}, k[3]),
                 Call(fp, g, {<<arg, pg>>, <<pg, ret>>}, {}, k[4])},
      mergePWC |-> merge, invariantPWC |-> inv, invariantVGEP |-> inv] :
         k \in [1..4 -> Checks], merge \in MergeModes, inv \in Invariants}

MCCallPrograms == MCPrograms \cup CallPrograms
=============================================================================
