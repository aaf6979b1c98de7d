----------------------------- MODULE MCDebugger -----------------------------
(***************************************************************************)
(* Two loads with any points-to sets over a global, the locals of a        *)
(* function that recurs and of one that does not, an object of an          *)
(* allocator call that may fail, a field of the first local and a pointee  *)
(* without a value.                                                        *)
(***************************************************************************)
EXTENDS Debugger, TLC

mcValueOf == 1 :> "global" @@ 2 :> "f" @@ 3 :> "g" @@ 4 :> "malloc" @@ 5 :> "f" @@ 6 :> NoValue
mcPtsChoices == [Loads -> SUBSET Nodes]
mcFrameAddr == <<"top", "deep">>
mcGlobalAddr == [o \in {"global"} |-> "data"]
=============================================================================
