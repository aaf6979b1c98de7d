--------------------------- MODULE MCKaliMonitor ---------------------------
(***************************************************************************)
(* Instances of KaliMonitor.  Two functions, one of which enters itself and*)
(* has a local that the variable-index gep must not reach, a monitored     *)
(* allocator call that may fail, and three call depths, the first of which *)
(* is in the stack the process began with.  Two cycles begin with the same *)
(* gep, so that only the first of them is watched, and a third begins with *)
(* a gep whose index is not constant.  One indirect call is instrumented,  *)
(* one has no target in the optimistic solution.                           *)
(***************************************************************************)
EXTENDS KaliMonitor

mcFrameAddr == <<"top", "middle", "deep">>
mcExcluded == [vgep |-> {"f", "buffer"}]
mcWInv == [handler |-> {"t1"}, hook |-> {}]
mcWoInv == [handler |-> {"t1", "t2"}, hook |-> {"t2"}]

mcGepOffset == [base |-> 0, step |-> 2, other |-> 1, index |-> 0]
mcPwcGeps == <<{"base", "step"}, {"base", "other"}, {"index", "step"}>>
mcFirstGep == <<"base", "base", "index">>

(***************************************************************************)
(* The cycle p = r + 2 of the comment in handlePWCInvariants, whose only   *)
(* gep adds the offset.                                                    *)
(***************************************************************************)
mcMovedCycle == <<{"step"}>>
mcMovedFirst == <<"step">>
=============================================================================
