------------------------- MODULE MCNodeIDAllocator -------------------------
(***************************************************************************)
(* Instances of NodeIDAllocator.  The code's powers of ten become powers   *)
(* of five: the counter passes one after a few allocations.                *)
(***************************************************************************)
EXTENDS NodeIDAllocator

Powers == {1, 5, 25, 125}

mcPowerAbove == [x \in Ids |-> CHOOSE p \in Powers :
                    p >= x /\ \A q \in Powers : q >= x => q >= p]
=============================================================================
