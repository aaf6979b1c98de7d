----------------------- MODULE MCPersistentDiffPTData -----------------------
(* Model checking of PersistentDiffPTData on two keys and two objects: all *)
(* sequences of at most MaxCalls operations.                               *)
EXTENDS PersistentDiffPTData

CONSTANT MaxCalls

VARIABLE calls

MCInit == PersInit /\ calls = 0

MCNext ==
    /\ call = NoCall => calls < MaxCalls
    /\ PersNext
    /\ calls' = IF call = NoCall THEN calls + 1 ELSE calls

MCSpec == MCInit /\ [][MCNext]_<<persVars, calls>>

Symmetries == Permutations(Keys) \cup Permutations(Objs)
=============================================================================
