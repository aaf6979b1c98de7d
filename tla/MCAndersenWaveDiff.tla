------------------------ MODULE MCAndersenWaveDiff ------------------------
(***************************************************************************)
(* The wave solver on every program of MCIndirectCalls and on those with a *)
(* cycle through a field.                                                  *)
(***************************************************************************)
EXTENDS MCLatePointer, AndersenWaveDiff

MCWavePrograms == MCCallPrograms \cup FieldCycles
=============================================================================
