--------------------------- MODULE MCAndersenLCD ---------------------------
(***************************************************************************)
(* Lazy cycle detection on the programs of MCLatePointer that have at most *)
(* MaxAssignments copies and geps, or at most MaxCopies copies and no gep, *)
(* and on those with a cycle through a field.                              *)
(***************************************************************************)
EXTENDS MCLatePointer, AndersenLCD

CONSTANTS MaxAssignments, MaxCopies

MCLCDPrograms ==
    LateProgramsOf(MaxAssignments)
    \cup {prg \in LateProgramsOf(MaxCopies) : prg.gep = {}}
    \cup FieldCycles
=============================================================================
