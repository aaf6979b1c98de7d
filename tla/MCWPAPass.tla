----------------------------- MODULE MCWPAPass -----------------------------
(***************************************************************************)
(* Programs of MCLatePointer for both rounds of the pass, with at most     *)
(* MaxAssignments copies and geps, MaxUnmerged if positive weight cycles   *)
(* are not merged, and programs with a table of functions,                 *)
(*     p = &S;  v = &p->second;  *p = t;  *v = w;  pg = &p[...];           *)
(* where t and w are functions and what p, v or pg points to is called.    *)
(***************************************************************************)
EXTENDS MCLatePointer, WPAPass

CONSTANTS MaxAssignments, MaxUnmerged

TablePrograms ==
    {[addr |-> {<<S, p>>, <<f, t>>, <<g, w>>}, copy |-> {},
      load |-> {<<from, q>>}, store |-> {<<t, p>>, <<w, v>>},
      gep |-> {Gep(p, v, "normal", 1), Gep(p, pg, "variant", 0)},
      calls |-> {Call(q, f, {<<t, dummy>>}, {}, k[1]), Call(q, g, {<<w, dummy>>}, {}, k[2])},
      mergePWC |-> merge, invariantPWC |-> TRUE, invariantVGEP |-> TRUE] :
         from \in {p, v, pg}, k \in [1..2 -> Checks], merge \in MergeModes}

(***************************************************************************)
(* Loads and stores through a pointer that a cycle with a gep merges,      *)
(*    p = &S;  t = &x;  v = phi(p, pg);  pg = &v->second or &v[..];  q = *v *)
(***************************************************************************)
MergedAccessPrograms ==
    {[addr |-> {<<S, p>>, <<x, t>>}, copy |-> {<<p, v>>, <<pg, v>>}, load |-> {<<v, q>>},
      store |-> stores, gep |-> {cyclic}, calls |-> {},
      mergePWC |-> TRUE, invariantPWC |-> TRUE, invariantVGEP |-> TRUE] :
         cyclic \in {Gep(v, pg, "normal", 1), Gep(v, pg, "variant", 0)},
         stores \in SUBSET {<<t, p>>, <<p, v>>, <<t, pg>>, <<q, v>>}}

\* Without geps and calls the rounds do not differ, without geps MergePWC has no effect.
MCPassPrograms ==
    {prg \in LateProgramsOf(MaxAssignments) : prg.mergePWC /\ (prg.gep # {} \/ prg.calls # {})}
    \cup {prg \in LateProgramsOf(MaxUnmerged) : ~prg.mergePWC /\ prg.gep # {}}
    \cup TablePrograms
    \cup MergedAccessPrograms
=============================================================================
