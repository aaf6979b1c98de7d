---------------------------- MODULE MCMergedLoad ----------------------------
(***************************************************************************)
(* A program whose loads and stores close a copy cycle only in the last    *)
(* iteration, once c already loads through it:                             *)
(*     a = *q;   *q = a;   c = *a;     where q gains the target o late     *)
(* p, s, cell, t deliver o to q through memory; u, w give y a pointee z.      *)
(***************************************************************************)
EXTENDS AndersenWaveDiff

CONSTANTS s, p, q, cell, t, a, c, u, w,    \* pointers
          o, m, y, z                    \* objects

MCObjNodes == {o, m, y, z}
MCNodes == {s, p, q, cell, t, a, c, u, w} \cup MCObjNodes
MCBase == [obj \in MCObjNodes |-> obj]
MCFields == [obj \in MCObjNodes |-> [k \in {0} |-> obj]]
MCOffsets == {0}

MCPrograms ==
    {[addr |-> {<<y, s>>, <<o, p>>, <<m, cell>>, <<o, t>>, <<z, u>>, <<y, w>>},
      copy |-> {},
      load |-> {<<cell, q>>, <<q, a>>, <<a, c>>},
      store |-> {<<s, p>>, <<t, cell>>, <<a, q>>, <<u, w>>},
      gep |-> {}, calls |-> {}, mergePWC |-> TRUE,
       invariantPWC |-> TRUE, invariantVGEP |-> TRUE]}
=============================================================================
