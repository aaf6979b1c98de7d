--------------------------- MODULE MCLatePointer ---------------------------
(***************************************************************************)
(* The programs of MCAndersen behind a pointer q that gets its             *)
(* target only in the second iteration, through memory:                    *)
(*     p = &S;  t = &x;  *t = p;  q = *t;  w = v;  *q = w;                 *)
(* v, one of Ptrs, is a load or a phi.  Loads and stores through q add     *)
(* edges, and close cycles, among nodes that have already propagated.      *)
(***************************************************************************)
EXTENDS MCIndirectCalls

CONSTANTS p, t, q, w, v

MCLateDerefs == {p, q}
MCLatePhiSources == Ptrs \cup {t}
MCLateGepSources == Ptrs \cup {q}
MCLateStores == {{<<w, q>>, <<p, t>>}}
MCLateNodes == MCCallNodes \cup {p, t, q, w}

\* pg and dummy, the pointers of Ptrs besides v, play the same role: one of
\* each two programs that differ by swapping them is left out.
KindOfDefinition(prg, n) ==
    CASE \E e \in prg.load : e[2] = n -> 1
      [] \E e \in prg.copy : e[2] = n -> 2
      [] \E e \in prg.gep : e.dst = n /\ e.kind = "normal" -> 3
      [] OTHER -> 4

UpToSwap(prg) == KindOfDefinition(prg, pg) <= KindOfDefinition(prg, dummy)

MCLatePrograms ==
    {[prg EXCEPT !.addr = @ \cup {<<S, p>>, <<x, t>>},
                 !.copy = @ \cup {<<v, w>>},
                 !.load = @ \cup {<<t, q>>}] :
        prg \in {m \in MCPrograms : UpToSwap(m) /\ \A e \in m.gep : e.dst # v}}
    \cup CallPrograms

\* Those with at most n copies and geps.
LateProgramsOf(n) == {prg \in MCLatePrograms : Cardinality(prg.copy) + Cardinality(prg.gep) <= n}

(***************************************************************************)
(* A field node that closes a positive weight cycle and points to its own  *)
(* base,                                                                   *)
(*    p = &S;  v = &p->second;  *v = p;  q = *v;  t = &q->second or &q[..];*)
(*    *v = t;  w = &x                                                      *)
(* so that collapsing S may merge the node being solved away.              *)
(***************************************************************************)
Gep(from, to, kind, off) == [src |-> from, dst |-> to, kind |-> kind, off |-> off, inst |-> to]

FieldCycles ==
    {[addr |-> {<<S, p>>, <<x, w>>}, copy |-> {}, load |-> {<<v, q>>},
      store |-> {<<p, v>>, <<t, v>>}, gep |-> {Gep(p, v, "normal", 1), second}, calls |-> {},
      mergePWC |-> merge, invariantPWC |-> inv, invariantVGEP |-> inv] :
         second \in {Gep(q, t, "normal", 1), Gep(q, t, "variant", 0)},
         merge \in MergeModes, inv \in Invariants}
=============================================================================
