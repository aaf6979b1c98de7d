------------------------ MODULE InclusionConstraints ------------------------
(***************************************************************************)
(* What an inclusion-based (Andersen) points-to analysis promises, when no *)
(* difference is made between an object and its fields: the solution       *)
(* starts from the address constraints, only grows, never exceeds the      *)
(* least solution of the program's constraints, in which address           *)
(* arithmetic is a copy, and satisfies the copy constraints when the       *)
(* analysis stops, which it does.                                          *)
(***************************************************************************)
CONSTANTS
    Nodes,          \* pointers and memory objects
    ObjNodes,       \* the memory objects among them
    PointerlessObjs \* objects that no load or store goes through

VARIABLES
    prog,       \* the constraints: addr, copy, gep, load, store, calls
    sol,        \* the facts <<object, node>>: node points to object
    finished

absVars == <<prog, sol, finished>>

PointeesIn(s, n) == {f[1] : f \in {x \in s : x[2] = n}}

\* The inclusions that hold between nodes, given the facts s.
Through(s, p) == PointeesIn(s, p) \ PointerlessObjs
Called(s) == {c \in prog.calls : c.argsMatch /\ <<c.fun, c.fptr>> \in s}
Inclusions(s) ==
    prog.copy
    \cup {<<g.src, g.dst>> : g \in prog.gep}
    \cup (UNION {{<<o, e[2]>> : o \in Through(s, e[1])} : e \in prog.load})
    \cup (UNION {{<<e[1], o>> : o \in Through(s, e[2])} : e \in prog.store})
    \cup UNION {c.params : c \in Called(s)}

\* One round of inference.  A call of an allocator makes its dummy value
\* point to its dummy object.
Infer(s) ==
    s \cup (UNION {{<<o, e[2]>> : o \in PointeesIn(s, e[1])} : e \in Inclusions(s)})
      \cup UNION {{<<h[2], h[1]>> : h \in c.heap} : c \in Called(s)}

\* Infer until nothing is added.
Least ==
    LET closure[s \in SUBSET (ObjNodes \X Nodes)] ==
            LET inferred == Infer(s) IN IF inferred = s THEN s ELSE closure[inferred]
    IN  closure[prog.addr]

AbsInit == sol = prog.addr /\ finished = FALSE

Derive ==
    /\ ~finished
    /\ sol # sol' /\ sol \subseteq sol' /\ sol' \subseteq Least
    /\ UNCHANGED <<prog, finished>>

Finish ==
    /\ ~finished
    /\ \A e \in prog.copy : PointeesIn(sol, e[1]) \subseteq PointeesIn(sol, e[2])
    /\ finished' = TRUE
    /\ UNCHANGED <<prog, sol>>

AbsNext == Derive \/ Finish

AbsSpec == AbsInit /\ [][AbsNext]_absVars /\ <>finished
=============================================================================
