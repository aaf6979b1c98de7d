# Kaleidoscope pointer analysis in TLA+

TLA+ modules, TLC configurations and TLAPS proofs for the invariant-guided pointer
analysis in `src/`. The code is SVF's inclusion-based analysis with the Kaleidoscope
additions. The solver assumes *likely invariants* (variable-index geps do not reach into
structs, positive weight cycles are not real), records which of them its result depends
on, and instruments the program. At run time a monitor watches the invariants and switches
the checks of indirect calls to a fallback policy when one of them fails.

The result is sound only if five things hold together, and each is modelled here:

1. the points-to sets are what their ids say they are (the persistent cache);
2. the solver loses nothing except what an invariant excuses, and what it gives up is
   recorded;
3. the fallback policy, from a second round without invariants, allows whatever the
   optimistic one does;
4. the monitor notices every failure of a recorded invariant, and nothing else;
5. two things never share one node id.

## 1. Inventory

### Components, state, operations

| component | source | state | operations | modelled in |
|---|---|---|---|---|
| WPA driver | `lib/WPA/WPAPass.cpp` | the round, the two policies | `runOnModule`, `collectCFI`, `instrumentCFICheck` | `WPAPass`; the checks in `KaliMonitor` |
| Andersen's analysis, shared | `lib/WPA/Andersen.cpp`, `include/WPA/Andersen.h`, `WPASolver.h` | points-to and propagated sets, work list, `reanalyze`, positive weight cycles, invariant maps | `initialize`, `mergeNodeToRep`, `handleCopyGep`, `processLoad`, `processStore`, `collapseNodePts`, `collapseField`, `updateCallGraph`, `normalizePointsTo` | `Andersen` |
| Wave solver | `lib/WPA/AndersenWaveDiff.cpp` | node stack, phase | `solveWorklist`, `processNode`, `postProcessNode`, `SCCDetect` | `AndersenWaveDiff` |
| Lazy cycle detection | `lib/WPA/AndersenLCD.cpp` | `lcdCandidates`, `metEdges` | `solveWorklist`, `handleLoadStore`, `handleCopyGep`, `mergeSCC` | `AndersenLCD` |
| Constraint graph | `lib/Graphs/ConsG.cpp`, `include/Graphs/ConsG*.h` | edges, `nodeToRepMap`, `nodeToSubsMap` | `moveEdgesToRepNode`, `updateNodeRepAndSubs`, `cleanConsCG` | `ConstraintGraph` |
| SCC detection | `include/Util/SCC.h` | `_NodeSCCAuxInfo`, clock, two stacks | `find`, `visit`, `clear` | `SCCDetection`; its result is `Components` of `ConstraintGraph` |
| Program assignment graph, pointer analysis base | `lib/Graphs/PAG.cpp`, `lib/MemoryModel/PointerAnalysis*.cpp` | field nodes, field-insensitive flags, resolved calls | `getGepObjNode`, `setObjFieldInsensitive`, `resolveIndCalls` | `ConstraintGraph`, `Andersen` |
| Points-to data structures | `include/MemoryModel/{Abstract,Mutable,Persistent}PointsToDS.h` | points-to, reverse, difference and propagated maps | `addPts`, `unionPts`, `clearPts`, `clearFullPts`, `computeDiffPts`, `updatePropaPtsMap`, `clearPropaPts` | `MutableDiffPTData`, `PersistentDiffPTData`; the sets also inside the solvers |
| Persistent points-to cache | `include/MemoryModel/PersistentPointsToCache.h` | `idToPts`, `ptsToId`, the three memo tables, `idCounter` | `emplacePts`, `unionPts`, `complementPts`, `intersectPts` | `PointsToCache` |
| Node ids | `lib/Util/NodeIDAllocator.cpp`, `include/Graphs/PAG.h` | four counters, the strategy, the graph's ids | `allocateObjectId`, `allocateValueId`, `allocateGepObjectId`, `endSymbolAllocation`, `resetPAG` | `NodeIDAllocator` |
| Invariant instrumentation | `lib/WPA/InvariantHandler.cpp` | `valueToKaliIdMap`, ids | placing the monitor's calls | where the calls go, in `KaliMonitor` and `Debugger` |
| Run-time monitor | `test/view-switcher/*.cpp` | `vgepMap`, `pwcInvariants`, `invFlipped`, target maps | `vgepRecordTarget`, `ptdTargetCheck`, `updatePWC`, `checkPWC`, `checkCFI` | `KaliMonitor` |
| Debugger instrumentation and run time | `lib/WPA/Debugger.cpp`, `test/view-switcher/debugger.cpp` | `dbgTgtID`, `recordedDbgTgts`, the run-time table | `instrumentPointer`, `recordTarget`, `checkPtr` | `Debugger` |
| Other solvers (HCD, SFR, SCD, Steensgaard, flow-sensitive, DDA, MTA, SABER), memory SSA, value-flow graphs, CUDD, LLVM front end, tools, scripts | see `PROJECT.json` | | | not modelled |

### How they interact

`WPAPass::runOnModule` builds the graph, whose ids come from the allocator, and runs
`AndersenWaveDiff` with the invariants assumed. It keeps the call targets as the optimistic
policy, empties the graph (`resetPAG`; the allocator goes on counting), runs the solver
again without invariants and keeps those targets as the fallback policy. It then
instruments every registered call site with `checkCFI`, and `InvariantHandler` turns the
invariant maps of the first round into calls of the monitor. The solver calls the
constraint graph to move edges, asks the SCC detector for components and a topological
order, and all points-to operations go through the points-to data structure
(with `-ptd=persistent`, which `test/run_kaleidoscope.sh` selects, through the cache). At
run time the instrumented program and the monitor share only the monitor's tables and the
flag `InvariantFlipped`. With a list of functions to debug, `Debugger` inserts
recording calls of its own and a check after every load of those functions.

### What is hard

There is one thread at analysis time, and one modelled thread at run time; nothing is
persisted. The hard behaviours are those of long legal sequences:

* **Stale difference sets.** A node remembers what it has propagated. Every merge,
  collapse and new edge makes that memory wrong for some edge, and has to repair it
  (`updatePropaPts`).
* **The wave order.** Nodes are processed once, in an order computed before the wave itself
  changes the graph.
* **Collapsing in the middle of a wave**, with some nodes already processed; in lazy cycle
  detection even the node being processed may be merged away.
* **What merging drops.** Gep edges inside a component disappear, loads and stores of
  a merged node are not looked at again, field nodes may become representatives.
* **Asking for another iteration.** Merges, collapses and calls all do; the solver must
  still stop.
* **Searching once.** Lazy cycle detection searches from an edge at most once, and edges
  move; one detector object serves all searches.
* **Two rounds of one program**, each with its own budget of indirect calls and only one
  with filters: the second must contain the first.
* **Memo tables written by other operations**, for the life of the process.
* **Frames reused at run time.** An address recorded for one function is next another's.
* **One record for many.** Activations of a function share an id, and so do pointers that pass one gep.
* **Counters at their limit**: the `PointsToID` wrap, the ids of values and objects
  that meet, the multiplier of the debug strategy, the 32-bit parameter of `updatePWC`, the
  limit on indirect calls.

`PROJECT.json` lists these as `hazards`, each at its line with the properties that cover it.
Hazards that no property covers carry a note.

### What makes each component correct

* Cache: ids and sets are in bijection; each memo table is the operation it memoises; an id
  never changes its meaning.
* Constraint graph: representatives are idempotent, `subs` is the inverse of `rep`, all
  edges end at representatives.
* SCC detection: a search finds exactly the components reachable from where it starts, in
  topological order, whatever an earlier search left.
* Points-to structures: the two backings of one interface behave alike; the reverse map is
  the inverse of the points-to map.
* Solvers: propagated facts are at the other end of each edge; facts are never lost; the
  solution satisfies every constraint the invariants do not excuse; every lost gep is
  recorded; they terminate; without geps they compute the least solution.
* Driver: the fallback policy and the fallback solution contain the optimistic ones.
* Monitor: recorded addresses are live; which real failures flip the policy and which escape;
  nothing else flips it; no legal call is reported after a failure that was seen.
* Debugger: a report means a wrong load, and silence a right one, up to the exceptions
  stated.
* Node ids: the graph's assertion that an id is free fails only when a stated limit is
  exceeded.

## 2. Modules

    MutableDiffPTData                ConstraintGraph        InclusionConstraints
      | INSTANCE (refinement)              |                     |
    PersistentDiffPTData                Andersen  --- INSTANCE ---
      | EXTENDS                          /     \
    PointsToCache          AndersenWaveDiff   AndersenLCD
                                  |
                               WPAPass

    MCAndersen -> MCIndirectCalls -> MCLatePointer     programs, by size
    MCAndersenWaveDiff, MCWPAPass, MCAndersenLCD (all MCLatePointer),
    MCMergedLoad                                       instances of the solvers

    AndersenProofs -> AndersenWaveDiffProofs (of AndersenWaveDiff and WPAPass), AndersenLCDProofs

    SCCDetection -- MCSCCDetection, SCCDetectionProofs
    KaliMonitor -- MCKaliMonitor, KaliMonitorProofs
    Debugger -- MCDebugger, DebuggerProofs
    NodeIDAllocator -- MCNodeIDAllocator, NodeIDAllocatorProofs
    PointsToCache -- MCPointsToCache
    PersistentDiffPTData -- MCPersistentDiffPTData, PersistentDiffPTDataProofs (of both)

Variables and actions keep the names of the members and functions they stand for.
`PROJECT.json` `map` gives the lines of each definition. An operator named `...Mutant` is
the faulty version of the definition that follows it, with which the property named in
`PROJECT.json` `mutants` fails; no specification uses one.

### PointsToCache

Ids are `0..IdSpace-1` and the counter wraps; a points-to set is a set of objects. Each
of the three operations is three actions, one per path of the code: the algebraic special
case, the memo table, and the operation proper, which also writes the identities it has
learned (`UnionFacts`, `ComplementMeetFacts`, ...) into its own table and into the others'.
`exhausted` stands for the failed assertion of `newPointsToId`, which ends the process.
`answer` is the last return value, so that what a *caller* gets can be stated. `reset` is
called by nobody and is left out, as are the statistics counters.

### MutableDiffPTData and PersistentDiffPTData

The two structures the solvers can be given with `-ptd`. `MutableDiffPTData` keeps a set per
key and serves as the reference. `PersistentDiffPTData` keeps an id per key. It extends
`PointsToCache`, and each of its actions takes the cache's action on whichever path the tables
allow; its own specification is `PersSpec`. An operation that interns its argument and then
performs a set operation takes two steps, with `call` saying what is left; nothing else
happens in between. `newPTData` is the second analysis of the process: new maps over the
same static cache. The reverse points-to sets are maintained, as they are for every field
limit but zero. `computeDiffPts` is given `getPts(var)`, which is what
`Andersen::computeDiffPts` passes. `clear` has no caller among the inclusion-based solvers.

### ConstraintGraph and Andersen

`ConstraintGraph` has the edges, representatives and sub nodes, and the layout of objects:
`Base` and `FieldOf` are constants, `fields` are the field nodes the code has created and
`fieldInsensitive` the objects that lost theirs. `moveEdgesToRepNode` says which edges
survive a merge. Gep edges are told apart by their ends and kind, as in the code: two that a merge brings
between the same ends are one afterwards, whatever their offsets (6.7).

`Andersen` is what the solvers share, one operator per function: merging, collapsing,
`handleCopyGep`, the copy edges of loads and stores, the resolution of indirect calls,
finalisation. Inner loops are sets of remaining work: `cycles` (merges in progress),
`toCollapse` (`collapseField` calls that are due) and `newCopies` (edges still to add).
`Settled` says that no inner loop is running, and is in the guard of every outer step. Where
the code walks a hash table or a bit vector the order is left open. The edges out of a node
are processed in one step: they write to different or to growing sets. The one dependence
between them, a variant gep making an object field insensitive before or after a normal gep
looks at it, is kept as a choice in `handleCopyGep`. The steps that depend on the solver's loop
(whether a merged node goes on the work list, what a new edge asks for) are left to the two
modules that extend it.

Programs are a constant set, and the options come with the program. `Init` picks one, so one
run covers all programs of a size under all settings. Address edges act once, in `Init`, so
they belong to the program and not to the graph. Programs take addresses of whole objects;
addresses of fields come from geps.

### AndersenWaveDiff

`phase` is the program counter of `solveWorklist`:

    scc -> wave -> (rewave, unless MergePWC) -> post -> callgraph -> scc ... -> finalize -> done

`nodeStack` is the set `pending` plus the order `topo` it was sorted by; any linearisation is
allowed. Nodes that would be popped without effect are popped first (`Quiet`).

### AndersenLCD

    solve -> loads -> copies -> solve ... -> callgraph -> solve ... -> finalize -> done

One node is popped (`popFromWorklist`, with `collapsePWCNode`), turns its loads and stores
into edges, and propagates, unless the collapse has merged it away (`skipMerged`). Edges
whose ends have the same points-to set put their target on `lcdCandidates` once (`metEdges`),
and the next turn of the loop merges the components found from there. An edge that
moves with a merge takes its place in `metEdges` along (`MovedMet`). The work list is
taken in any order, which contains the queue of the code.

### WPAPass

Both rounds of the wave solver. `secondRound` is `resetPAG`, the rebuilt graph and a
new `AndersenWaveDiff` with the invariant options cleared; everything else of the first round
is gone but `optimistic` (a ghost: its solution) and `wInvIndCallMap`. `finishPass` is the end of
the second round, or of the first with `-short-circuit`.

### InclusionConstraints

The abstract specification: solutions start at the address constraints, only grow, stay
inside the least solution, are closed under copies when the analysis stops, and the analysis
stops. `Andersen` instantiates it with the facts a query would return (`getPts` through the
representative). The specification makes no difference between an object and its fields, so a
gep is a copy in it, and `Facts` maps both ends of a fact to whole objects. The wave solver is checked to
implement it, and lazy cycle detection to end with exactly its least solution on programs without geps.
`Least` is the set at which repeated closure under the constraints stops (`IterationStops`). What a program may
contain that the fixed point ranges over is assumed in `Andersen`: pointers are not
objects (`Pointers`), programs take addresses of whole objects (`WholeObjs`), and the
dummy nodes of different call sites differ (`FreshDummies`).

### SCCDetection

`find`, `find(candidates)` and `visit` as they are, with the recursion of `visit` as a stack of
frames, and several searches by one detector with `clear` between them. `ComponentsFound` and
`TopologicalOrder` are what `Components` and `topo` assume in the solvers.

### KaliMonitor

Monitor and program together. The program side (`stack`, `heap`, `onWay`) is the environment: it calls,
also recursively, returns, allocates, with failures, follows geps to any offset of an object, sends several
pointers round several cycles, and makes indirect calls: those of the fallback policy only once an invariant
has really failed, which is what a sound analysis promises. The monitor side is the library: `vgepMap`,
`pwcInvariants`, `invFlipped`, and the errors `checkCFI` reports. Frame addresses depend on the depth only,
so frames are reused. `free` is replaced by an empty function in the library, so heap objects
stay. `KnownStack` are the addresses `ptdTargetCheck` ignores, `KnownStackPwc` the pointers `checkPWC` ignores.

A cycle is a set of geps and the one `geps[0]` of `handlePWCInvariants`, which may be that of several
cycles; `Watched` are the cycles that the loop instruments, which goes through a hash map, so any order of the
cycles is a constant. A gep adds `GepOffset`, or at run time any drift
if its index is not constant, which `computeOffsetInPWC` counts as nothing. `Enter` and `ComeRound` are one
execution of a watched gep: `checkPWC` before it, `updatePWC` after it. A traveller (`onWay`) is a pointer
between two executions.

Four variables are history and steer no step of the monitor: `badVgep` and `badPwc` (an invariant has
really failed), `forgotten` (records that a return of another activation or a failed allocation has reset while the
object was there) and `hidden` (a failure of a kind that `VgepHidden` or `TurnHidden` lists). The properties
need no assumption about the program: they name the failures that escape the monitor, and say that there
is no other. The assumption that the optimistic targets of a call are among
the fallback ones is `FallbackCoversOptimistic` of `WPAPass` (`FallbackCovers` proves it under its conditions).

### Debugger

First the instrumentation, one pointee of one load per step, in the order of the bit
vector; then the instrumented program, which calls, returns, allocates (with failures), and
runs constructors before `main`. The counter `dbgTgtID` gets new ids from `+ 1` and is also set to the
id of every known object met, as in the code. `checkPtr` is a predicate (`Reported`): it only reads.

### NodeIDAllocator

The three strategies, symbols first, then dummy and field nodes, then a second round on
an empty graph with the counters of the first. `clashed` is the assertion of `addValNode`
and `addObjNode` having failed.

## 3. Runs

| run | configuration | question and result |
|---|---|---|
| `points_to_cache` | 3 objects, 4 ids | Every order of calls: types, hash-consing, the three tables, answers, stability of ids. Holds. |
| `persistent_points_to` | 2 keys, 2 objects, 8 operations | The persistent structure implements the mutable one but for one operation, and its reverse map is the inverse of its points-to map. Holds. |
| `persistent_propagation` | 2 keys, 2 objects | Is the merged propagated set the intersection? **No**: see 6.1. |
| `wpa_pass` | the programs of `MCLatePointer` that have geps or calls, with up to 4 copies and geps (3 without `-merge-pwc`), function tables, loads and stores through merged pointers, two rounds, `-merge-pwc` and `-short-circuit` on and off | No constraint is lost except those the invariants speculate on, and those are recorded; collapsing in mid-wave loses nothing; every call is connected; the fallback contains the optimistic solution and policy; the pass ends. Holds. |
| `wave_inclusion` | 2 pointers, geps, cycles through a field, calls | The wave solver implements `InclusionConstraints`; propagated facts are always at the other end. Holds. |
| `merged_load` | one program | Are loads of merged pointers closed? **No**: see 6.2. |
| `lazy_cycle_detection` | the programs of `MCLatePointer` with up to 4 copies and geps, or up to 5 copies and no gep, a cycle through a field | Least solution, every load and store closed, termination. Holds, merged pointers included. |
| `scc_detection` | every graph of 4 nodes, 2 searches | Components, their representatives and the topological order; a closed component is final. Holds. |
| `kali_monitor` | 2 functions, one recursive, a monitored allocation that may fail, 3 frames, 3 cycles, 2 pointers on their way | Records live; no failure, no alarm; excluded objects and completed cycles are detected but for the listed kinds, whatever the pointers do in between; a legal call is reported only after one of those. Holds. |
| `kali_cycle_moved` | one cycle, whose gep moves the pointer | Are completed cycles detected? **No**: see 6.3. |
| `debugger` | 2 loads, 6 pointees, 2 frames, 2 heap addresses | When a correct load is reported, a wrong one is missed, and two objects share an id. Holds as stated. |
| `node_ids` | three strategies, 16 ids, 2 rounds | Ids clash only past the limits that `ClashesExplained` states. Holds. |

`lazy_cycle_detection` and `merged_load` ask the same question of two solvers. The wave
solver violates `LoadStoreConstraintsHold` because its merge leaves both nodes off the work
list; lazy cycle detection pushes the representative, and a new edge its source, so there
the constraint holds for merged pointers too.

### Bounds and why they are enough

* `points_to_cache`: three objects give eight sets and operands that overlap
  partly, which every rule about two operands and a result can tell apart. Four ids make the
  counter wrap before all sets have one, in every order. Objects are interchangeable (symmetry).
* `persistent_points_to`: with two objects every set has an id, and two keys are the operands
  of a merge. The shortest way to a wrong intersection is six operations, so eight leave room
  for what follows from it.
* Solver runs: `MCLatePointer` has three pointers with *every* combination of
  definitions (load, phi of one or two, normal gep, variant gep) behind a
  pointer whose target arrives in the second iteration, so that stores through it add
  edges and close cycles among nodes that have already propagated; a struct with two fields and
  a scalar. A merge of a component that has propagated, a component with a gep, a collapse of an
  object whose fields were propagated, and a collapse in the second wave all occur. Two of the
  pointers play the same role, and one of each two programs that differ by swapping them is left
  out (`UpToSwap`). With `MergePWC` off cycles through geps stay in the graph and the second,
  work-list driven propagation has to reach the fixed point. `CallPrograms` adds indirect calls
  whose result is called in turn, with every combination of arity and type check and four calls
  against a budget of three (`IndirectCallLimit`), so the budget runs out in every order of
  resolution. `TablePrograms` adds functions stored in the fields of a struct and called through a
  variable index, where the two rounds find different targets. `MergedAccessPrograms` adds loads and stores through a
  pointer on a cycle with a gep, which both rounds merge and only the second collapses for. `wave_inclusion` has every program of
  two pointers with every set of stores, merge mode and invariant setting. `FieldCycles` are programs with a
  field node on a positive weight cycle that points to its own base: lazy cycle detection collapses the node
  it is processing, and finalisation meets redundant field nodes. `wpa_pass` and
  `lazy_cycle_detection` take the programs with at most four copies and geps (`MaxAssignments`): one of them
  is `w = v`, and the rest allow all three pointers to be phis or geps of each other. `wpa_pass` leaves out
  those with neither geps nor calls, for which both rounds are one analysis, and when positive weight cycles are
  not merged those without geps, which the option does not concern, and the largest (`MaxUnmerged`); `wave_inclusion`
  has every program of its own in both modes. `lazy_cycle_detection` adds those with five copies and no gep
  (`MaxCopies`), a phi of two values among them: they are the ones whose solution must be the least.
* `scc_detection`: four nodes are the fewest with two components joined by a path or a component entered in
  its middle; all graphs and all orders of children are covered, up to renaming of nodes
  (symmetry; no property depends on names). The second search (`MaxFinds` = 2) is there for what the first left.
* `kali_monitor`: two functions and three depths put different functions, and up to three activations of one
  monitored local, at reused addresses inside and outside the ignored stack; two heap objects, so that a failed allocation
  resets one while another is recorded. Two pointers on their way (`MaxOnWay`) let one overtake the other, on the same
  cycle, on another one with the same first gep, or elsewhere. The third cycle begins with a gep of
  variable index (`MaxDrift` 1). Pointers up to 4 (`MaxPwc`) with offsets 1 and 2, a width of 3 and one pointer in
  the ignored stack make turns that are detected and turns that each of the exceptions hides.
* `debugger`: two loads let an object be met twice, in the same load (as itself and as a field) and in two;
  all points-to sets over the six pointees are taken; two frames are reused.
* `node_ids`: 16 ids, 9 allocations, fields below 2. The next power of ten becomes the next power
  of five, so that the counter passes the multiplier after few allocations; DENSE counters
  meet after eight allocations.

All bounds are constants named in the modules or fixed by the MC modules: `MaxCalls`, `MaxFinds`,
`MaxPwc`, `MaxOnWay`, `MaxDrift`, `MaxAllocations`, `MaxRounds`, `NumLoads`, `Len(FrameAddr)`, `HeapAddrs`,
`MaxAssignments`, `MaxUnmerged`, `MaxCopies`, `IndirectCallLimit`.

`CHECK_DEADLOCK FALSE` appears where the system really stops: the cache after its assertion
failed, the persistent structure after `MaxCalls` operations, the allocator at its bound
or after the graph's assertion failed.
The solvers and the detector have an explicit final step instead, so TLC checks that they never
get stuck half way.

### Fairness

`AndersenWaveDiff`, `AndersenLCD` and `WPAPass` have weak fairness of their whole next-state relation: each is one thread
that runs its loop until it returns. Nothing is assumed about which enabled step is
taken, so `Termination` and `PassTerminates` do not depend on an order of iteration. The
other specifications have no fairness and no liveness property: cache, detector and allocator are
libraries, and the monitored program may stop at any time.

## 4. Proofs

Each `...Proofs` module extends its component and holds its theorems. They hold for every
value of the constants that satisfies the module's assumptions.

* **PersistentDiffPTDataProofs** has the theorems of the cache and of the structure over it.
  * *The cache* (`Spec`). `CacheIInv` = the store is a bijection of ids and sets (`StoreInv`), each table
    is sound with sorted keys and known ids (`CacheInv`), and the last answer is exact
    (`AnswerInv`). Soundness of a table is not inductive by itself: an entry says something about
    `idToPts`, so it needs that ids keep their sets, which needs that a new id is fresh, which is
    `newPointsToId`'s assertion. One lemma per memo rule (`UnionFactsSound`,
    `ComplementMeetFactsSound`, ...), one per operation. Results: `TypeCorrect`, `HashConsingHolds`,
    `MemoisedUnions`, `MemoisedComplements`, `MemoisedIntersections`, `AnswersExact`, `IdsStayBound`. The
    intersection table is exact except for nested operands, of which an entry may be the larger: the exact
    statement is false (6.1).
  * *The structure* (`PersSpec`). `ReverseMapHolds` and the refinement `RefinesMutable`. What the calls of
    the cache return follows from its invariant (`UnionCall`, `ComplementCall`, `IntersectCall`,
    `EmplaceCall`), with `OldIdsKept`: a set keeps its id while others are added. `IInv` = the
    cache's invariant, `MapsInv` (every key's id is one the cache handed out), `CallInv` (between its two
    steps a removal finds the set of its element in `answer`) and `RevPtsInverse` itself: it is what makes
    skipping the reverse map right when a union or a removal changes nothing. One lemma per operation
    names the step of `MutableDiffPTData` its client sees.
* **SCCDetectionProofs.** `ComponentsRight` (`ComponentsFound`), `OrderRight` (`TopologicalOrder`), `ClosedStaysFinal`
  (`ClosedIsFinal`) and `TypeCorrect`, for every finite graph, number of searches, choice of roots and order of
  nodes and children. That `Nodes` is finite is the one assumption about the graph.
  * *Reachability.* The properties compute `ReachableFrom` in as many steps as there are nodes.
    `ReachIsLeast` says that this is the least set closed under edges: a search that has not stopped has
    gained a node at each step, and there are no more. The rest uses only that (`LeastClosed`).
  * *The invariant* says what a depth first search knows while it runs. Calls are in the order of their
    visits (`PathInv`); a visited node is on the call stack, waits on `SS`, or belongs to a component that is closed or
    just being closed (`OpenInv`), and `SS` is in an order that makes `popSS` stop at the right node
    (`StackInv`). A call reaches everything visited since it began, and a waiting node reaches an older call
    (`ReachInv`), so neither may be closed without the other. `LowInv` is the heart of it: when a call ends
    its node's representative is at least as old as those of all nodes waiting below it. If that is the
    node itself, no waiting node below reaches further back and these are its component; if
    not, it must wait. `EdgeInv` (edges of closed nodes lead to closed nodes) then gives the topological order, and
    `FinalInv` has both results for the components closed so far.
  * `SubInv`: the sub nodes of an *open* node may be incomplete: a node that sinks a second time loses those
    it had, and they are entered again when they are popped. So they are right only for closed
    components, which is all `ComponentsFound` claims.
  * `clear` re-establishes the invariant whatever the earlier search left (`ClearedInv`).
* **AndersenProofs** has what both solvers share.
  * *Copies*: what a node counts as propagated is at the other end of each of its copy edges. The
    inductive invariant is `CopyInv` = `CopiesPropagated` and `PropagatedIsKnown` (a node has
    propagated only what it holds, up to collapsing); the latter is what lets a new edge or a
    merge take an intersection of propagated sets. Collapsing replaces the fields of an object by
    the object everywhere at once, hence the relation `Covers(set, objs, collapsed)`: each of
    `objs` is in `set` itself, or its base is and that base has been collapsed.
  * *Merging*: `RepInv`: `subs` is the inverse of `rep` (`RepMaps`) and edges end at representatives
    (`EdgesAtReps`). A merge keeps this only if no other merge under way has merged its target away
    meanwhile, hence `MergesApart`: the components being merged are disjoint. They are because
    `Components` are the classes of an equivalence (`ComponentsApart`). And the edges still to add
    must not be made stale by a merge, hence `EdgesApart`. `DoneSettled`: finalisation starts
    with nothing half done.
  * *Collapsing*: `FieldInv`: a collapse rewrites only the field nodes recorded for the object, so
    `FieldsGone` needs `FieldsKnown` (every field in a points-to set is recorded) and `BasesOnly`
    (only bases are told to collapse). `FactsStay` is the step relation of `FactsKept`.
  * *Links*: `LinkInv`: what a load, a store or a resolved call asked for is an edge of the graph, or one being
    added, or inside a merged node. A merge keeps it (`KeptInv`) because an edge either is moved to the
    representative or had both ends in the component.
  * *The fixed point*: `Least` by induction over the finite set of facts (`IterationStops`, from
    `FS_Induction`'s non-recursive consequences: a set that grows at each step stops). `PreciseInv`: every fact is
    within every closed solution (`Within`), whatever was merged: the nodes of a component
    reach each other, so they have equal solutions.
  * *Dummies and single definitions*: `DummyInv`: a dummy node of a call has no other definition, so no cycle passes through it.
* **AndersenWaveDiffProofs, AndersenLCDProofs** apply these lemmas to the steps of each loop. Each adds
  what its loop knows:
  * wave: `DetectSettled` (detection starts with no inner loop running), `WaveInv` with `NothingSkipped` (behind
    the wave's front nothing is left to propagate; a node before it that received something is
    still pending or the wave will be repeated: this is what a topological order is for, and the proof
    holds for any order because components were merged before), `FixInv` (when no iteration is asked
    for, every node's loads and stores have been looked at with what it holds), `CollapseInv` (the objects
    of a positive weight cycle are collapsed, or the wave has still to visit its node, or another iteration
    was asked for).
  * lazy cycle detection: `CopiesSettled` (the copies of a node are processed when its collapse has
    ended), that a node off the work list has nothing left to propagate, and `CollapseInv` (the objects of a
    positive weight cycle are collapsed, or its node is on the work list; a resolved call adds to
    points-to sets without queueing a node, but only to dummies, and those are on no cycle).
* What they establish, for every program, object layout, option, choice of representatives, order of
  merging and order of the work list:
  * at every step: `TypeCorrect`, `CopyPropagation`, `RepsInStep`, `NoFactLost`, `CollapsedForGood`, `WaveIsPrecise` (no
    fact outside the least solution), and the same for lazy cycle detection (`LCD...`);
  * at the end: `WaveIsEnough` (one wave propagates everything), `StopsAtFixpoint` and
    `LCDStopsAtSolution` (every copy, load, store and call edge is closed), `SolvedDirect`,
    `SolvedAccesses`, `SolvedCalls` and `LCDDirect`, `LCDLoadsAndStores`, `LCDCalls` (the constraints of the *program*, in terms
    of what a query returns), `OptimisticSolution` and `LCDOptimisticSolution` (the same in terms of
    the abstract specification), `LCDLeastSolution` (without geps the result is exactly the least solution);
  * `WaveImplementsInclusion` and `LCDImplementsInclusion`: the initial state and each step map to
    `InclusionConstraints`.
  * *Geps*: `GepsAccounted`: whatever is merged, each gep of the program is in the graph, adds nothing, is in a
    recorded cycle, or lies in a node whose objects get collapsed. The invariant (`GepInv`) follows a gep
    from *free* (`FreeGep`: its edge is the only way into the pointer it defines) over *gathering* (a merge
    under way has taken both its ends) to *gathered* (`Gathered`). With one way in, every
    component that contains the pointer contains the gep's source too (`AloneFound`), so the
    merge that takes the gep out of the graph is the one that looks at it: either it is counted as critical,
    or an edge between the same ends, of its kind, took its place before (`GepsMoved`). A critical gep whose
    cycle was not recorded lies within one node, and is satisfied as soon as every object that node points to is
    collapsed (`CollapsedGepHolds`): a field of a collapsed object is the object. `TracedGepsHold` concludes
    that at the end every gep is recorded or satisfied (`GepsHold`).
  * *Finalisation* (`FinalInv`): the loop leaves a solved graph, and finalisation rewrites
    sets and makes the merged fields of collapsed objects their own representatives. A field that stands
    alone was merged into its object's node (`FieldsJoined`), so its old set has nothing that the
    representative lacks (`SetsBelow`); `RemovalFrame` concludes that each removal keeps the
    constraints of the graph, and `FinalSolution` that what held of the graph holds of the
    program when the analysis ends.
* *Both rounds of a pass.* `AnalysisInv`, the conjunction of the invariants above, holds whenever the solver
  starts on a program (`StartSolver`), so the second round re-establishes it; `PassInv` adds that both policies
  are within the program's calls and the least solution, which is the same for both rounds. For the calls,
  `SetsBelow` (a merged node has nothing its representative lacks) says that finalisation, which makes nodes
  their own representatives again, shows no new target. Hence `PassKeepsGraph`, `PassKeepsFacts`, `PassReachesFixpoints`, `PassSolves` and
  `PassKeepsGeps` state the results above for both rounds. `FinalPolicyIsComplete` says of the policy a pass
  ends with that it has every target the solution has, unless the budget was spent or (with
  `-short-circuit`) the signatures differ,
  and `PoliciesAreJustified` that neither policy has a target outside the least solution.
* *Optimistic against fallback.* The two rounds solve the same program with different options and merge
  different nodes, so neither solution is computed from the other. They are compared through a third
  thing, the solutions of the program *with fields* (`FieldClosed`): points-to sets `L`, the objects `F` taken as one with their
  fields, and a preorder `P` of the nodes that contains every flow and makes nodes that lie before each other equal, as
  a merge does. The inclusion constraints of the least-solution theorems cannot serve here: they know no fields.
  * *Round 1 is within all of them* (`OptimisticInv`, `OptimisticIsPrecise`): for each solution, every fact
    of a round that keeps all fields is covered, as the object or as its base if `F` has it, and every edge
    and every merged pair is in `P`. A component is merged because its nodes reach each other, hence they are equal in
    each solution (`ComponentsTied`); a field of an object in `F` is its base (`GepCovered`). It is inductive
    because it speaks of all solutions at once and of the graph, not only of the sets.
  * *Round 2 ends with one* (`FallbackSolution`, `FallbackSolves`): its sets read through collapsed fields (`FieldSets`), its
    collapsed objects, and reachability in its graph (`FieldOrder`). The last needs that nodes before
    each other have equal sets, though nothing merges them after the last detection:
    the order of a wave is acyclic because each component has become one node (`DetectOrders`, `OrderInv`), and
    an iteration that asks for no other has added no edge against it (`EdgesSorted`). Variable-index geps need that
    without speculation every object that has gone through one is collapsed (`VariantsCollapse`), heap allocators
    that an object once stored stays (`HeapsKept`).
  * Hence `FallbackCovers` (switching the policy forbids nothing that was allowed) and `FallbackHasOptimistic` (no fact is
    only in the optimistic solution). `PolicyStep` and `SetsStep` carry it from the fixpoint
    through finalisation.
  * *Conditions* (`FallbackComplete`, of the second round's fixpoint alone): no merged pointer has missed a load or store (`MergedLinked`:
    otherwise 6.2 may take facts from the fallback that the optimistic round has), and no gep was
    swallowed (`GepsKnown`, 6.7). They hold in every state of the instance `wpa_pass`, whose second
    rounds collapse objects and merge pointers that are loaded and stored through
    (`MergedAccessPrograms`). `FallbackHasOptimistic` adds `FieldsStandAlone` (6.4); the policies do not need
    it, as no finalisation changes which functions a pointer has.
* *Their hypotheses.* Those about the end of a round that collapsed objects assume `[]FieldsStandAlone`: no field
  that finalisation removes represents another node. When one does, finalisation may lose facts
  (6.4), so without the hypothesis they are false. It is about `Andersen.cpp:157` alone, and TLC finds it true in every state
  of `wave_inclusion`, `lazy_cycle_detection` and `wpa_pass`, all of which finalise with collapsed objects. A round
  that keeps its fields, such as the first of a pass, needs no hypothesis.
  `GepsAccounted`, `OptimisticDirect` and `PassKeepsGeps` assume what LLVM guarantees, one definition per
  value (`SingleDefs`), and that no gep was `Swallowed`, merged into one node with a gep of its kind that adds
  nothing: that is exactly when one may be dropped unseen (6.7). `SolvedDirect`, `LCDDirect` and `PassSolves`
  assume the same of geps (`GepsTraceable`). It asks one more thing, which holds in both rounds of a pass
  (`PassInv`): that variable-index geps are not speculated on
  without the cycles being so. With that one combination an object excluded from a variant gep is not recorded if the gep
  was merged into one node first, as no gep edge is left to record it. `SolvedDirect` and `LCDDirect` also
  cover any program whose geps are each still in the graph or recorded.
* **KaliMonitorProofs.** `TypeCorrect`, `RecordsStayLive`, `NoFalseAlarms`, `ExcludedObjectsDetected`,
  `CompletionsDetected` and `ErrorsAreExplained`, all without a hypothesis on the constants.
  `ExcludedObjectsDetected` rests on `RecordedUnlessForgotten` (every live object of a monitored site
  is in the table or was reset by someone else; distinct frame addresses are needed here), `CompletionsDetected` on
  `LastRecorded` (a watched cycle's record is the last pointer through its gep, after the gep, modulo the
  width) and on a gep having one watcher (`OneWatcher`). `ErrorsAreExplained` joins both: every failure has switched
  the policy or is of a listed kind (`FailuresSeen`), and a policy switched in time reports no call that the fallback
  allows.
* **DebuggerProofs.** `TypeCorrect` (with `TodoIsPointees`: what is left of a load are pointees of it),
  `TargetsHaveIds` (`IdsOfTargets`: a check is passed exactly the ids of its targets),
  `IdsSharedOnlyAfterRepeats` (`IdsFresh`: without a repeated object, ids are distinct and below the counter),
  `MissesAreExplained` (with `RecordsLive`: a recorded address is that of a live object with that id) and
  `AlarmsAreExplained` (with `LiveRecorded`, its converse up to the stated exceptions, and
  `NoRecursion`). For any points-to sets, number of loads, and program.
* **NodeIDAllocatorProofs.** `TypeCorrect` and `ClashesAreExplained`, for any width, field
  limit and number of rounds, with `NodesNumbered`: which counter value each existing
  id came from.

### Model-checked only

* `Termination`, `PassTerminates` and the liveness half of `ImplementsInclusion`: liveness under fairness.
* `WaveComplete` is proved without condition. `CallsConnected`, `DirectConstraintsHold`,
  `UnmergedLoadStoresHold` and `LoadStoreConstraintsHold` are proved unless finalisation removes a field that
  represents another node; then they are not true for every value of the constants (6.4).
* `LostGepsAccounted` and, in an optimistic round, `DirectConstraintsHold` are proved (`GepsAccounted`,
  `OptimisticDirect`) but for swallowed geps, where they are false (6.7); in a round that collapses objects
  `DirectConstraintsHold` is proved with both exceptions.
* `FallbackCoversOptimistic` and `OptimisticIsSubset` are proved (`FallbackCovers`, `FallbackHasOptimistic`) unless
  a merged pointer of the second round missed a load or store (6.2) or a gep was swallowed (6.7), the second
  property unless finalisation removes a field that represents another node too (6.4). In the instance `wpa_pass` TLC finds the
  properties, and the conditions, true without exception.
* The types of each component are proved and not run, but for the solver's.
* That the solvers' `Components` and `topo` are what the detector returns: `ComponentsFound` and `TopologicalOrder` are
  the statements that both sides share, there is no module with both.

## 5. What the passing runs assume

* `kali_monitor` assumes nothing of the program; its properties state exceptions where the code departs from what its comments
  say. `VgepHidden`: the ignored stack, an interior pointer (`view_switch.cpp:58`), a record reset by another
  activation or a null allocation result (`view_switch.cpp:34`). `TurnHidden`: an unwatched cycle
  (`InvariantHandler.cpp:224`), one without constant offset, a pointer overtaken by another (one record per gep,
  `view_switch.cpp:69`), a first gep that moves the pointer (6.3), a variable index, an address cut to 32 bits
  (`view_switch.cpp:68`), the ignored stack. `NoFalseAlarm` speaks of the time before the first pointer
  is on a cycle: afterwards any pointer that lies the cycle's offset behind the last one is taken for a completion.
* The programs of the solvers' runs give each value one definition.
* `FallbackCoversOptimistic` excepts a second round that has spent its budget of indirect calls.
* With the default strategy (DEBUG) ids may clash once the counter passes the multiplier; the
  assertion at `PAG.h` then stops the analysis. `ClashesExplained` says exactly when.

## 6. Where the code departs from what it says

Items 1 to 3 are findings, each shown by a run. Items 4 to 7 are known departures that the runs keep out or the properties state as exceptions.

1. `complementPts` writes a wrong entry into the intersection table
   (`PersistentPointsToCache.h:193` against its comment at line 192). The entry is the larger
   of two nested operands, and no other entry is wrong (`IntersectionCacheBounds`). `updatePropaPtsMap`
   (`PersistentPointsToDS.h:257`) takes the set two merged nodes have both propagated from this
   table, which `AbstractPointsToDS.h:125` promises to be their intersection: it may be the
   larger of the two instead, and then a fact one of them never sent counts as sent. This is all
   that separates the two backings (`ImplementsMutable`, proved in `PersistentDiffPTDataProofs`).
2. A merge puts neither node on the work list (`AndersenWaveDiff.cpp:310`): a load through a
   pointer that is merged in the last iteration misses what its representative gained. For
   unmerged pointers the constraint does hold (`UnmergedLoadStoresHold`). It is also the one way, but for item 7, in
   which the fallback may lack what the optimistic round has (`FallbackCovers`).
3. `updatePWC` records the value after the gep and `checkPWC` adds the offset of the whole
   cycle once more (`InvariantHandler.cpp:239`). What the check does see is `TurnsDetected`: only cycles whose first
  gep leaves the pointer as it is.
4. `cleanConsCG` for a redundant field node that represents a component resets the
   representatives of all the component's nodes (`Andersen.cpp:157`): they fall back to stale
   sets. The programs of `wpa_pass` have no such component.
5. All activations of a function share one id, and so do all objects of an allocator call; the return of an inner activation erases the
   record of the outer one (`InvariantHandler.cpp:52`). `VgepsDetected` and `AlarmsExplained` have it as an exception.
6. The debugger sets its id counter back to the id of each known object it meets
   (`Debugger.cpp:43`), so later objects take ids in use and the check of a load accepts
 objects that are not its targets (`MissesExplained`, `SharedIdsNeedRepeats`).
7. `addNormalGepCGEdge` drops a new gep edge when one with the same ends exists, whatever their offsets
   (`ConsG.cpp:234`, called at lines 349 and 408 by the merge; `ConsG.h:291` says that edges of different
   offsets are kept apart). With `t = &s; p = phi(t, a, b); a = &p->first; b = &p->second`, where `a` and `b`
   were merged before `p` joins their component, the second gep is dropped. If the one that stays adds nothing
   the component is no positive weight cycle, so nothing is monitored, and `b` never
   points to the second field: `DirectConstraintsHold` and `LostGepsAccounted` fail. This
   is what `Swallowed` says of a gep, and by `GepsAccounted` it is the only way to lose one. The programs of the runs merge
   each component in one iteration.

## 7. Not modelled

* Building the graph from LLVM IR, location sets and types: each program of a small instance is an
  initial state instead.
* Hybrid cycle detection, the stride-based, selective and type-filtered solvers, Steensgaard's and the
  flow-sensitive analyses, the value-flow graph, memory SSA, demand-driven and multi-threaded
  analyses, checkers: inherited from SVF, and not run by the pipeline. CUDD is vendored. Together with the
  front end these are most of the lines of the repository, so the mapped lines are a small share of it.
* `InvariantHandler` as a pass: the order in which ids are given, the type filter of variable
  geps, and cycles without a gep, whose empty list is read
  (`InvariantHandler.cpp:216`).
* Several threads in the monitored program: the tables are unsynchronised, and a data race on
  a map has no enumerable outcomes.
* Frames left by `longjmp` or an exception: nothing in the code handles them, and any model with one violates `RecordsLive`.
* The wording of the debugger's reports, interior pointers in its check, and node ids that differ between the rounds (`WPAPass.cpp:667`).
* Output, statistics, dumps, reading results from a file.

## 8. What could come next

1. What a too large propagated set means for `CopiesPropagated` when the solver runs with
   `-ptd=persistent`: `Andersen` over `PersistentDiffPTData` in place of plain sets.
2. The detector inside the solvers: `Components` of `ConstraintGraph` as what `SCCDetection` returns.
3. `InvariantHandler` as a pass over the solver's record of cycles (`PAG::PWCInvariants`), which `KaliMonitor` takes as given.
4. Hybrid cycle detection on top of `Andersen`, which has its merges.
