\* Both rounds of the pass; cycles merged or not.
CONSTANTS
    Ptrs = {a, b, c}
    Derefs <- MCLateDerefs
    PhiSources <- MCLatePhiSources
    GepSources <- MCLateGepSources
    AddrObjs = {}
    S = S
    S1 = S1
    x = x
    StoreSets <- MCLateStores
    p = p  t = t  q = q  w = w  v = a
    fp = p  arg = t  pf = q  pg = b  ret = w  dummy = c
    f = f  g = g  alloc = alloc  heapObj = heapObj
    Checks = {"none", "args", "all"}
    Nodes <- MCLateNodes
    ObjNodes <- MCCallObjNodes
    Base <- MCCallBase
    Offsets <- MCOffsets
    FieldOf <- MCCallFields
    StructObjs = {S}
    ArrayObjs = {}
    OpaqueObjs = {}
    PointerlessObjs = {f, g, alloc}
    Programs <- MCPassPrograms
    MergeModes = {TRUE, FALSE}
    Invariants = {TRUE}
    ShortCircuit = {FALSE, TRUE}
    IndirectCallLimit = 3
    MaxAssignments = 4
    MaxUnmerged = 3
SPECIFICATION PassSpec
INVARIANTS
    RepsAndSubs
    FieldsGone
    WaveComplete
    LostGepsAccounted
    DirectConstraintsHold
    UnmergedLoadStoresHold
    CallsConnected
    FallbackCoversOptimistic
    OptimisticIsSubset
PROPERTIES
    FactsKept
    PassTerminates
