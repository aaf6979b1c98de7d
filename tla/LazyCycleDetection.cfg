\* Lazy cycle detection, without the invariants.
CONSTANTS
    Ptrs = {a, b, c}
    Derefs <- MCLateDerefs
    PhiSources <- MCLatePhiSources
    GepSources <- MCLateGepSources
    AddrObjs = {}
    S = S
    S1 = S1
    x = x
    StoreSets <- MCLateStores
    p = p  t = t  q = q  w = w  v = a
    fp = p  arg = t  pf = q  pg = b  ret = w  dummy = c
    f = f  g = g  alloc = alloc  heapObj = heapObj
    Checks = {"none", "args", "all"}
    Nodes <- MCLateNodes
    ObjNodes <- MCCallObjNodes
    Base <- MCCallBase
    Offsets <- MCOffsets
    FieldOf <- MCCallFields
    StructObjs = {S}
    ArrayObjs = {}
    OpaqueObjs = {}
    PointerlessObjs = {f, g, alloc}
    Programs <- MCLCDPrograms
    MergeModes = {TRUE}
    Invariants = {FALSE}
    IndirectCallLimit = 3
    MaxAssignments = 4
    MaxCopies = 5
SPECIFICATION Spec
INVARIANTS
    LeastSolution
    LoadStoreConstraintsHold
    SolutionReached
PROPERTIES
    Termination
