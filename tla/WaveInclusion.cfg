\* Every program of two pointers, indirect calls, and cycles through a field.
CONSTANTS
    Ptrs = {a, b}
    Derefs = {a, b}
    PhiSources = {a, b}
    GepSources = {a, b}
    AddrObjs = {S, x}
    S = S
    S1 = S1
    x = x
    StoreSets <- AllStores
    p = p  t = t  q = q  w = w  v = a
    fp = p  arg = t  pf = q  pg = pg  ret = w  dummy = dummy
    f = f  g = g  alloc = alloc  heapObj = heapObj
    Checks = {"none", "args", "all"}
    Nodes <- MCCallNodes
    ObjNodes <- MCCallObjNodes
    Base <- MCCallBase
    Offsets <- MCOffsets
    FieldOf <- MCCallFields
    StructObjs = {S}
    ArrayObjs = {}
    OpaqueObjs = {}
    PointerlessObjs = {f, g, alloc}
    Programs <- MCWavePrograms
    MergeModes = {TRUE, FALSE}
    Invariants = {TRUE, FALSE}
    IndirectCallLimit = 3
SPECIFICATION Spec
INVARIANTS
    TypeOK
    CopiesPropagated
    FixpointReached
    Precise
PROPERTIES
    ImplementsInclusion
