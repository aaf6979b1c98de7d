\* A load through a pointer that was merged misses what the merge brought.
CONSTANTS
    s = s  p = p  q = q  cell = cell  t = t  a = a  c = c  u = u  w = w
    o = o  m = m  y = y  z = z
    Nodes <- MCNodes
    ObjNodes <- MCObjNodes
    Base <- MCBase
    Offsets <- MCOffsets
    FieldOf <- MCFields
    StructObjs = {}
    ArrayObjs = {}
    OpaqueObjs = {}
    PointerlessObjs = {}
    Programs <- MCPrograms
    IndirectCallLimit = 10
SPECIFICATION Spec
INVARIANT LoadStoreConstraintsHold
