\* Two keys, two objects, an id for each of their sets, eight operations.
CONSTANTS
    Keys = {n1, n2}
    Objs = {o1, o2}
    IdSpace = 4
    MaxCalls = 8
SPECIFICATION MCSpec
SYMMETRY Symmetries
INVARIANT RevPtsInverse
PROPERTY ImplementsMutable
CHECK_DEADLOCK FALSE
