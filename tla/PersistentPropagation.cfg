\* The propagated set after a merge, taken from the intersection table.
CONSTANTS
    Keys = {n1, n2}
    Objs = {o1, o2}
    IdSpace = 4
    MaxCalls = 6
SPECIFICATION MCSpec
PROPERTY PropaIsIntersection
CHECK_DEADLOCK FALSE
