\* Three objects, ids for half of their sets: the id counter wraps to 0.
CONSTANTS
    Objs = {o1, o2, o3}
    IdSpace = 4
SPECIFICATION Spec
SYMMETRY ObjectPermutations
CHECK_DEADLOCK FALSE
INVARIANTS
    HashConsing
    UnionCacheSound
    ComplementCacheSound
    IntersectionCacheBounds
    AnswerExact
PROPERTY IdsAreStable
