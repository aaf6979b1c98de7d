\* The gep of the cycle adds the cycle's offset itself.
SPECIFICATION Spec
CONSTANTS
    Funs = {"f", "g"}
    HeapSites = {"buffer"}
    Excluded <- mcExcluded
    HeapAddrs = {}
    FrameAddr <- mcFrameAddr
    Offs = {0}
    KnownStack = {"top"}
    PwcGeps <- mcMovedCycle
    FirstGep <- mcMovedFirst
    GepOffset <- mcGepOffset
    VariableGeps = {}
    MaxDrift = 0
    MaxPwc = 6
    MaxOnWay = 1
    KnownStackPwc = {}
    IntWidth = 8
    CallSites = {"handler", "hook"}
    Targets = {"t1", "t2"}
    WInv <- mcWInv
    WoInv <- mcWoInv
    RecursiveFuns = {}
    FailingSites = {}
INVARIANT CyclesDetected
