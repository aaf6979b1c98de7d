\* Three cycles, recursion, failing allocations and geps into objects.
SPECIFICATION Spec
CONSTANTS
    Funs = {"f", "g"}
    HeapSites = {"buffer"}
    Excluded <- mcExcluded
    HeapAddrs = {"h1", "h2"}
    FrameAddr <- mcFrameAddr
    Offs = {0, 1}
    KnownStack = {"top"}
    PwcGeps <- mcPwcGeps
    FirstGep <- mcFirstGep
    GepOffset <- mcGepOffset
    VariableGeps = {"index"}
    MaxDrift = 1
    MaxPwc = 4
    MaxOnWay = 2
    KnownStackPwc = {2}
    IntWidth = 3
    CallSites = {"handler", "hook"}
    Targets = {"t1", "t2"}
    WInv <- mcWInv
    WoInv <- mcWoInv
    RecursiveFuns = {"f"}
    FailingSites = {"buffer"}
INVARIANTS
    RecordsLive
    VgepsDetected
    NoFalseAlarm
    TurnsDetected
    ErrorsExplained
