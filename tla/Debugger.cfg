\* Every points-to solution of two loads, then every run of the program.
SPECIFICATION Spec
CONSTANTS
    Funs = {"f", "g"}
    HeapSites = {"malloc"}
    Globals = {"global"}
    Nodes = {1, 2, 3, 4, 5, 6}
    ValueOf <- mcValueOf
    NumLoads = 2
    PtsChoices <- mcPtsChoices
    HeapAddrs = {"h1", "h2"}
    FrameAddr <- mcFrameAddr
    GlobalAddr <- mcGlobalAddr
    RecursiveFuns = {"f"}
    FailingSites = {"malloc"}
INVARIANTS
    AlarmsExplained
    MissesExplained
    SharedIdsNeedRepeats
