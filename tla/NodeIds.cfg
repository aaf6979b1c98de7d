\* All strategies over two rounds, in an id space small enough to run out.
SPECIFICATION Spec
CHECK_DEADLOCK FALSE
CONSTANTS
    Strategies = {"DENSE", "SEQ", "DEBUG"}
    MaxId = 15
    MaxFieldLimit = 2
    PowerAbove <- mcPowerAbove
    MaxAllocations = 9
    MaxRounds = 2
INVARIANTS
    ClashesExplained
