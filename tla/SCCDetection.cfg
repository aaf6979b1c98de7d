\* Two searches by one detector, over every graph of four nodes.
CONSTANTS
    Nodes = {n1, n2, n3, n4}
    None = None
    Graphs <- MCGraphs
    MaxFinds = 2
SYMMETRY NodePermutations
SPECIFICATION Spec
INVARIANTS
    ComponentsFound
    TopologicalOrder
PROPERTIES
    ClosedIsFinal
