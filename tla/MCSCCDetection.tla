-------------------------- MODULE MCSCCDetection --------------------------
(* Model checking of SCCDetection on all graphs of four nodes.             *)
EXTENDS SCCDetection, TLC

\* moveEdgesToRepNode leaves no direct edge from a node to itself.
MCGraphs == SUBSET {e \in Nodes \X Nodes : e[1] # e[2]}

NodePermutations == Permutations(Nodes)
=============================================================================
