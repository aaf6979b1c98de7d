-------------------------- MODULE MCPointsToCache --------------------------
(* Model checking of PointsToCache on a handful of objects and ids.        *)
EXTENDS PointsToCache

ObjectPermutations == Permutations(Objs)
=============================================================================
