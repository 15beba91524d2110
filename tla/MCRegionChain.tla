---------------------------- MODULE MCRegionChain ----------------------------
(* Instances of RegionChain for TLC. *)
EXTENDS RegionChain, TLC

CONSTANTS m, w1, w2, g1, g2, g3, g4, g5

ThreeThreads == {m, w1, w2}
FiveRegions == {g1, g2, g3, g4, g5}

\* The workers are interchangeable, and the regions but the first.
ChainSymmetry == Permutations({w1, w2}) \cup Permutations({g2, g3, g4, g5})
=============================================================================
