---------------------------- MODULE MCPublicHeap ----------------------------
(* Instances of PublicHeap for TLC. *)
EXTENDS PublicHeap, TLC

CONSTANTS m, w1, w2, g1, g2, g3, g4

ThreeThreads == {m, w1, w2}
FourRegions == {g1, g2, g3, g4}

\* g1 is large: main does not exchange it for g4, a small one.
Sizes == (g1 :> 4) @@ (g2 :> 2) @@ (g3 :> 2) @@ (g4 :> 1)
OneOrTwo == {1, 2}
One == {1}

HeapSymmetry == Permutations({w1, w2}) \cup Permutations({g2, g3})
=============================================================================
