---------------------------- MODULE MCCollector ----------------------------
(***************************************************************************)
(* Two variables, a block type with a pointer and a descriptor and one     *)
(* with neither, in two regions of which each may be collected: the first  *)
(* has room for a node and a leaf, in either order, and the second for a   *)
(* node.  A node that follows a dead leaf is moved to where it overlaps    *)
(* with itself, and three characters leave a gap between two strings.      *)
(***************************************************************************)
EXTENDS Collector

CONSTANTS x, y, z, r1, r2, node, leaf, first, second

MCSize == (node :> 3) @@ (leaf :> 2)
MCPtrs == (node :> 1) @@ (leaf :> 0)
MCDescs == (node :> 1) @@ (leaf :> 0)
MCBase == (first :> 1) @@ (second :> 6)
MCEnd == (first :> 6) @@ (second :> 9)

Symmetry == Permutations(Roots) \cup Permutations(Chars)
=============================================================================
