--------------------------- MODULE MCCoexprReclaim ---------------------------
(* Instances of CoexprReclaim for TLC. *)
EXTENDS CoexprReclaim, TLC

CONSTANTS m, a, b

ThreeCoexprs == {m, a, b}
MainOnly == {m}

CoexprSymmetry == Permutations({a, b})
=============================================================================
