--------------------------- MODULE MCThreadControl ---------------------------
(* Instances of ThreadControl for TLC: two or three threads, named.          *)
EXTENDS ThreadControl, TLC

CONSTANTS m, w1, w2

TwoThreads == {m, w1}
ThreeThreads == {m, w1, w2}
NoExiters == {}
MainExits == {m}
WorkerExits == {w1}

\* The workers are interchangeable when none of them is singled out.
WorkerSymmetry == Permutations({w1, w2})
=============================================================================
