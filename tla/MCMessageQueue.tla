--------------------------- MODULE MCMessageQueue ---------------------------
(* Instances of MessageQueue for TLC. *)
EXTENDS MessageQueue

CONSTANTS s1, s2, r1, r2, a, b

TwoSenders == {s1, s2}
TwoReceivers == {r1, r2}
TwoValues == {a, b}
\* A value of its own for each sender, to tell their order apart.
OwnValue == [t \in TwoSenders |-> IF t = s1 THEN {a} ELSE {b}]
Lower == {1}
=============================================================================
