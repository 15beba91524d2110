----------------------------- MODULE MCHashTable -----------------------------
(* Instances of HashTable for TLC. *)
EXTENDS HashTable

CONSTANTS key_a, key_b, key_c, key_d, key_e

FiveKeys == {key_a, key_b, key_c, key_d, key_e}

Numbers(p, q, r, s, t) ==
    key_a :> p @@ key_b :> q @@ key_c :> r @@ key_d :> s @@ key_e :> t

\* key_a and key_b have equal hash numbers and leave the slot of key_c at the
\* first split and again at the second, key_e only at the second; key_d starts
\* in the other slot.
Hashes == {Numbers(6, 6, 8, 1, 4)}

\* Keys of equal hash numbers differ by name only.
EqualHash == Permutations({key_a, key_b})
=============================================================================
