---------------------------- MODULE SetIteration ----------------------------
(***************************************************************************)
(* What a set (or the keys of a table) promises while `!S` or `key(T)`     *)
(* generates its elements: each element exactly once; elements inserted or *)
(* deleted between calls may or may not be generated (the comment of       *)
(* hgnext(), runtime/rstruct.r:417).                                       *)
(***************************************************************************)
EXTENDS FiniteSets

CONSTANTS Keys, None

VARIABLES
    members,   \* the elements
    at,        \* the element the generation stands at, None when there is none
    owed,      \* elements it has to generate
    done       \* elements it has generated and that were not deleted since

vars == <<members, at, owed, done>>

Init == members = {} /\ at = None /\ owed = {} /\ done = {}

Generating == at # None

Insert(k) ==
    /\ members' = members \cup {k}
    /\ UNCHANGED <<at, owed, done>>

Delete(k) ==
    /\ members' = members \ {k}
    /\ owed' = owed \ {k}
    /\ done' = done \ {k}
    /\ UNCHANGED at

\* A generation that starts gives its first element at once, if there is one.
Start == \E k \in members :
    /\ ~ Generating /\ at' = k
    /\ owed' = members \ {k} /\ done' = {k}
    /\ UNCHANGED members

\* What was deleted meanwhile may still be generated.
Resume == \E k \in Keys \ done :
    /\ Generating /\ at' = k
    /\ owed' = owed \ {k}
    /\ done' = done \cup ({k} \cap owed)
    /\ UNCHANGED members

\* The generation ends only when nothing is owed.
End ==
    /\ Generating /\ owed = {}
    /\ at' = None /\ done' = {}
    /\ UNCHANGED <<members, owed>>

\* A copy, a difference or a union takes the place of the set.
Replace ==
    /\ ~ Generating
    /\ members' \subseteq members \/ members \subseteq members'
    /\ UNCHANGED <<at, owed, done>>

Next ==
    \/ \E k \in Keys : Insert(k) \/ Delete(k)
    \/ Start \/ Resume \/ End \/ Replace

Spec == Init /\ [][Next]_vars
=============================================================================
