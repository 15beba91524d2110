----------------------------- MODULE RegionPool -----------------------------
(***************************************************************************)
(* What the public heap promises: a pool of block regions that nobody      *)
(* allocates from.  A thread takes a region out of the pool, gives its own *)
(* region up to the pool, or exchanges the two; a region is in the pool or *)
(* has one owner, never both.                                              *)
(***************************************************************************)
CONSTANTS Threads, Regions, Null

VARIABLES pool, owned

vars == <<pool, owned>>

Init == pool = {} /\ owned \in [Threads -> Regions \cup {Null}]

Unowned(r) == \A t \in Threads : owned[t] # r

\* A region of the pool becomes the region of a thread without one.
Take(t, r) ==
    /\ owned[t] = Null /\ r \in pool
    /\ pool' = pool \ {r}
    /\ owned' = [owned EXCEPT ![t] = r]

\* A thread gives its region up and goes on without one.
Give(t) ==
    /\ owned[t] # Null
    /\ pool' = pool \cup {owned[t]}
    /\ owned' = [owned EXCEPT ![t] = Null]

\* A thread changes its region for one of the pool.
Exchange(t, r) ==
    /\ owned[t] # Null /\ r \in pool
    /\ pool' = (pool \ {r}) \cup {owned[t]}
    /\ owned' = [owned EXCEPT ![t] = r]

\* A region that the system allocator supplies.
Allocate(t, r) ==
    /\ owned[t] = Null /\ r \notin pool /\ Unowned(r)
    /\ owned' = [owned EXCEPT ![t] = r]
    /\ UNCHANGED pool

Next == \E t \in Threads :
    Give(t) \/ \E r \in Regions : Take(t, r) \/ Exchange(t, r) \/ Allocate(t, r)

Spec == Init /\ [][Next]_vars
=============================================================================
