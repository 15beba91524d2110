----------------------------- MODULE PublicHeap -----------------------------
(***************************************************************************)
(* The block regions of concurrent threads.  Every thread allocates in a   *)
(* private region, curtblock.  Regions nobody owns hang in the public      *)
(* chain: public_blockregion, linked both ways by Tnext and Tprev.         *)
(*                                                                         *)
(* swap2publicheap(), findgap() and reserve() of runtime/ralc.r, and       *)
(* reuse_region(), init_threadheap() and coclean() of runtime/rcoexpr.r    *)
(* change the chain under MTX_PUBLICBLKHEAP, or, in reserve(), while       *)
(* all other threads are stopped.  What is done under the mutex is one     *)
(* step.  That control is exclusive is what ThreadControl shows; here it   *)
(* is the variable control.  The string regions are handled by the same    *)
(* code with variables of their own.                                       *)
(***************************************************************************)
EXTENDS Integers, FiniteSets

CONSTANTS
    Threads,   \* the async threads
    Main,      \* the thread that runs first
    Regions,   \* block regions, allocated or not
    First,     \* the region main starts with (rootblock)
    Size,      \* their sizes
    Wants,     \* how much a thread may ask for; a scan has the same goal
    Null

ASSUME HeapAssumption ==
    /\ IsFiniteSet(Threads) /\ Main \in Threads
    /\ IsFiniteSet(Regions) /\ First \in Regions
    /\ Size \in [Regions -> Nat]
    /\ Wants \subseteq Nat
    /\ Null \notin Regions \cup Threads

VARIABLES
    public_blockregion,   \* head of the chain
    Tnext, Tprev,         \* the links of every region
    curtblock,            \* the private region of every thread
    want,                 \* what each thread asks for, and the goal of its scans
    rp,                   \* rp of reserve(): the loop variable, the new region
    control,              \* the thread for which the others are stopped
    pc

chain == <<public_blockregion, Tnext, Tprev>>
locals == <<want, rp>>
vars == <<chain, locals, curtblock, control, pc>>

Labels == {"unborn", "run", "gap", "stop", "scan", "scanned", "grow", "grown",
           "stop_last", "scan_last", "scanned_last", "gap_last", "exited"}

Init ==
    /\ public_blockregion = Null
    /\ Tnext = [r \in Regions |-> Null]
    /\ Tprev = [r \in Regions |-> Null]
    /\ curtblock = [t \in Threads |-> IF t = Main THEN First ELSE Null]
    /\ want = [t \in Threads |-> 0]
    /\ rp = [t \in Threads |-> Null]
    /\ control = Null
    /\ pc = [t \in Threads |-> IF t = Main THEN "run" ELSE "unborn"]

\* The public regions in the order of the chain; Null after the last.
Walk[i \in 0..Cardinality(Regions)] ==
    IF i = 0 THEN public_blockregion
    ELSE IF Walk[i - 1] = Null THEN Null ELSE Tnext[Walk[i - 1]]

Public == {Walk[i] : i \in 0..Cardinality(Regions)} \ {Null}

\* Regions the system allocator has not supplied yet.
Fresh == Regions \ (Public \cup {curtblock[t] : t \in Threads}
                           \cup {rp[t] : t \in {u \in Threads : pc[u] = "grown"}})

Goto(t, from, to) == pc[t] = from /\ pc' = [pc EXCEPT ![t] = to]

\* swap2publicheap(p, NULL, &public_blockregion): p becomes the head.
PutPublic(p) ==
    /\ Tnext' = [Tnext EXCEPT ![p] = public_blockregion]
    /\ Tprev' = [r \in Regions |-> IF r = p THEN Null
                                   ELSE IF r = public_blockregion THEN p
                                   ELSE Tprev[r]]
    /\ public_blockregion' = p

\* Mutant: the backward link of the region after s is left alone.
SwapPublicOneWay(p, s) ==
    /\ Tnext' = [r \in Regions |-> IF r = p THEN Tnext[s]
                                   ELSE IF r = s THEN Null
                                   ELSE IF r = Tprev[s] THEN p
                                   ELSE Tnext[r]]
    /\ Tprev' = [Tprev EXCEPT ![p] = Tprev[s], ![s] = Null]
    /\ public_blockregion' = IF Tprev[s] = Null THEN p ELSE public_blockregion

\* swap2publicheap(p, s, &public_blockregion): p takes the place of s.
SwapPublic(p, s) ==
    /\ Tnext' = [r \in Regions |-> IF r = p THEN Tnext[s]
                                   ELSE IF r = s THEN Null
                                   ELSE IF r = Tprev[s] THEN p
                                   ELSE Tnext[r]]
    /\ Tprev' = [r \in Regions |-> IF r = p THEN Tprev[s]
                                   ELSE IF r = s THEN Null
                                   ELSE IF r = Tnext[s] THEN p
                                   ELSE Tprev[r]]
    /\ public_blockregion' = IF Tprev[s] = Null THEN p ELSE public_blockregion

\* Mutant: the head of the chain is left alone.
TakePublicHeadKept(s) ==
    /\ Tnext' = [r \in Regions |-> IF r = s THEN Null
                                   ELSE IF r = Tprev[s] THEN Tnext[s]
                                   ELSE Tnext[r]]
    /\ Tprev' = [r \in Regions |-> IF r = s THEN Null
                                   ELSE IF r = Tnext[s] THEN Tprev[s]
                                   ELSE Tprev[r]]
    /\ UNCHANGED public_blockregion

\* The end of reuse_region(): s leaves the chain.
TakePublic(s) ==
    /\ Tnext' = [r \in Regions |-> IF r = s THEN Null
                                   ELSE IF r = Tprev[s] THEN Tnext[s]
                                   ELSE Tnext[r]]
    /\ Tprev' = [r \in Regions |-> IF r = s THEN Null
                                   ELSE IF r = Tnext[s] THEN Tprev[s]
                                   ELSE Tprev[r]]
    /\ public_blockregion' = IF Tprev[s] = Null THEN Tnext[s] ELSE public_blockregion

\* The variables of reserve() mean nothing after it has returned.
Return(t) ==
    /\ want' = [want EXCEPT ![t] = 0]
    /\ rp' = [rp EXCEPT ![t] = Null]

\* "large enough to possibly succeed"; the second scan asks for less.
Fits(t, r) == Size[r] >= want[t] /\ Size[r] >= Size[curtblock[t]] \div 2
FitsLast(t, r) == Size[r] >= want[t]

-----------------------------------------------------------------------------
(* The life of a thread *)

\* init_threadheap(): reuse_region() picks among the public regions that are
\* large enough, by the room they have; newregion() only if there is none.
InitThreadHeap(t, n) ==
    /\ Goto(t, "unborn", "run")
    /\ control = Null
    /\ LET large == {r \in Public : Size[r] >= n}
       IN  \/ \E r \in large : TakePublic(r) /\ curtblock' = [curtblock EXCEPT ![t] = r]
           \/ /\ large = {}
              /\ \E r \in Fresh : Size[r] >= n /\ curtblock' = [curtblock EXCEPT ![t] = r]
              /\ UNCHANGED chain
    /\ UNCHANGED <<locals, control>>

\* coclean() of a thread that ends gives its region up.
CleanThread(t) ==
    /\ t # Main
    /\ Goto(t, "run", "exited")
    /\ control = Null
    /\ PutPublic(curtblock[t])
    /\ curtblock' = [curtblock EXCEPT ![t] = Null]
    /\ UNCHANGED <<locals, control>>

-----------------------------------------------------------------------------
(* reserve() *)

\* The private region has no room for n; with room reserve() returns at once.
Reserve(t, n) ==
    /\ Goto(t, "run", "gap")
    /\ control = Null
    /\ want' = [want EXCEPT ![t] = n]
    /\ UNCHANGED <<chain, rp, curtblock, control>>

\* findgap(): change for a public region that has room and is not too small.
\* How much room a region has is left open.
FindGap(t) ==
    /\ pc[t] \in {"gap", "gap_last"}
    /\ control = Null
    /\ \/ \E r \in Public :
             /\ Fits(t, r)
             /\ SwapPublic(curtblock[t], r)
             /\ curtblock' = [curtblock EXCEPT ![t] = r]
             /\ pc' = [pc EXCEPT ![t] = "run"]
             /\ Return(t)
       \/ /\ Goto(t, "gap", "stop")
          /\ UNCHANGED <<chain, curtblock, locals>>
       \/ /\ Goto(t, "gap_last", "run")
          /\ Return(t)
          /\ UNCHANGED <<chain, curtblock>>
    /\ UNCHANGED control

\* SUSPEND_THREADS(); collect() of the private region.  A thread between the
\* swap and the assignment of curtblock is counted: control waits for it.
Suspend(t) ==
    /\ Goto(t, "stop", "scan")
    /\ control = Null
    /\ \A u \in Threads : pc[u] # "grown"
    /\ control' = t
    /\ rp' = [rp EXCEPT ![t] = public_blockregion]
    /\ UNCHANGED <<chain, curtblock, want>>

\* The collection left room enough: RESUME_THREADS() and return.
Succeed(t) ==
    /\ pc[t] \in {"scan", "scan_last"}
    /\ control = t
    /\ pc' = [pc EXCEPT ![t] = "run"]
    /\ control' = Null
    /\ Return(t)
    /\ UNCHANGED <<chain, curtblock>>

\* It did not: look at the next public region, change the private region for it
\* if it is large enough and collect again.  rp->Tnext is read after the swap.
ScanRegion(t) ==
    /\ pc[t] \in {"scan", "scan_last"}
    /\ control = t
    /\ rp[t] # Null
    /\ IF (IF pc[t] = "scan" THEN Fits(t, rp[t]) ELSE FitsLast(t, rp[t]))
         THEN /\ SwapPublic(curtblock[t], rp[t])
              /\ curtblock' = [curtblock EXCEPT ![t] = rp[t]]
         ELSE UNCHANGED <<chain, curtblock>>
    /\ rp' = [rp EXCEPT ![t] = Tnext'[rp[t]]]
    /\ UNCHANGED <<want, control, pc>>

\* The loop is over.
ScanEnd(t) ==
    /\ rp[t] = Null
    /\ control = t
    /\ Goto(t, "scan", "scanned") \/ Goto(t, "scan_last", "scanned_last")
    /\ UNCHANGED <<chain, locals, curtblock, control>>

\* RESUME_THREADS(): a new region is tried, findgap() after the second scan.
Resume(t) ==
    /\ control = t
    /\ Goto(t, "scanned", "grow") \/ Goto(t, "scanned_last", "gap_last")
    /\ control' = Null
    /\ UNCHANGED <<chain, want, rp, curtblock>>

\* newregion() succeeds, and the private region is put in the public chain
\* under the mutex.  curtblock still names it.
GrowSwap(t) ==
    /\ Goto(t, "grow", "grown")
    /\ control = Null
    /\ \E r \in Fresh : Size[r] >= want[t] /\ rp' = [rp EXCEPT ![t] = r]
    /\ PutPublic(curtblock[t])
    /\ UNCHANGED <<curtblock, want, control>>

\* Mutant: the private region stays the one that was given up.
GrowLinkKept(t) ==
    /\ Goto(t, "grown", "run")
    /\ Return(t)
    /\ UNCHANGED <<chain, curtblock, control>>

\* The new region is linked in under MTX_BLKHEAP and becomes the private one.
GrowLink(t) ==
    /\ Goto(t, "grown", "run")
    /\ curtblock' = [curtblock EXCEPT ![t] = rp[t]]
    /\ Return(t)
    /\ UNCHANGED <<chain, control>>

\* newregion() fails.
GrowFail(t) ==
    /\ Goto(t, "grow", "stop_last")
    /\ control = Null
    /\ UNCHANGED <<chain, locals, curtblock, control>>

\* SUSPEND_THREADS() again, and a second scan.
SuspendLast(t) ==
    /\ Goto(t, "stop_last", "scan_last")
    /\ control = Null
    /\ \A u \in Threads : pc[u] # "grown"
    /\ control' = t
    /\ rp' = [rp EXCEPT ![t] = public_blockregion]
    /\ UNCHANGED <<chain, curtblock, want>>

-----------------------------------------------------------------------------

Next == \E t \in Threads :
    \/ \E n \in Wants : InitThreadHeap(t, n) \/ Reserve(t, n)
    \/ CleanThread(t) \/ FindGap(t) \/ Suspend(t) \/ Succeed(t) \/ ScanRegion(t)
    \/ ScanEnd(t) \/ Resume(t) \/ GrowSwap(t) \/ GrowLink(t) \/ GrowFail(t) \/ SuspendLast(t)

Spec == Init /\ [][Next]_vars
-----------------------------------------------------------------------------
(* Properties *)

\* Every variable has its type.
TypeOK ==
    /\ public_blockregion \in Regions \cup {Null}
    /\ Tnext \in [Regions -> Regions \cup {Null}]
    /\ Tprev \in [Regions -> Regions \cup {Null}]
    /\ curtblock \in [Threads -> Regions \cup {Null}]
    /\ want \in [Threads -> Wants \cup {0}]
    /\ rp \in [Threads -> Regions \cup {Null}]
    /\ control \in Threads \cup {Null}
    /\ pc \in [Threads -> Labels]

\* The chain ends, and its backward links mirror its forward links: every mix of
\* insertions, removals and exchanges at the head, in the middle and at the end
\* leaves it so.  A region outside it has no links left.
ChainSound ==
    /\ Walk[Cardinality(Regions)] = Null
    /\ \A r \in Public : Tprev[r] = Null <=> r = public_blockregion
    /\ \A r \in Public : Tnext[r] # Null => Tprev[Tnext[r]] = r
    /\ \A r \in Regions \ Public : Tnext[r] = Null /\ Tprev[r] = Null

ChainInv == TypeOK /\ ChainSound

\* The region a thread allocates from.
Owned(t) == IF pc[t] = "grown" THEN Null ELSE curtblock[t]

\* Two threads never allocate from one region, and none allocates from a region
\* that others may take out of the public chain.
OneOwner ==
    \A t \in Threads : Owned(t) # Null =>
        /\ Owned(t) \notin Public
        /\ \A u \in Threads \ {t} : Owned(u) # Owned(t)

\* The chain and the private regions behave as a pool of regions with at most
\* one owner each.
Pool == INSTANCE RegionPool WITH pool <- Public, owned <- [t \in Threads |-> Owned(t)]
ImplementsPool == Pool!Spec

=============================================================================
