----------------------------- MODULE RegionChain -----------------------------
(***************************************************************************)
(* The chains every block region is linked into when it is created: the    *)
(* chain of the program (prev, next) and the chain of all programs (Gprev, *)
(* Gnext).  markblock() and markptr() of runtime/rmemmgt.r look in them    *)
(* for the region a block lies in, in both directions from curblock.       *)
(*                                                                         *)
(* A new region is linked in under MTX_BLKHEAP, by init_threadheap() of    *)
(* runtime/rcoexpr.r next to curblock and by reserve() of runtime/ralc.r   *)
(* at the end of the program's chain.  curblock is a variable of the       *)
(* program: collect() sets it while all other threads are stopped, and     *)
(* init_threadheap() sets it, without MTX_BLKHEAP, when it reuses a public *)
(* region.  init_threadheap() reads curblock anew for each assignment, so  *)
(* each assignment is a step.  The public regions are a set here, their    *)
(* chain is the subject of PublicHeap.                                     *)
(***************************************************************************)
EXTENDS Naturals, FiniteSets

CONSTANTS
    Threads,   \* the threads of one program
    Main,      \* the thread that runs first
    Regions,   \* block regions, allocated or not
    First,     \* rootblock
    Null

ASSUME ChainAssumption ==
    /\ Main \in Threads
    /\ IsFiniteSet(Regions) /\ First \in Regions
    /\ Null \notin Regions \cup Threads

VARIABLES
    curblock,    \* curpstate->blockregion
    nxt, prv,    \* the links of every region in each chain
    public,      \* the regions that no thread owns
    curtblock,   \* the region of every thread
    mtx,         \* owner of MTX_BLKHEAP
    rp,          \* the region its owner links in
    link,        \* the chain its owner links rp into
    pc

vars == <<curblock, nxt, prv, public, curtblock, mtx, rp, link, pc>>

Chains == {"program", "global"}

\* The four assignments that link a region into a chain.
LinkLabels == {"prev", "next", "back", "fwd"}

Labels == LinkLabels \cup {"unborn", "run", "exited"}

Init ==
    /\ curblock = First
    /\ nxt = [c \in Chains |-> [r \in Regions |-> Null]]
    /\ prv = [c \in Chains |-> [r \in Regions |-> Null]]
    /\ public = {}
    /\ curtblock = [t \in Threads |-> IF t = Main THEN First ELSE Null]
    /\ mtx = Null
    /\ rp = Null
    /\ link = "program"
    /\ pc = [t \in Threads |-> IF t = Main THEN "run" ELSE "unborn"]

\* The regions that have been linked in: each is public or has an owner.
Known == public \cup ({curtblock[t] : t \in Threads} \ {Null})

Fresh == Regions \ (Known \cup {rp})

\* r and what is reached from it along f.
Along(f, r) ==
    LET w[i \in 0..Cardinality(Regions)] ==
            IF i = 0 THEN r ELSE IF w[i - 1] = Null THEN Null ELSE f[w[i - 1]]
    IN {w[i] : i \in DOMAIN w} \ {Null}

Goto(t, from, to) == pc[t] = from /\ pc' = [pc EXCEPT ![t] = to]

-----------------------------------------------------------------------------
(* init_threadheap() *)

\* reuse_region() finds a public region that is large enough: ts->Curblock =
\* curblock = rp.
Reuse(t, r) ==
    /\ Goto(t, "unborn", "run")
    /\ r \in public
    /\ public' = public \ {r}
    /\ curtblock' = [curtblock EXCEPT ![t] = r]
    /\ curblock' = r
    /\ UNCHANGED <<nxt, prv, mtx, rp, link>>

\* It finds none that is large enough: newregion(), and MTX_BLKHEAP is locked.
NewRegion(t, r) ==
    /\ Goto(t, "unborn", "prev")
    /\ mtx = Null
    /\ mtx' = t
    /\ r \in Fresh
    /\ rp' = r
    /\ link' = "program"
    /\ UNCHANGED <<curblock, nxt, prv, public, curtblock>>

\* rp->prev = curblock, or rp->Gprev = curblock.
LinkPrev(t) ==
    /\ Goto(t, "prev", "next")
    /\ prv' = [prv EXCEPT ![link][rp] = curblock]
    /\ UNCHANGED <<curblock, nxt, public, curtblock, mtx, rp, link>>

\* rp->next = curblock->next.
LinkNext(t) ==
    /\ Goto(t, "next", "back")
    /\ nxt' = [nxt EXCEPT ![link][rp] = nxt[link][curblock]]
    /\ UNCHANGED <<curblock, prv, public, curtblock, mtx, rp, link>>

\* Mutant: the region after curblock is not linked back to rp.
LinkBackMissing(t) ==
    /\ Goto(t, "back", "fwd")
    /\ UNCHANGED <<curblock, nxt, prv, public, curtblock, mtx, rp, link>>

\* if (curblock->next) curblock->next->prev = rp.
LinkBack(t) ==
    /\ Goto(t, "back", "fwd")
    /\ LET s == nxt[link][curblock]
       IN prv' = IF s = Null THEN prv ELSE [prv EXCEPT ![link][s] = rp]
    /\ UNCHANGED <<curblock, nxt, public, curtblock, mtx, rp, link>>

\* curblock->next = rp.  After the second chain MTX_BLKHEAP is unlocked and the
\* region is the thread's.
LinkFwd(t) ==
    /\ nxt' = [nxt EXCEPT ![link][curblock] = rp]
    /\ \/ /\ link = "program"
          /\ Goto(t, "fwd", "prev")
          /\ link' = "global"
          /\ UNCHANGED <<curtblock, mtx, rp>>
       \/ /\ link = "global"
          /\ Goto(t, "fwd", "run")
          /\ curtblock' = [curtblock EXCEPT ![t] = rp]
          /\ mtx' = Null
          /\ rp' = Null
          /\ UNCHANGED link
    /\ UNCHANGED <<curblock, prv, public>>

-----------------------------------------------------------------------------
(* Running threads *)

\* reserve(): findgap() changes the private region for a public one.
FindGap(t, r) ==
    /\ pc[t] = "run"
    /\ r \in public
    /\ public' = (public \ {r}) \cup {curtblock[t]}
    /\ curtblock' = [curtblock EXCEPT ![t] = r]
    /\ UNCHANGED <<curblock, nxt, prv, mtx, rp, link, pc>>

\* reserve(): the private region becomes public and a new one is linked in after
\* the last region of the program, and before that region in the global chain.
\* curblock is not read, so all this is one step.
Grow(t, r) ==
    /\ pc[t] = "run"
    /\ mtx = Null
    /\ r \in Fresh
    /\ \E last \in Along(nxt["program"], curtblock[t]) :
         LET before == prv["global"][last]
         IN  /\ nxt["program"][last] = Null
             /\ nxt' = [nxt EXCEPT !["program"] = [@ EXCEPT ![last] = r, ![r] = Null],
                                   !["global"] = [s \in Regions |->
                                        IF s = r THEN last
                                        ELSE IF s = before THEN r ELSE @[s]]]
             /\ prv' = [prv EXCEPT !["program"] = [@ EXCEPT ![r] = last],
                                   !["global"] = [@ EXCEPT ![r] = before, ![last] = r]]
    /\ public' = public \cup {curtblock[t]}
    /\ curtblock' = [curtblock EXCEPT ![t] = r]
    /\ UNCHANGED <<curblock, mtx, rp, link, pc>>

\* collect(), in control: a thread that links a region in is counted and has
\* been waited for.
Collect(t) ==
    /\ pc[t] = "run"
    /\ \A u \in Threads : pc[u] \notin LinkLabels
    /\ curblock' = curtblock[t]
    /\ UNCHANGED <<nxt, prv, public, curtblock, mtx, rp, link, pc>>

\* coclean(): a thread that ends gives its region up.
ThreadEnd(t) ==
    /\ t # Main
    /\ Goto(t, "run", "exited")
    /\ public' = public \cup {curtblock[t]}
    /\ curtblock' = [curtblock EXCEPT ![t] = Null]
    /\ UNCHANGED <<curblock, nxt, prv, mtx, rp, link>>

-----------------------------------------------------------------------------

Next == \E t \in Threads :
    \/ \E r \in Regions : Reuse(t, r) \/ NewRegion(t, r) \/ FindGap(t, r) \/ Grow(t, r)
    \/ LinkPrev(t) \/ LinkNext(t) \/ LinkBack(t) \/ LinkFwd(t)
    \/ Collect(t) \/ ThreadEnd(t)

Spec == Init /\ [][Next]_vars

\* Nobody moves curblock while MTX_BLKHEAP is held.  Of all steps only Reuse can
\* break this; RegionChainReused shows what follows when it does.
CurblockStill == curblock' # curblock => mtx = Null

\* The behaviours in which it never happens: threads start at any time, several
\* at once, and reuse regions, grow, collect and end between the links.
QuietSpec == Init /\ [][Next /\ CurblockStill]_vars

-----------------------------------------------------------------------------
(* Properties *)

\* Every variable has its type.
TypeOK ==
    /\ curblock \in Regions
    /\ nxt \in [Chains -> [Regions -> Regions \cup {Null}]]
    /\ prv \in [Chains -> [Regions -> Regions \cup {Null}]]
    /\ public \subseteq Regions
    /\ curtblock \in [Threads -> Regions \cup {Null}]
    /\ mtx \in Threads \cup {Null}
    /\ rp \in Regions \cup {Null}
    /\ link \in Chains
    /\ pc \in [Threads -> Labels]

\* "If this block is not in a block region, its something else like a procedure
\* block": with MTX_BLKHEAP free, all regions in use are reached from any one of
\* them in both chains, in whatever order threads link regions in, exchange
\* them, grow and move curblock by a collection.
ChainsComplete ==
    mtx = Null =>
        \A c \in Chains, r \in Known : Along(nxt[c], r) \cup Along(prv[c], r) = Known

ChainInv == TypeOK /\ ChainsComplete

=============================================================================
