------------------------------ MODULE HashTable ------------------------------
(***************************************************************************)
(* Sets and tables (runtime/rstruct.r): hash chains in segments of slots.  *)
(* Each growth adds a segment as large as all before it and splits every   *)
(* chain; a new structure made by copying or by a set operation may shrink.*)
(* A generation of the elements is suspended inside hgnext() and goes on   *)
(* in a structure whose chains were split, or whose current element was    *)
(* deleted, in between.                                                    *)
(*                                                                         *)
(* A slot is named by its number in the order of the segments, which is    *)
(* the masked hash number of its elements.  An element block is named by   *)
(* its key and a copy number: a key that is deleted and inserted again has *)
(* a new block, while a generation may still hold the old one and follow   *)
(* its link.  The end of a chain is Null, for tables too, where the code   *)
(* has the table itself there.  Values of tables are left out.             *)
(***************************************************************************)
EXTENDS Integers, SequencesExt

CONSTANTS
    Keys,
    HashFns,    \* the hash functions considered
    HSlots, HSegs, MaxHLoad, MinHLoad,
    Copies,     \* bound: blocks of one key in use at a time
    MaxUnion,   \* bound: the size of the right operand of a union
    Null

\* HSlots is a power of two, and no less than two: hgnext() takes a saved
\* mask of zero for none (rstruct.r:501).
ASSUME HashAssumption ==
    /\ IsFiniteSet(Keys) /\ HashFns \subseteq [Keys -> Nat]
    /\ HSlots \in Nat \ {0, 1} /\ \E n \in 1..20 : HSlots = 2^n
    /\ HSegs \in Nat \ {0, 1} /\ MaxHLoad \in Nat \ {0} /\ MinHLoad \in Nat
    /\ Copies \in Nat \ {0} /\ MaxUnion \in Nat
    /\ Null \notin Keys \cup (Keys \X (1..Copies))

VARIABLES
    hash,    \* the hash function
    ps,      \* size, mask, hdir and the links of the element blocks in use
    state,   \* struct hgstate of the generation
    ep,      \* the element it stands at, Null when there is no generation
    members, \* history: the elements that the operations should have left
    owed,    \* history: elements present since it started and not generated yet
    done     \* history: elements it has generated and that were not deleted since

vars == <<hash, ps, state, ep, members, owed, done>>

Segs == 0 .. HSegs - 1
segsize[i \in Segs] == IF i \in {0, 1} THEN HSlots ELSE 2 * segsize[i - 1]

\* The number of slots before each segment and with it, and the segment of
\* each slot.
Base == [i \in Segs |-> IF i = 0 THEN 0 ELSE segsize[i]]
Total == [i \in Segs |-> Base[i] + segsize[i]]
SegOf == [n \in 0 .. Total[HSegs - 1] - 1 |->
            CHOOSE i \in Segs : Base[i] <= n /\ n < Total[i]]

\* x & m for a mask m.
And(x, m) == x % (m + 1)

Key(b) == b[1]
HashNum(b) == hash[Key(b)]
-----------------------------------------------------------------------------
(* Chains.  h is a structure, b a block. *)

\* The blocks from b on along the links, after at most as many steps as there
\* are blocks.
From(h, b) ==
    LET n == Cardinality(DOMAIN h.clink)
        walk[i \in 0..n] ==
            IF i = 0 THEN <<>>
            ELSE LET w == walk[i - 1]
                     next == IF w = <<>> THEN b ELSE h.clink[w[Len(w)]]
                 IN  IF next = Null THEN w ELSE Append(w, next)
    IN  walk[n]

Slot(h, n) == h.hdir[SegOf[n]][n - Base[SegOf[n]]]
Chain(h, n) == From(h, Slot(h, n))
Blocks(h) == UNION {ToSet(Chain(h, n)) : n \in 0 .. h.mask}
Members(h) == {Key(b) : b \in Blocks(h)}

\* The first block of c that is in S.
FirstIn(c, S) ==
    LET hits == {i \in DOMAIN c : c[i] \in S}
    IN  IF hits = {} THEN Null ELSE c[CHOOSE i \in hits : \A j \in hits : i <= j]

\* The segments for mask m, slot n starting with first[n].
Directory(m, first) ==
    [i \in 0 .. SegOf[m] |-> [j \in 0 .. segsize[i] - 1 |-> first[Base[i] + j]]]

\* Blocks that neither the structure nor a generation at e reaches are gone.
Kept(h, e) ==
    LET kept == Blocks(h) \cup ToSet(From(h, e))
    IN  [h EXCEPT !.clink = [b \in DOMAIN h.clink \cap kept |-> h.clink[b]]]

TooCrowded(h) == h.size > MaxHLoad * (h.mask + 1) /\ HSegs - 1 \notin DOMAIN h.hdir
TooSparse(h) == 1 \in DOMAIN h.hdir /\ h.size < MinHLoad * (h.mask + 1)

hmake(nelem) ==
    LET nslots == (nelem + MaxHLoad - 1) \div MaxHLoad
        enough == {i \in Segs : i = HSegs - 1 \/ Total[i] >= nslots}
        seg == CHOOSE i \in enough : \A j \in enough : i <= j
        m == Total[seg] - 1
    IN  [size |-> 0, mask |-> m, hdir |-> Directory(m, [n \in 0..m |-> Null]),
         clink |-> [b \in {} |-> Null]]

\* Where x is, or would be, in its chain: memb() returns the address of the
\* link to it, here the chain and the position in it.
memb(h, x) ==
    LET n == And(hash[x], h.mask)
        c == Chain(h, n)
        stop == {i \in DOMAIN c : HashNum(c[i]) > hash[x] \/ Key(c[i]) = x}
        i == IF stop = {} THEN Len(c) + 1 ELSE CHOOSE i \in stop : \A j \in stop : i <= j
    IN  [slot |-> n, chain |-> c, pos |-> i, res |-> i <= Len(c) /\ Key(c[i]) = x]

At(w) == IF w.pos <= Len(w.chain) THEN w.chain[w.pos] ELSE Null

\* *pl = b, for the link pl that memb() found.
Store(h, w, b) ==
    LET i == SegOf[w.slot]
    IN  IF w.pos = 1 THEN [h EXCEPT !.hdir[i][w.slot - Base[i]] = b]
        ELSE [h EXCEPT !.clink[w.chain[w.pos - 1]] = b]

addmem(h, b, w) ==
    Store([h EXCEPT !.size = @ + 1,
                    !.clink = [x \in DOMAIN @ \cup {b} |-> IF x = b THEN At(w) ELSE @[x]]],
          w, b)

\* Every chain is split by the next bit of the hash numbers: the blocks of a
\* new slot are those that move there.
hgrow(h) ==
    LET newslots == h.mask + 1
        m == 2 * h.mask + 1
        moves == {x \in Blocks(h) : And(HashNum(x), m) >= newslots}
        stays == Blocks(h) \ moves
    IN  IF HSegs - 1 \in DOMAIN h.hdir THEN h
        ELSE [h EXCEPT
               !.mask = m,
               !.hdir = Directory(m, [n \in 0..m |->
                           IF n < newslots THEN FirstIn(Chain(h, n), stays)
                           ELSE FirstIn(Chain(h, n - newslots), moves)]),
               !.clink = [b \in DOMAIN h.clink |->
                            IF b \in moves THEN FirstIn(From(h, h.clink[b]), moves)
                            ELSE IF b \in stays THEN FirstIn(From(h, h.clink[b]), stays)
                            ELSE h.clink[b]]]

\* Mutant: the hash numbers are not compared.
LowerFirst(lo, up) == IF lo = Null THEN up ELSE lo

\* The next block when a lower and an upper chain, which have come to lo and
\* up, are merged.
Sooner(lo, up) ==
    IF lo # Null /\ (up = Null \/ HashNum(lo) < HashNum(up)) THEN lo ELSE up

\* The topmost segment is combined with those below it.  When the merge has
\* taken b from one chain, it has come in the other one to the first block
\* that does not go before b.
Combined(h) ==
    LET m == h.mask \div 2
        upper == {x \in Blocks(h) : And(HashNum(x), h.mask) > m}
        lower == Blocks(h) \ upper
    IN  [h EXCEPT
           !.mask = m,
           !.hdir = Directory(m, [n \in 0..m |-> Sooner(Slot(h, n), Slot(h, n + m + 1))]),
           !.clink = [b \in DOMAIN h.clink |->
               IF b \in lower
               THEN Sooner(h.clink[b], FirstIn(Chain(h, And(HashNum(b), m) + m + 1),
                                               {x \in upper : HashNum(x) > HashNum(b)}))
               ELSE IF b \in upper
               THEN Sooner(FirstIn(Chain(h, And(HashNum(b), m)),
                                   {x \in lower : HashNum(x) >= HashNum(b)}), h.clink[b])
               ELSE h.clink[b]]]

hshrink(h) ==
    LET shrunk[k \in 0..HSegs] ==
            IF k = 0 THEN h
            ELSE LET g == shrunk[k - 1] IN IF TooSparse(g) THEN Combined(g) ELSE g
    IN  shrunk[HSegs]

Enlarged(h) == IF TooCrowded(h) THEN hgrow(h) ELSE h
-----------------------------------------------------------------------------
(* Generation. *)

\* The first block of a chain from b on whose hash number is past all of S.
Past(h, b, S) ==
    LET c == From(h, b) IN FirstIn(c, {x \in ToSet(c) : \A n \in S : HashNum(x) > n})

\* The chains were split since the last call, and the next element has
\* another hash number than the current one.
Split(h, s, e) ==
    /\ h.mask # s.tmask
    /\ h.clink[e] = Null \/ HashNum(h.clink[e]) # HashNum(e)

\* What is remembered of a split: the mask and the hash number in process
\* when each segment was created.
Noted(h, s, e) ==
    LET new(i) == i >= 1 /\ segsize[i] > s.tmask
    IN  [s EXCEPT !.tmask = h.mask,
                  !.sgmask = [i \in Segs |-> IF new(i) THEN s.tmask ELSE @[i]],
                  !.sghash = [i \in Segs |-> IF new(i) THEN HashNum(e) ELSE @[i]]]

\* Mutant: a slot is compared with the split that made its segment only.
UnseenOnce(h, s, n) ==
    LET seg == SegOf[n]
        d == And(n - Base[seg], s.sgmask[seg]) - And(s.sghash[seg], s.sgmask[seg])
    IN  CASE s.sgmask[seg] = 0 \/ d > 0 -> Slot(h, n)
          [] d < 0 -> Null
          [] d = 0 -> Past(h, Slot(h, n), {s.sghash[seg]})

\* The element a new slot starts with: what was generated before the slot
\* was split off from another one is skipped.
Unseen(h, s, n) ==
    LET seg == SegOf[n]
        noted == {i \in 0..seg : \A j \in i..seg : s.sgmask[j] # 0}
        d(i) == And(n - Base[seg], s.sgmask[i]) - And(s.sghash[i], s.sgmask[i])
    IN  IF \E i \in noted : d(i) < 0 THEN Null
        ELSE Past(h, Slot(h, n), {s.sghash[i] : i \in {j \in noted : d(j) = 0}})

\* The next slot with an unseen element, the end when there is none.
Search(h, s, from) ==
    LET found == {n \in from .. h.mask : Unseen(h, s, n) # Null}
        n == CHOOSE n \in found : \A m \in found : n <= m
    IN  IF found = {} THEN [s |-> s, ep |-> Null]
        ELSE [s |-> [s EXCEPT !.segnum = SegOf[n], !.slotnum = n - Base[SegOf[n]]],
              ep |-> Unseen(h, s, n)]

hgnext(h, s, e) ==
    LET here == Base[s.segnum] + s.slotnum
        g == IF Split(h, s, e) THEN Noted(h, s, e) ELSE s
        next == IF Split(h, s, e) THEN Past(h, Slot(h, here), {HashNum(e)}) ELSE h.clink[e]
    IN  IF next # Null THEN [s |-> g, ep |-> next] ELSE Search(h, g, here + 1)

NoState == [segnum |-> 0, slotnum |-> 0, tmask |-> 0,
            sgmask |-> [i \in Segs |-> 0], sghash |-> [i \in Segs |-> 0]]

hgfirst(h) == Search(h, [NoState EXCEPT !.tmask = h.mask], 0)
-----------------------------------------------------------------------------
(* Operations. *)

Init ==
    /\ hash \in HashFns
    /\ ps = hmake(0)
    /\ state = NoState /\ ep = Null
    /\ members = {} /\ owed = {} /\ done = {}

\* A block for x that is not in use; there is none when the bound is reached.
Fresh(x) == {<<x, n>> : n \in 1..Copies} \ DOMAIN ps.clink

\* insert(), and the assignment to a table element.
Insert(x) ==
    LET w == memb(ps, x) IN
    /\ w.res \/ Fresh(x) # {}
    /\ ps' = IF w.res THEN ps
             ELSE LET b == CHOOSE b \in Fresh(x) : \A c \in Fresh(x) : b[2] <= c[2]
                  IN  Enlarged(addmem(ps, b, w))
    /\ members' = members \cup {x}
    /\ UNCHANGED <<hash, state, ep, owed, done>>

Delete(x) ==
    LET w == memb(ps, x)
        removed == [Store(ps, w, ps.clink[At(w)]) EXCEPT !.size = @ - 1]
    IN
    /\ ps' = IF w.res THEN Kept(removed, ep) ELSE ps
    /\ members' = members \ {x}
    /\ owed' = owed \ {x}
    /\ done' = done \ {x}
    /\ UNCHANGED <<hash, state, ep>>

\* The generation moves to what hgfirst() or hgnext() returned.
Move(r) ==
    /\ ep' = r.ep
    /\ state' = IF r.ep = Null THEN NoState ELSE r.s
    /\ ps' = Kept(ps, r.ep)
    /\ UNCHANGED <<hash, members>>

Start ==
    LET r == hgfirst(ps) IN
    /\ ep = Null
    /\ Move(r)
    /\ owed' = IF r.ep = Null THEN {} ELSE members \ {Key(r.ep)}
    /\ done' = IF r.ep = Null THEN {} ELSE {Key(r.ep)}

Resume ==
    LET r == hgnext(ps, state, ep) IN
    /\ ep # Null
    /\ Move(r)
    /\ owed' = IF r.ep = Null THEN {} ELSE owed \ {Key(r.ep)}
    /\ done' = IF r.ep = Null THEN {} ELSE done \cup ({Key(r.ep)} \cap owed)

\* The program goes on with a new structure; a copied block keeps the name of
\* the block it is copied from.  A generation of the old structure would go on
\* in it undisturbed, so none is looked at here.
Replace(h, S) ==
    /\ ep = Null
    /\ ps' = Kept(h, Null)
    /\ members' = S
    /\ UNCHANGED <<hash, state, ep, owed, done>>

cphash(h) == hshrink(Kept(h, Null))

Copy == Replace(cphash(ps), members)

\* The elements in the order in which the operators walk the structure: in
\* each segment from its last slot down.
Walk(h) ==
    LET slot(k) == 2 * Base[SegOf[k]] + segsize[SegOf[k]] - 1 - k
        walk[k \in 0 .. h.mask + 1] ==
            IF k = 0 THEN <<>> ELSE walk[k - 1] \o Chain(h, slot(k - 1))
    IN  walk[h.mask + 1]

AddNew(d, b) == LET w == memb(d, Key(b)) IN IF w.res THEN d ELSE addmem(d, b, w)

\* The blocks of c whose keys are in K go into d, one by one.
Collect(d, c, K) ==
    LET to[i \in 0 .. Len(c)] ==
            IF i = 0 THEN d
            ELSE IF Key(c[i]) \in K THEN AddNew(to[i - 1], c[i]) ELSE to[i - 1]
    IN  to[Len(c)]

\* ps -- Y; other elements of Y change nothing.
Difference(Y) == Replace(hshrink(Collect(hmake(ps.size), Walk(ps), Keys \ Y)), members \ Y)

\* ps ** Y for an operand Y, not smaller than ps if they are sets, that has the
\* elements I of ps; n is the size of the smaller one.
Intersection(I, n) == Replace(hshrink(Collect(hmake(n), Walk(ps), I)), I)

\* ps ++ Y for sets, with Y the smaller one, in the order y.
Union(y) ==
    LET new == [i \in DOMAIN y |-> <<y[i], 1>>]
    IN  /\ Len(y) <= ps.size
        /\ Replace(Enlarged(Collect(cphash(ps), new, Keys)), members \cup ToSet(y))

Orders == UNION {Injection(1..n, Keys) : n \in 0 .. MaxUnion}

Next ==
    \/ \E x \in Keys : Insert(x) \/ Delete(x)
    \/ Start \/ Resume
    \/ Copy
    \/ \E Y \in SUBSET members : Difference(Y)
    \/ \E I \in SUBSET members, n \in 0 .. ps.size : Cardinality(I) <= n /\ Intersection(I, n)
    \/ \E y \in Orders : Union(y)

Spec == Init /\ [][Next]_vars
-----------------------------------------------------------------------------
(* Properties. *)

Sorted(c) == \A i, j \in DOMAIN c : i < j => HashNum(c[i]) <= HashNum(c[j])

\* Whatever is inserted, deleted, copied or combined: every chain is sorted
\* and holds the elements of its slot, the directory fits the mask, no key
\* has two blocks, the size is exact and the elements are those that the
\* operations should leave; so memb() finds every element.
ChainsSound ==
    /\ DOMAIN ps.hdir = 0 .. SegOf[ps.mask]
    /\ \A i \in DOMAIN ps.hdir : DOMAIN ps.hdir[i] = 0 .. segsize[i] - 1
    /\ \A n \in 0 .. ps.mask :
          LET c == Chain(ps, n) IN
          /\ Sorted(c)
          /\ \A b \in ToSet(c) : And(HashNum(b), ps.mask) = n
    /\ Members(ps) = members
    /\ ps.size = Cardinality(Blocks(ps)) /\ ps.size = Cardinality(members)

\* The suspended generation keeps the promise of hgnext() (rstruct.r:417):
\* every element present throughout is generated exactly once, however often
\* the chains split and whichever elements come and go in between.
Iteration == INSTANCE SetIteration WITH
    at <- (IF ep = Null THEN Null ELSE Key(ep)), None <- Null

ImplementsIteration == Iteration!Spec
=============================================================================
