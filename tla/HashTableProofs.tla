--------------------------- MODULE HashTableProofs ---------------------------
(***************************************************************************)
(* Proofs about the hash chains of sets and tables (HashTable).  The       *)
(* argument is a ghost: the blocks of a structure have been inserted in    *)
(* some order, and chains are ordered by hash number, then by insertion.   *)
(* That order of all blocks does not depend on the mask, so a growth, a    *)
(* shrinking and a generation leave it alone, and every link of every      *)
(* chain is the first, in this order, of a set of blocks that can be       *)
(* named without the chain.  What a suspended generation has ahead of it   *)
(* is told from its state and this order, without the chains either.       *)
(***************************************************************************)
EXTENDS HashTable, FiniteSetTheorems, WellFoundedInduction, TLAPS

-----------------------------------------------------------------------------
(* Recursion on intervals *)

\* A set of natural numbers with an element has a least one: the form in which
\* the proofs use induction, as the least counterexample.
LEMMA LeastNat ==
    ASSUME NEW T \in SUBSET Nat, T # {}
    PROVE  \E x \in T : \A y \in T : x <= y
<1>1. \E x \in T : \A y \in T : ~ (<<y, x>> \in OpToRel(<, Nat))
  BY WFMin, NatLessThanWellFounded
<1>2. PICK x \in T : \A y \in T : ~ (<<y, x>> \in OpToRel(<, Nat))  BY <1>1
<1>3. \A y \in T : ~(y < x)  BY <1>2 DEF OpToRel
<1> QED  BY <1>3

\* f starts with a in A and goes on with the steps of G.
Iterates(f, n, A, a, G) ==
    f \in [0..n -> A] /\ f[0] = a /\ \A i \in 1..n : f[i] = G[i][f[i - 1]]

\* There is such a function.
LEMMA RecursionExists ==
    ASSUME NEW n \in Nat, NEW A, NEW a \in A, NEW G \in [1..n -> [A -> A]]
    PROVE  \E f : Iterates(f, n, A, a, G)
<1> DEFINE Runs(f, k) == f \in [0..k -> A] /\ f[0] = a /\ \A i \in 1..k : f[i] = G[i][f[i - 1]]
           T == {k \in 0..n : ~ \E f : Runs(f, k)}
<1>1. ASSUME T # {}  PROVE FALSE
  <2>1. T \in SUBSET Nat  OBVIOUS
  <2>2. PICK k \in T : \A j \in T : k <= j  BY <1>1, <2>1, LeastNat
  <2>3. k \in 0..n /\ (~ \E f : Runs(f, k)) /\ \A j \in 0..n : j < k => \E f : Runs(f, j)
    <3> HIDE DEF Runs
    <3> QED  BY <2>2
  <2>4. CASE k = 0
    <3>1. Runs([i \in 0..0 |-> a], 0)  OBVIOUS
    <3> QED  BY <2>3, <2>4, <3>1
  <2>5. CASE k > 0
    <3>1. k - 1 \in 0..n /\ k - 1 < k  BY <2>3, <2>5
    <3>2. PICK f : Runs(f, k - 1)
      <4> HIDE DEF Runs
      <4> QED  BY <2>3, <3>1
    <3> DEFINE g == [i \in 0..k |-> IF i < k THEN f[i] ELSE G[k][f[k - 1]]]
    <3>3. f[k - 1] \in A  BY <2>3, <2>5, <3>2
    <3>4. G[k][f[k - 1]] \in A
      <4>1. k \in 1..n  BY <2>3, <2>5
      <4>2. G[k] \in [A -> A]  BY <4>1
      <4> QED  BY <3>3, <4>2
    <3>5. g \in [0..k -> A] /\ g[0] = a
      <4>1. \A i \in 0..k : i < k => i \in 0..(k - 1) /\ f[i] \in A
        BY <2>3, <2>5, <3>2
      <4>2. f[0] = a /\ 0 < k /\ 0 \in 0..k  BY <2>3, <2>5, <3>2
      <4> QED  BY <3>4, <4>1, <4>2
    <3>6. ASSUME NEW i \in 1..k  PROVE g[i] = G[i][g[i - 1]]
      <4>1. g[i - 1] = f[i - 1]  BY <2>3, <3>6
      <4>2. CASE i < k
        <5>1. i \in 1..(k - 1)  BY <2>3, <4>2
        <5>2. f[i] = G[i][f[i - 1]]  BY <3>2, <5>1
        <5>3. g[i] = f[i]  BY <2>3, <4>2
        <5> QED  BY <4>1, <5>2, <5>3
      <4>3. CASE i = k
        <5>1. g[k] = G[k][f[k - 1]]  BY <2>3, <2>5
        <5> HIDE DEF g
        <5> QED  BY <4>1, <4>3, <5>1
      <4> QED  BY <2>3, <4>2, <4>3
    <3>7. Runs(g, k)  BY <3>5, <3>6
    <3> QED  BY <2>3, <3>7
  <2> QED  BY <2>3, <2>4, <2>5
<1>2. n \notin T  BY <1>1
<1>3. PICK f : Runs(f, n)
  <2> HIDE DEF Runs
  <2> QED  BY <1>2
<1> QED  BY <1>3 DEF Iterates

-----------------------------------------------------------------------------
(* Slots and masks. *)

\* The slot for twice as many slots is the slot or its new counterpart
\* (rstruct.r:563: the next bit of the hash number decides).
LEMMA NextBit ==
    ASSUME NEW x \in Nat, NEW m \in Nat \ {0}
    PROVE  x % (2 * m) = x % m \/ x % (2 * m) = (x % m) + m
<1> DEFINE a == x \div m
           r == x % m
           q == a \div 2
           c == a % 2
<1>1. a \in Nat /\ r \in 0 .. (m - 1) /\ x = m * a + r  OBVIOUS
<1>2. q \in Nat /\ c \in {0, 1} /\ a = 2 * q + c  BY <1>1
<1> HIDE DEF a, r, q, c
<1>3. ASSUME NEW s \in 0 .. (2 * m - 1), x = (2 * m) * q + s  PROVE x % (2 * m) = s
  BY <1>2, <1>3
<1>4. CASE c = 0
  <2>1. x = (2 * m) * q + r /\ r \in 0 .. (2 * m - 1)  BY <1>1, <1>2, <1>4
  <2> QED  BY <1>3, <2>1 DEF r
<1>5. CASE c = 1
  <2>1. x = (2 * m) * q + (r + m) /\ r + m \in 0 .. (2 * m - 1)  BY <1>1, <1>2, <1>5
  <2> QED  BY <1>3, <2>1 DEF r
<1> QED  BY <1>2, <1>4, <1>5

\* Each segment is as large as all before it together.
LEMMA Segments ==
    /\ segsize = [i \in Segs |-> IF i \in {0, 1} THEN HSlots ELSE 2 * segsize[i - 1]]
    /\ segsize \in [Segs -> Nat \ {0}]
<1> DEFINE N == HSegs - 1
           G == [i \in 1..N |-> [x \in Nat \ {0} |-> IF i = 1 THEN HSlots ELSE 2 * x]]
<1>1. HSegs \in Nat \ {0, 1} /\ HSlots \in Nat \ {0} /\ N \in Nat /\ Segs = 0..N
  BY HashAssumption DEF Segs
<1>2. G \in [1..N -> [Nat \ {0} -> Nat \ {0}]]  BY <1>1
<1>3. PICK f : Iterates(f, N, Nat \ {0}, HSlots, G)
  <2> HIDE DEF N, G
  <2> QED  BY <1>1, <1>2, RecursionExists
<1>4. /\ f \in [Segs -> Nat \ {0}] /\ f[0] = HSlots
      /\ \A i \in 1..N : f[i] = G[i][f[i - 1]]
  BY <1>1, <1>3 DEF Iterates
<1>5. ASSUME NEW i \in Segs  PROVE f[i] = IF i \in {0, 1} THEN HSlots ELSE 2 * f[i - 1]
  <2>1. CASE i = 0  BY <1>4, <2>1
  <2>2. CASE i # 0
    <3>1. i \in 1..N /\ i - 1 \in Segs  BY <1>1, <2>2
    <3>2. f[i - 1] \in Nat \ {0}  BY <1>4, <3>1
    <3> QED  BY <1>4, <2>2, <3>1, <3>2
  <2> QED  BY <2>1, <2>2
<1>6. f = [i \in Segs |-> IF i \in {0, 1} THEN HSlots ELSE 2 * f[i - 1]]
  <2> HIDE DEF N, G
  <2> QED  BY <1>4, <1>5
<1>7. segsize = [i \in Segs |-> IF i \in {0, 1} THEN HSlots ELSE 2 * segsize[i - 1]]
  <2> HIDE DEF N, G
  <2> QED  BY <1>6 DEF segsize
<1>8. ASSUME NEW i \in Segs, segsize[i] # f[i]  PROVE FALSE
  <2> DEFINE T == {j \in Segs : segsize[j] # f[j]}
  <2>1. T \in SUBSET Nat /\ T # {}  BY <1>1, <1>8
  <2>2. PICK j \in T : \A k \in T : j <= k
    <3> HIDE DEF T
    <3> QED  BY <2>1, LeastNat
  <2>3. j \in Segs /\ segsize[j] # f[j]  OBVIOUS
  <2>4. j \notin {0, 1}  BY <1>5, <1>7, <2>3
  <2>5. j - 1 \in Segs /\ ~(j <= j - 1)  BY <1>1, <2>3, <2>4
  <2>6. segsize[j - 1] = f[j - 1]  BY <2>2, <2>5
  <2> QED  BY <1>5, <1>7, <2>3, <2>4, <2>6
<1>9. DOMAIN segsize = Segs  BY <1>7
<1> QED
  <2> HIDE DEF N, G
  <2> QED  BY <1>4, <1>7, <1>8, <1>9

LEMMA Totals ==
    /\ Base \in [Segs -> Nat] /\ Total \in [Segs -> Nat \ {0, 1}]
    /\ Base[0] = 0
    /\ \A i \in Segs : Total[i] = Base[i] + segsize[i] /\ segsize[i] \in Nat \ {0}
    /\ \A i \in Segs : i + 1 \in Segs =>
          Base[i + 1] = Total[i] /\ Total[i + 1] = 2 * Total[i]
<1>1. HSegs \in Nat \ {0, 1} /\ HSlots \in Nat \ {0, 1}  BY HashAssumption
<1>2. /\ segsize \in [Segs -> Nat \ {0}]
      /\ \A i \in Segs : segsize[i] = IF i \in {0, 1} THEN HSlots ELSE 2 * segsize[i - 1]
  BY Segments
<1>3. \A i \in Segs : Base[i] = (IF i = 0 THEN 0 ELSE segsize[i]) /\ Total[i] = Base[i] + segsize[i]
  BY DEF Base, Total
<1>4. 0 \in Segs  BY <1>1 DEF Segs
<1>5. ASSUME NEW i \in Segs
      PROVE  /\ i + 1 \in Segs => Base[i + 1] = Total[i] /\ Total[i + 1] = 2 * Total[i]
             /\ segsize[i] \in Nat \ {0, 1}
  <2>1. i \in Nat  BY <1>1 DEF Segs
  <2>2. CASE i = 0  BY <1>1, <1>2, <1>3, <1>4, <2>1, <2>2
  <2>3. CASE i # 0
    <3>1. i - 1 \in Segs  BY <1>1, <2>1, <2>3 DEF Segs
    <3>2. segsize[i - 1] \in Nat \ {0} /\ segsize[i] \in Nat \ {0}  BY <1>2, <3>1
    <3>3. segsize[i] \in Nat \ {0, 1}  BY <1>1, <1>2, <2>1, <2>3, <3>2
    <3>4. ASSUME i + 1 \in Segs  PROVE segsize[i + 1] = 2 * segsize[i]
      <4>1. i + 1 \notin {0, 1} /\ (i + 1) - 1 = i  BY <2>1, <2>3
      <4> QED  BY <1>2, <3>4, <4>1
    <3>5. Base[i] = segsize[i] /\ Total[i] = segsize[i] + segsize[i]  BY <1>3, <2>3
    <3>6. ASSUME i + 1 \in Segs
          PROVE  Base[i + 1] = segsize[i + 1] /\ Total[i + 1] = segsize[i + 1] + segsize[i + 1]
      <4>1. i + 1 # 0  BY <2>1
      <4> QED  BY <1>3, <3>6, <4>1
    <3> QED  BY <3>2, <3>3, <3>4, <3>5, <3>6
  <2> QED  BY <2>2, <2>3
<1>6. \A i \in Segs : Base[i] \in Nat /\ Total[i] \in Nat \ {0, 1}  BY <1>3, <1>5
<1> QED  BY <1>2, <1>3, <1>4, <1>5, <1>6 DEF Base, Total

LEMMA SegmentsApart ==
    ASSUME NEW i \in Segs, NEW j \in Segs, i < j
    PROVE  Total[i] <= Base[j]
<1> DEFINE T == {k \in Segs : i < k /\ ~(Total[i] <= Base[k])}
<1>1. Segs = 0 .. (HSegs - 1) /\ HSegs \in Nat \ {0, 1}  BY HashAssumption DEF Segs
<1>2. ASSUME T # {}  PROVE FALSE
  <2>1. T \in SUBSET Nat  BY <1>1
  <2>2. PICK k \in T : \A l \in T : k <= l
    <3> HIDE DEF T
    <3> QED  BY <1>2, <2>1, LeastNat
  <2>3. k \in Segs /\ i < k /\ ~(Total[i] <= Base[k]) /\ k - 1 \in Segs
    BY <1>1
  <2>4. i < k - 1 => Total[i] <= Base[k - 1]  BY <1>1, <2>2, <2>3
  <2>5. Base[k] = Total[k - 1] /\ Total[k - 1] = Base[k - 1] + segsize[k - 1]
    <3>1. (k - 1) + 1 = k  BY <1>1, <2>3
    <3> QED  BY <2>3, <3>1, Totals
  <2>6. Total[i] \in Nat /\ Base[k - 1] \in Nat /\ segsize[k - 1] \in Nat
    BY <2>3, Totals
  <2> QED  BY <1>1, <2>3, <2>4, <2>5, <2>6
<1> QED  BY <1>2

\* Every slot is in one segment.
LEMMA SlotSegment ==
    ASSUME NEW top \in Segs, NEW n \in 0 .. (Total[top] - 1)
    PROVE  /\ n \in DOMAIN SegOf /\ SegOf[n] \in 0..top /\ SegOf[n] \in Segs
           /\ n - Base[SegOf[n]] \in 0 .. (segsize[SegOf[n]] - 1)
           /\ \A i \in Segs : Base[i] <= n /\ n < Total[i] => i = SegOf[n]
<1>1. Segs = 0 .. (HSegs - 1) /\ HSegs \in Nat \ {0, 1} /\ HSegs - 1 \in Segs
  BY HashAssumption DEF Segs
<1>2. \A i \in Segs : /\ Base[i] \in Nat /\ Total[i] \in Nat \ {0, 1}
                      /\ Total[i] = Base[i] + segsize[i] /\ segsize[i] \in Nat
  BY Totals
<1>3. Total[top] <= Total[HSegs - 1]
  <2>1. CASE top = HSegs - 1  BY <1>2, <2>1
  <2>2. CASE top < HSegs - 1
    <3> DEFINE last == HSegs - 1
    <3>1. last \in Segs /\ top < last  BY <1>1, <2>2
    <3> HIDE DEF last
    <3>2. Total[top] <= Base[last]  BY <3>1, SegmentsApart
    <3>3. /\ Base[last] \in Nat /\ segsize[last] \in Nat /\ Total[top] \in Nat
          /\ Total[last] = Base[last] + segsize[last]
      BY <1>2, <3>1
    <3>4. Total[top] <= Total[last]  BY <3>2, <3>3
    <3> QED  BY <3>4 DEF last
  <2> QED  BY <1>1, <2>1, <2>2
<1>4. n \in Nat /\ n \in 0 .. (Total[HSegs - 1] - 1)  BY <1>1, <1>2, <1>3
<1>5. \E i \in 0..top : Base[i] <= n /\ n < Total[i]
  <2> DEFINE T == {i \in 0..top : n < Total[i]}
  <2>1. T \in SUBSET Nat /\ top \in T  BY <1>1, <1>2
  <2>2. PICK i \in T : \A j \in T : i <= j
    <3> HIDE DEF T
    <3> QED  BY <2>1, LeastNat
  <2>3. CASE i = 0  BY <1>4, <2>3, Totals
  <2>4. CASE i # 0
    <3>1. i - 1 \in 0..top /\ i - 1 \in Segs /\ (i - 1) + 1 = i /\ i \in Segs
      BY <1>1, <2>4
    <3>2. ~(n < Total[i - 1])  BY <1>1, <2>2, <3>1
    <3>3. Base[i] = Total[i - 1]  BY <3>1, Totals
    <3> QED  BY <1>2, <1>4, <3>1, <3>2, <3>3
  <2> QED  BY <2>3, <2>4
<1>6. \A i, j \in Segs : (Base[i] <= n /\ n < Total[i] /\ Base[j] <= n /\ n < Total[j]) => i = j
  <2> SUFFICES ASSUME NEW i \in Segs, NEW j \in Segs, i < j,
                      Base[i] <= n, n < Total[i], Base[j] <= n, n < Total[j]
               PROVE  FALSE
    BY <1>1
  <2> QED  BY <1>2, <1>4, SegmentsApart
<1>7. SegOf[n] = CHOOSE i \in Segs : Base[i] <= n /\ n < Total[i]  BY <1>4 DEF SegOf
<1>8. \A i \in 0..top : i \in Segs  BY <1>1
<1>9. SegOf[n] \in Segs /\ Base[SegOf[n]] <= n /\ n < Total[SegOf[n]]
  BY <1>5, <1>7, <1>8
<1>10. SegOf[n] \in 0..top  BY <1>5, <1>6, <1>8, <1>9
<1>11. n \in DOMAIN SegOf  BY <1>4 DEF SegOf
<1> QED  BY <1>2, <1>4, <1>6, <1>9, <1>10, <1>11

\* A position in a segment is a slot of that segment.
LEMMA SegmentSlot ==
    ASSUME NEW top \in Segs, NEW i \in 0..top, NEW j \in 0 .. (segsize[i] - 1)
    PROVE  Base[i] + j \in 0 .. (Total[top] - 1) /\ SegOf[Base[i] + j] = i
<1>1. Segs = 0 .. (HSegs - 1) /\ HSegs \in Nat \ {0, 1} /\ i \in Segs
  BY HashAssumption DEF Segs
<1>2. \A k \in Segs : /\ Base[k] \in Nat /\ Total[k] \in Nat \ {0, 1}
                      /\ Total[k] = Base[k] + segsize[k] /\ segsize[k] \in Nat
  BY Totals
<1>3. Base[i] <= Base[i] + j /\ Base[i] + j < Total[i] /\ Base[i] + j \in Nat  BY <1>1, <1>2
<1>4. Total[i] <= Total[top]
  <2>1. CASE i = top  BY <1>1, <1>2, <2>1
  <2>2. CASE i < top
    <3>1. Total[i] <= Base[top]  BY <1>1, <2>2, SegmentsApart
    <3>2. /\ Base[top] \in Nat /\ segsize[top] \in Nat /\ Total[i] \in Nat
          /\ Total[top] = Base[top] + segsize[top]
      BY <1>1, <1>2
    <3> QED  BY <3>1, <3>2
  <2> QED  BY <1>1, <2>1, <2>2
<1>5. Base[i] + j \in 0 .. (Total[top] - 1)  BY <1>1, <1>2, <1>3, <1>4
<1> QED  BY <1>1, <1>3, <1>5, SlotSegment

\* The mask of a structure whose topmost segment is top.
LEMMA MaskOf ==
    ASSUME NEW top \in Segs
    PROVE  /\ Total[top] - 1 \in Nat \ {0}
           /\ SegOf[Total[top] - 1] = top
           /\ \A x \in Nat : And(x, Total[top] - 1) \in 0 .. (Total[top] - 1)
<1>1. /\ Total[top] \in Nat \ {0, 1} /\ Base[top] \in Nat
      /\ Total[top] = Base[top] + segsize[top] /\ segsize[top] \in Nat \ {0}
  BY Totals
<1>2. Total[top] - 1 \in 0 .. (Total[top] - 1)  BY <1>1
<1>3. top = SegOf[Total[top] - 1]
  <2>1. Base[top] <= Total[top] - 1 /\ Total[top] - 1 < Total[top]  BY <1>1
  <2> QED  BY <1>2, <2>1, SlotSegment
<1>4. \A x \in Nat : x % Total[top] \in 0 .. (Total[top] - 1)  BY <1>1
<1>5. (Total[top] - 1) + 1 = Total[top]  BY <1>1
<1> QED  BY <1>1, <1>3, <1>4, <1>5 DEF And

-----------------------------------------------------------------------------
(* The order of the blocks: by hash number f, then by the time of their     *)
(* insertion t.                                                              *)

AllBlocks == Keys \X (1..Copies)

Before(f, t, x, y) == f[Key(x)] < f[Key(y)] \/ (f[Key(x)] = f[Key(y)] /\ t[x] < t[y])

Ordered(f, t, B) ==
    /\ f \in [Keys -> Nat] /\ B \subseteq AllBlocks /\ \A x \in B : t[x] \in Nat
    /\ \A x, y \in B : t[x] = t[y] => x = y
    /\ \E k \in Nat : \A x \in B : t[x] < k

\* e is the first of S.
IsFirst(f, t, S, e) ==
    \/ S = {} /\ e = Null
    \/ e \in S /\ \A x \in S \ {e} : Before(f, t, e, x)

\* What comes after b.
Later(f, t, S, b) == {x \in S : Before(f, t, b, x)}

\* c lists S in order.
Enumerates(f, t, S, c) ==
    /\ c \in Seq(S)
    /\ \A x \in S : \E i \in 1..Len(c) : c[i] = x
    /\ \A i, j \in 1..Len(c) : i < j => Before(f, t, c[i], c[j])

LEMMA BlockFacts ==
    ASSUME NEW f, NEW t, NEW B, Ordered(f, t, B), NEW x \in B
    PROVE  x \in AllBlocks /\ Key(x) \in Keys /\ f[Key(x)] \in Nat /\ t[x] \in Nat /\ x # Null
<1>1. x \in AllBlocks /\ x # Null  BY HashAssumption DEF Ordered, AllBlocks
<1>2. Key(x) \in Keys  BY <1>1 DEF AllBlocks, Key
<1> QED  BY <1>1, <1>2 DEF Ordered

LEMMA TotalOrder ==
    ASSUME NEW f, NEW t, NEW B, Ordered(f, t, B), NEW x \in B, NEW y \in B
    PROVE  /\ ~ Before(f, t, x, x)
           /\ x # y => Before(f, t, x, y) \/ Before(f, t, y, x)
           /\ ~(Before(f, t, x, y) /\ Before(f, t, y, x))
           /\ \A z \in B : Before(f, t, x, y) /\ Before(f, t, y, z) => Before(f, t, x, z)
<1>1. \A z \in B : f[Key(z)] \in Nat /\ t[z] \in Nat  BY BlockFacts
<1>2. t[x] = t[y] => x = y  BY DEF Ordered
<1>3. /\ f[Key(x)] \in Nat /\ t[x] \in Nat /\ f[Key(y)] \in Nat /\ t[y] \in Nat  BY <1>1
<1>4. ASSUME NEW z \in B, Before(f, t, x, y), Before(f, t, y, z)  PROVE Before(f, t, x, z)
  <2>1. f[Key(z)] \in Nat /\ t[z] \in Nat  BY <1>1
  <2> QED  BY <1>3, <1>4, <2>1 DEF Before
<1> QED  BY <1>2, <1>3, <1>4 DEF Before

LEMMA FirstExists ==
    ASSUME NEW f, NEW t, NEW B, Ordered(f, t, B), NEW S \in SUBSET B
    PROVE  \E e : IsFirst(f, t, S, e)
<1>1. CASE S = {}  BY <1>1 DEF IsFirst
<1>2. CASE S # {}
  <2> DEFINE N == {f[Key(x)] : x \in S}
  <2>0. \A x \in S : f[Key(x)] \in Nat /\ t[x] \in Nat  BY BlockFacts
  <2>1. N \in SUBSET Nat /\ N # {}  BY <1>2, <2>0
  <2>2. PICK n \in N : \A k \in N : n <= k
    <3> HIDE DEF N
    <3> QED  BY <2>1, LeastNat
  <2> DEFINE T == {t[x] : x \in {y \in S : f[Key(y)] = n}}
  <2>3. T \in SUBSET Nat /\ T # {}  BY <2>0, <2>2
  <2>4. PICK m \in T : \A k \in T : m <= k
    <3> HIDE DEF T
    <3> QED  BY <2>3, LeastNat
  <2>5. PICK e \in S : f[Key(e)] = n /\ t[e] = m  BY <2>4
  <2>6. ASSUME NEW x \in S \ {e}  PROVE Before(f, t, e, x)
    <3>1. n <= f[Key(x)]  BY <2>2
    <3>2. f[Key(x)] = n => m <= t[x]  BY <2>4
    <3>3. t[x] # t[e]  BY <2>5, <2>6 DEF Ordered
    <3>4. f[Key(x)] \in Nat /\ t[x] \in Nat /\ n \in Nat /\ m \in Nat
      BY <2>0, <2>5
    <3> HIDE DEF N, T
    <3> QED  BY <2>5, <3>1, <3>2, <3>3, <3>4 DEF Before
  <2> HIDE DEF N, T
  <2> QED  BY <2>5, <2>6 DEF IsFirst
<1> QED  BY <1>1, <1>2

LEMMA FirstUnique ==
    ASSUME NEW f, NEW t, NEW B, Ordered(f, t, B), NEW S \in SUBSET B,
           NEW d, NEW e, IsFirst(f, t, S, d), IsFirst(f, t, S, e)
    PROVE  d = e
<1>1. CASE S = {}  BY <1>1 DEF IsFirst
<1>2. CASE S # {}
  <2>1. d \in S /\ e \in S /\ d \in B /\ e \in B  BY <1>2 DEF IsFirst
  <2>2. d # e => Before(f, t, d, e) /\ Before(f, t, e, d)  BY <1>2, <2>1 DEF IsFirst
  <2> QED  BY <2>1, <2>2, TotalOrder
<1> QED  BY <1>1, <1>2

\* No block is taken for the end of a chain.
LEMMA FirstNull ==
    ASSUME NEW f, NEW t, NEW B, Ordered(f, t, B), NEW S \in SUBSET B,
           NEW e, IsFirst(f, t, S, e)
    PROVE  /\ e = Null <=> S = {}
           /\ e # Null => e \in S
           /\ e \in AllBlocks \cup {Null}
<1>1. \A x \in S : x # Null /\ x \in AllBlocks  BY BlockFacts
<1> QED  BY <1>1 DEF IsFirst
-----------------------------------------------------------------------------
(* Walks along the links. *)

\* w lists the first elements of S in order.
Starts(f, t, S, w) ==
    /\ w \in Seq(S)
    /\ \A i, j \in 1..Len(w) : i < j => Before(f, t, w[i], w[j])
    /\ \A x \in S : (\E i \in 1..Len(w) : w[i] = x) \/ \A i \in 1..Len(w) : Before(f, t, w[i], x)

\* The block that a walk goes on with after w.
Following(b, clink, w) == IF w = <<>> THEN b ELSE clink[w[Len(w)]]

LEMMA FollowingType ==
    ASSUME NEW f, NEW t, NEW B, Ordered(f, t, B), NEW S \in SUBSET B, NEW b, IsFirst(f, t, S, b),
           NEW clink, \A x \in S : IsFirst(f, t, Later(f, t, S, x), clink[x]),
           NEW w \in Seq(S)
    PROVE  Following(b, clink, w) # Null => Following(b, clink, w) \in S
<1>1. CASE w = <<>>  BY <1>1, FirstNull DEF Following
<1>2. CASE w # <<>>
  <2> DEFINE x == w[Len(w)]
  <2>1. Len(w) \in 1..Len(w)  BY <1>2
  <2>2. x \in S  BY <2>1
  <2>3. Following(b, clink, w) = clink[x]  BY <1>2 DEF Following
  <2>4. IsFirst(f, t, Later(f, t, S, x), clink[x])  BY <2>2
  <2>5. Later(f, t, S, x) \subseteq S  BY DEF Later
  <2> HIDE DEF x
  <2>6. Later(f, t, S, x) \in SUBSET B  BY <2>5
  <2>7. clink[x] # Null => clink[x] \in Later(f, t, S, x)  BY <2>4, <2>6, FirstNull
  <2> QED  BY <2>3, <2>5, <2>7
<1> QED  BY <1>1, <1>2

LEMMA WalkStep ==
    ASSUME NEW f, NEW t, NEW B, Ordered(f, t, B), NEW S \in SUBSET B, NEW b, IsFirst(f, t, S, b),
           NEW clink, \A x \in S : IsFirst(f, t, Later(f, t, S, x), clink[x]),
           NEW w, Starts(f, t, S, w), NEW next, next = Following(b, clink, w)
    PROVE  IF next = Null THEN Enumerates(f, t, S, w)
           ELSE Append(w, next) \in Seq(S) /\ Starts(f, t, S, Append(w, next))
<1> DEFINE R == {x \in S : \A i \in 1..Len(w) : w[i] # x}
<1>0. w \in Seq(S) /\ Len(w) \in Nat /\ \A i \in 1..Len(w) : w[i] \in S /\ w[i] \in B
  BY DEF Starts
<1>1. IsFirst(f, t, R, next)
  <2>1. CASE w = <<>>
    <3>1. R = S /\ next = b  BY <2>1 DEF Following
    <3> QED  BY <3>1
  <2>2. CASE w # <<>>
    <3> DEFINE x == w[Len(w)]
    <3>1. Len(w) \in 1..Len(w)  BY <1>0, <2>2
    <3>2. x \in S /\ x \in B /\ next = clink[x]  BY <1>0, <2>2, <3>1 DEF Following
    <3>3. R = Later(f, t, S, x)
      <4>1. ASSUME NEW y \in R  PROVE Before(f, t, x, y)
        BY <3>1, <4>1 DEF Starts
      <4>2. ASSUME NEW y \in S, Before(f, t, x, y), NEW i \in 1..Len(w), w[i] = y  PROVE FALSE
        <5>1. CASE i = Len(w)  BY <3>2, <4>2, <5>1, TotalOrder
        <5>2. CASE i < Len(w)
          <6>1. Before(f, t, y, x)  BY <3>1, <4>2, <5>2 DEF Starts
          <6>2. y \in B  OBVIOUS
          <6> HIDE DEF x
          <6> QED  BY <3>2, <4>2, <6>1, <6>2, TotalOrder
        <5> QED  BY <1>0, <5>1, <5>2
      <4> QED  BY <4>1, <4>2 DEF Later
    <3> QED  BY <3>2, <3>3
  <2> QED  BY <2>1, <2>2
<1>2. CASE next = Null
  <2>1. R \in SUBSET B  OBVIOUS
  <2>2. R = {}
    <3> HIDE DEF R
    <3> QED  BY <1>1, <1>2, <2>1, FirstNull
  <2> QED  BY <1>2, <2>2 DEF Starts, Enumerates
<1>3. CASE next # Null
  <2> DEFINE v == Append(w, next)
  <2>1. R \in SUBSET B  OBVIOUS
  <2>2. next \in R /\ \A x \in R \ {next} : Before(f, t, next, x)
    <3> HIDE DEF R
    <3> QED  BY <1>1, <1>3, <2>1, FirstNull DEF IsFirst
  <2>3. /\ v \in Seq(S) /\ Len(v) = Len(w) + 1 /\ v[Len(w) + 1] = next
        /\ \A i \in 1..Len(w) : v[i] = w[i]
    BY <1>0, <2>2
  <2>4. \A i \in 1..Len(w) : Before(f, t, w[i], next)  BY <2>2 DEF Starts
  <2> HIDE DEF v
  <2>5. ASSUME NEW i \in 1..Len(v), NEW j \in 1..Len(v), i < j  PROVE Before(f, t, v[i], v[j])
    <3>1. i \in 1..Len(w)  BY <1>0, <2>3, <2>5
    <3>2. CASE j = Len(w) + 1  BY <2>3, <2>4, <3>1, <3>2
    <3>3. CASE j \in 1..Len(w)
      <4>1. Before(f, t, w[i], w[j])  BY <2>5, <3>1, <3>3 DEF Starts
      <4> QED  BY <2>3, <3>1, <3>3, <4>1
    <3> QED  BY <1>0, <2>3, <3>2, <3>3
  <2>6. ASSUME NEW x \in S
        PROVE  (\E i \in 1..Len(v) : v[i] = x) \/ \A i \in 1..Len(v) : Before(f, t, v[i], x)
    <3>1. CASE x \notin R
      <4>1. PICK i \in 1..Len(w) : w[i] = x  BY <3>1
      <4>2. i \in 1..Len(v)  BY <1>0, <2>3
      <4> QED  BY <2>3, <4>1, <4>2
    <3>2. CASE x = next
      <4>1. Len(w) + 1 \in 1..Len(v)  BY <1>0, <2>3
      <4> QED  BY <2>3, <3>2, <4>1
    <3>3. CASE x \in R \ {next}
      <4>1. Before(f, t, next, x)  BY <2>2, <3>3
      <4>2. \A i \in 1..Len(w) : Before(f, t, w[i], x)  BY <3>3 DEF Starts
      <4>3. ASSUME NEW i \in 1..Len(v)  PROVE Before(f, t, v[i], x)
        <5>1. CASE i \in 1..Len(w)  BY <2>3, <4>2, <5>1
        <5>2. CASE i = Len(w) + 1  BY <2>3, <4>1, <5>2
        <5> QED  BY <1>0, <2>3, <5>1, <5>2
      <4> QED  BY <4>3
    <3> QED  BY <3>1, <3>2, <3>3
  <2>7. Starts(f, t, S, v)  BY <2>3, <2>5, <2>6 DEF Starts
  <2> QED  BY <1>3, <2>3, <2>7 DEF v
<1> QED  BY <1>2, <1>3

\* A list as long as there are blocks lists them all.
LEMMA LongList ==
    ASSUME NEW f, NEW t, NEW B, Ordered(f, t, B), IsFiniteSet(B), NEW S \in SUBSET B,
           NEW w, Starts(f, t, S, w), Len(w) >= Cardinality(B)
    PROVE  Enumerates(f, t, S, w)
<1>1. w \in Seq(S) /\ Len(w) \in Nat /\ w \in [1..Len(w) -> S]  BY DEF Starts
<1>2. IsFiniteSet(S) /\ Cardinality(S) <= Cardinality(B) /\ Cardinality(S) \in Nat /\ Cardinality(B) \in Nat
  BY FS_Subset, FS_CardinalityType
<1>3. \A i, j \in 1..Len(w) : w[i] = w[j] => i = j
  <2> SUFFICES ASSUME NEW i \in 1..Len(w), NEW j \in 1..Len(w), i < j, w[i] = w[j]
               PROVE  FALSE
    BY <1>1
  <2>1. Before(f, t, w[i], w[j])  BY DEF Starts
  <2>2. w[i] \in B  BY <1>1
  <2> QED  BY <2>1, <2>2, TotalOrder
<1>4. w \in Injection(1..Len(w), S)  BY <1>1, <1>3 DEF Injection, IsInjective
<1>5. Cardinality(1..Len(w)) = Len(w)
  <2> DEFINE k == Len(w)
  <2>1. 1 \in Int /\ k \in Int /\ k \in Nat  BY <1>1
  <2> HIDE DEF k
  <2>2. Cardinality(1..k) = IF 1 > k THEN 0 ELSE k - 1 + 1  BY <2>1, FS_Interval
  <2>3. Cardinality(1..k) = k  BY <2>1, <2>2
  <2> QED  BY <2>3 DEF k
<1>6. w \in Surjection(1..Len(w), S)
  <2>1. /\ Cardinality(1..Len(w)) <= Cardinality(S)
        /\ Cardinality(1..Len(w)) = Cardinality(S) <=> w \in Surjection(1..Len(w), S)
    BY <1>2, <1>4, FS_Injection
  <2> QED  BY <1>1, <1>2, <1>5, <2>1
<1>7. \A x \in S : \E i \in 1..Len(w) : w[i] = x  BY <1>6 DEF Surjection
<1> QED  BY <1>1, <1>7 DEF Starts, Enumerates

\* Where every link is the first of what comes later, a walk lists a chain.
LEMMA FromEnumerates ==
    ASSUME NEW f, NEW t, NEW B, Ordered(f, t, B), NEW S \in SUBSET B, NEW b, IsFirst(f, t, S, b),
           NEW h, IsFiniteSet(DOMAIN h.clink), B \subseteq DOMAIN h.clink,
           \A x \in S : IsFirst(f, t, Later(f, t, S, x), h.clink[x])
    PROVE  Enumerates(f, t, S, From(h, b))
<1> DEFINE n == Cardinality(DOMAIN h.clink)
           Step(w) == IF Following(b, h.clink, w) = Null THEN w
                      ELSE Append(w, Following(b, h.clink, w))
           G == [i \in 1..n |-> [w \in Seq(S) |-> Step(w)]]
           W == CHOOSE walk : walk = [i \in 0..n |->
                   IF i = 0 THEN <<>> ELSE Step(walk[i - 1])]
<1>1. n \in Nat /\ IsFiniteSet(B) /\ Cardinality(B) \in Nat /\ Cardinality(B) <= n
  BY FS_CardinalityType, FS_Subset
<1>2. From(h, b) = W[n]
  BY DEF From, Following
<1>3. ASSUME NEW w \in Seq(S)  PROVE Step(w) \in Seq(S)
  <2>1. Following(b, h.clink, w) # Null => Following(b, h.clink, w) \in S  BY FollowingType
  <2> QED  BY <2>1
<1>4. G \in [1..n -> [Seq(S) -> Seq(S)]]
  <2> HIDE DEF n, Step
  <2> QED  BY <1>3
<1>5. <<>> \in Seq(S)  OBVIOUS
<1>6. PICK g : Iterates(g, n, Seq(S), <<>>, G)
  <2> HIDE DEF n, G
  <2> QED  BY <1>1, <1>4, <1>5, RecursionExists
<1>7. /\ g \in [0..n -> Seq(S)] /\ g[0] = <<>>
      /\ \A i \in 1..n : g[i] = Step(g[i - 1])
  <2>1. g \in [0..n -> Seq(S)] /\ g[0] = <<>> /\ \A i \in 1..n : g[i] = G[i][g[i - 1]]
    <3> HIDE DEF n, G
    <3> QED  BY <1>6 DEF Iterates
  <2>2. \A i \in 1..n : g[i - 1] \in Seq(S)
    <3> HIDE DEF n, G
    <3> QED  BY <1>1, <2>1
  <2> HIDE DEF n, Step
  <2> QED  BY <2>1, <2>2
<1>8. g = [i \in 0..n |-> IF i = 0 THEN <<>> ELSE Step(g[i - 1])]
  <2> HIDE DEF n, Step, G
  <2>1. \A i \in 0..n : g[i] = IF i = 0 THEN <<>> ELSE Step(g[i - 1])  BY <1>1, <1>7
  <2> QED  BY <1>7, <2>1
<1>9. W = [i \in 0..n |-> IF i = 0 THEN <<>> ELSE Step(W[i - 1])]
  <2> HIDE DEF n, Step, G
  <2> QED  BY <1>8 DEF W
<1> HIDE DEF n, Step, G, W
<1> DEFINE Fine(k) == Starts(f, t, S, W[k]) /\ (Len(W[k]) = k \/ Enumerates(f, t, S, W[k]))
           T == {k \in 0..n : ~ Fine(k)}
<1>10. ASSUME T # {}  PROVE FALSE
  <2>1. T \in SUBSET Nat  BY <1>1
  <2>2. PICK k \in T : \A j \in T : k <= j
    <3> HIDE DEF T
    <3> QED  BY <1>10, <2>1, LeastNat
  <2>3. k \in 0..n /\ ~ Fine(k)  OBVIOUS
  <2>4. CASE k = 0
    <3>1. W[0] = <<>>  BY <1>1, <1>9
    <3>2. Starts(f, t, S, <<>>) /\ Len(<<>>) = 0  BY DEF Starts
    <3> QED  BY <2>3, <2>4, <3>1, <3>2
  <2>5. CASE k # 0
    <3> DEFINE w == W[k - 1]
               next == Following(b, h.clink, w)
    <3>1. k - 1 \in 0..n /\ ~(k <= k - 1)  BY <1>1, <2>3, <2>5
    <3>2. Fine(k - 1)
      <4> HIDE DEF Fine
      <4> QED  BY <2>2, <3>1
    <3>3. Starts(f, t, S, w) /\ (Len(w) = k - 1 \/ Enumerates(f, t, S, w))  BY <3>2
    <3>4. W[k] = IF next = Null THEN w ELSE Append(w, next)
      BY <1>9, <2>3, <2>5 DEF Step
    <3>5. w \in Seq(S) /\ Len(w) \in Nat  BY <3>3 DEF Starts
    <3> HIDE DEF w
    <3>6. IF next = Null THEN Enumerates(f, t, S, w)
          ELSE Append(w, next) \in Seq(S) /\ Starts(f, t, S, Append(w, next))
      <4>1. next = Following(b, h.clink, w)  OBVIOUS
      <4> HIDE DEF next
      <4> QED  BY <3>3, <4>1, WalkStep
    <3>7. next # Null => next \in S  BY <3>5, FollowingType
    <3> HIDE DEF next
    <3>8. CASE next = Null  BY <2>3, <3>3, <3>4, <3>6, <3>8
    <3>9. CASE next # Null
      <4>1. Starts(f, t, S, Append(w, next)) /\ Len(Append(w, next)) = Len(w) + 1
        BY <3>5, <3>6, <3>7, <3>9
      <4>2. CASE Len(w) = k - 1
        <5>1. Len(Append(w, next)) = k  BY <2>3, <4>1, <4>2
        <5> QED  BY <2>3, <3>4, <3>9, <4>1, <5>1
      <4>3. CASE Enumerates(f, t, S, w)
        <5> DEFINE v == Append(w, next)
        <5>1. PICK i \in 1..Len(w) : w[i] = next  BY <3>7, <3>9, <4>3 DEF Enumerates
        <5>2. Len(v) = Len(w) + 1 /\ v[i] = next /\ v[Len(w) + 1] = next /\ i < Len(w) + 1
              /\ i \in 1..Len(v) /\ Len(w) + 1 \in 1..Len(v)
          BY <3>5, <3>7, <3>9, <5>1
        <5> HIDE DEF v
        <5>3. Starts(f, t, S, v)  BY <4>1 DEF v
        <5>4. Before(f, t, next, next)  BY <5>2, <5>3 DEF Starts
        <5>5. next \in B  BY <3>7, <3>9
        <5> QED  BY <5>4, <5>5, TotalOrder
      <4> QED  BY <3>3, <4>2, <4>3
    <3> QED  BY <3>8, <3>9
  <2> QED  BY <2>4, <2>5
<1>11. Fine(n)
  <2>1. n \in 0..n /\ T = {}  BY <1>1, <1>10
  <2> HIDE DEF Fine
  <2> QED  BY <2>1
<1>12. Starts(f, t, S, W[n]) /\ (Len(W[n]) = n \/ Enumerates(f, t, S, W[n]))  BY <1>11
<1>13. CASE Len(W[n]) = n
  <2>1. Len(W[n]) >= Cardinality(B)  BY <1>1, <1>13
  <2> QED  BY <1>1, <1>2, <1>12, <2>1, LongList
<1> QED  BY <1>2, <1>12, <1>13

LEMMA FirstInList ==
    ASSUME NEW f, NEW t, NEW B, Ordered(f, t, B), NEW S \in SUBSET B,
           NEW c, Enumerates(f, t, S, c), NEW Q
    PROVE  IsFirst(f, t, S \cap Q, FirstIn(c, Q))
<1> DEFINE hits == {i \in DOMAIN c : c[i] \in Q}
<1>1. /\ c \in Seq(S) /\ Len(c) \in Nat /\ DOMAIN c = 1..Len(c)
      /\ \A i \in 1..Len(c) : c[i] \in S
  BY DEF Enumerates
<1>2. FirstIn(c, Q) = IF hits = {} THEN Null ELSE c[CHOOSE i \in hits : \A j \in hits : i <= j]
  BY DEF FirstIn
<1>3. CASE hits = {}
  <2>1. S \cap Q = {}
    <3> SUFFICES ASSUME NEW x \in S \cap Q  PROVE FALSE
      OBVIOUS
    <3>1. PICK i \in 1..Len(c) : c[i] = x  BY DEF Enumerates
    <3> QED  BY <1>1, <1>3, <3>1
  <2> QED  BY <1>2, <1>3, <2>1 DEF IsFirst
<1>4. CASE hits # {}
  <2>1. hits \in SUBSET Nat  BY <1>1
  <2>2. \E i \in hits : \A j \in hits : i <= j
    <3> HIDE DEF hits
    <3> QED  BY <1>4, <2>1, LeastNat
  <2>3. PICK i \in hits : FirstIn(c, Q) = c[i] /\ \A j \in hits : i <= j
    <3> HIDE DEF hits
    <3> QED  BY <1>2, <1>4, <2>2
  <2>4. i \in 1..Len(c) /\ c[i] \in S \cap Q  BY <1>1
  <2>5. ASSUME NEW x \in (S \cap Q) \ {c[i]}  PROVE Before(f, t, c[i], x)
    <3>1. PICK j \in 1..Len(c) : c[j] = x  BY DEF Enumerates
    <3>2. j \in hits /\ j # i  BY <1>1, <2>5, <3>1
    <3>3. i < j  BY <1>1, <2>3, <2>4, <3>2
    <3> QED  BY <2>4, <3>1, <3>3 DEF Enumerates
  <2> QED  BY <2>3, <2>4, <2>5 DEF IsFirst
<1> QED  BY <1>3, <1>4
-----------------------------------------------------------------------------
(* Structures whose chains are in order. *)

Links == AllBlocks \cup {Null}
Segment(i) == [0 .. (segsize[i] - 1) -> Links]

Structures ==
    [size : Nat, mask : Nat,
     hdir : UNION {[0..top -> UNION {Segment(i) : i \in Segs}] : top \in Segs},
     clink : UNION {[D -> Links] : D \in SUBSET AllBlocks}]

\* The mask and the directory are those of the segments up to top.
Shaped(h, top) ==
    /\ h \in Structures
    /\ h.mask = Total[top] - 1
    /\ DOMAIN h.hdir = 0..top
    /\ \A i \in 0..top : h.hdir[i] \in Segment(i)

\* The blocks of a slot, and those that come after b in its slot.
InSlot(f, B, m, n) == {b \in B : And(f[Key(b)], m) = n}
Rest(f, t, B, m, b) == Later(f, t, InSlot(f, B, m, And(f[Key(b)], m)), b)

\* Every slot and every link is the first block of what it leads to.
Linked(f, h, t, B) ==
    /\ \A n \in 0..h.mask : IsFirst(f, t, InSlot(f, B, h.mask, n), Slot(h, n))
    /\ \A b \in B : IsFirst(f, t, Rest(f, t, B, h.mask, b), h.clink[b])

\* h holds the blocks B, inserted at the times t, one for each key.
Good(f, h, t, B) ==
    /\ Ordered(f, t, B)
    /\ \E top \in Segs : Shaped(h, top)
    /\ B \subseteq DOMAIN h.clink
    /\ h.size = Cardinality(B)
    /\ \A x, y \in B : Key(x) = Key(y) => x = y
    /\ Linked(f, h, t, B)

LEMMA StructureParts ==
    ASSUME NEW h \in Structures
    PROVE  /\ h.size \in Nat /\ h.mask \in Nat
           /\ DOMAIN h.clink \subseteq AllBlocks /\ h.clink \in [DOMAIN h.clink -> Links]
           /\ IsFiniteSet(DOMAIN h.clink) /\ IsFiniteSet(AllBlocks)
<1>1. h.size \in Nat /\ h.mask \in Nat  BY DEF Structures
<1>2. PICK D \in SUBSET AllBlocks : h.clink \in [D -> Links]  BY DEF Structures
<1>3. IsFiniteSet(AllBlocks)
  <2>1. IsFiniteSet(Keys) /\ 1 \in Int /\ Copies \in Int  BY HashAssumption
  <2>2. IsFiniteSet(1..Copies)  BY <2>1, FS_Interval
  <2> QED  BY <2>1, <2>2, FS_Product DEF AllBlocks
<1>4. D = DOMAIN h.clink  BY <1>2
<1>5. IsFiniteSet(D)  BY <1>3, FS_Subset
<1> QED  BY <1>1, <1>2, <1>3, <1>4, <1>5

LEMMA GoodFacts ==
    ASSUME NEW f, NEW h, NEW t, NEW B, Good(f, h, t, B)
    PROVE  /\ Ordered(f, t, B) /\ h \in Structures
           /\ IsFiniteSet(DOMAIN h.clink) /\ B \subseteq DOMAIN h.clink
           /\ IsFiniteSet(B) /\ Cardinality(B) \in Nat
           /\ \E top \in Segs : Shaped(h, top)
           /\ \A b \in B : And(f[Key(b)], h.mask) \in 0..h.mask
<1>1. /\ Ordered(f, t, B) /\ B \subseteq DOMAIN h.clink  BY DEF Good
<1>2. PICK top \in Segs : Shaped(h, top)  BY DEF Good
<1>3. h \in Structures /\ h.mask = Total[top] - 1  BY <1>2 DEF Shaped
<1>4. IsFiniteSet(DOMAIN h.clink)  BY <1>3, StructureParts
<1>5. IsFiniteSet(B) /\ Cardinality(B) \in Nat  BY <1>1, <1>4, FS_Subset, FS_CardinalityType
<1>6. ASSUME NEW b \in B  PROVE And(f[Key(b)], h.mask) \in 0..h.mask
  <2>1. f[Key(b)] \in Nat  BY <1>1, BlockFacts
  <2> QED  BY <1>3, <2>1, MaskOf
<1> QED  BY <1>1, <1>2, <1>3, <1>4, <1>5, <1>6

\* What a walk along a chain, and from a block on, lists.
LEMMA GoodChain ==
    ASSUME NEW f, NEW h, NEW t, NEW B, Good(f, h, t, B), NEW n \in 0..h.mask
    PROVE  Enumerates(f, t, InSlot(f, B, h.mask, n), Chain(h, n))
<1> DEFINE S == InSlot(f, B, h.mask, n)
           e == Slot(h, n)
<1>1. /\ Ordered(f, t, B) /\ S \in SUBSET B
      /\ IsFiniteSet(DOMAIN h.clink) /\ B \subseteq DOMAIN h.clink
  BY GoodFacts DEF InSlot
<1>2. IsFirst(f, t, S, e)  BY DEF Good, Linked
<1>3. ASSUME NEW x \in S  PROVE IsFirst(f, t, Later(f, t, S, x), h.clink[x])
  <2>1. x \in B /\ And(f[Key(x)], h.mask) = n  BY DEF InSlot
  <2> QED  BY <2>1 DEF Good, Linked, Rest
<1> HIDE DEF S, e
<1>4. Enumerates(f, t, S, From(h, e))  BY <1>1, <1>2, <1>3, FromEnumerates
<1> QED  BY <1>4 DEF S, e, Chain

LEMMA GoodRest ==
    ASSUME NEW f, NEW h, NEW t, NEW B, Good(f, h, t, B), NEW b \in B
    PROVE  Enumerates(f, t, Rest(f, t, B, h.mask, b), From(h, h.clink[b]))
<1> DEFINE S == Rest(f, t, B, h.mask, b)
           e == h.clink[b]
<1>1. /\ Ordered(f, t, B) /\ S \in SUBSET B
      /\ IsFiniteSet(DOMAIN h.clink) /\ B \subseteq DOMAIN h.clink
  BY GoodFacts DEF Rest, Later, InSlot
<1>2. IsFirst(f, t, S, e)  BY DEF Good, Linked
<1>3. ASSUME NEW x \in S  PROVE IsFirst(f, t, Later(f, t, S, x), h.clink[x])
  <2>1. x \in B /\ And(f[Key(x)], h.mask) = And(f[Key(b)], h.mask) /\ Before(f, t, b, x)
    BY DEF Rest, Later, InSlot
  <2>2. \A y \in B : Before(f, t, x, y) => Before(f, t, b, y)  BY <1>1, <2>1, TotalOrder
  <2>3. Later(f, t, S, x) = Rest(f, t, B, h.mask, x)
    BY <2>1, <2>2 DEF Rest, Later, InSlot
  <2> QED  BY <2>1, <2>3 DEF Good, Linked
<1> HIDE DEF S, e
<1>4. Enumerates(f, t, S, From(h, e))  BY <1>1, <1>2, <1>3, FromEnumerates
<1> QED  BY <1>4 DEF S, e

LEMMA GoodBlocks ==
    ASSUME NEW f, NEW h, NEW t, NEW B, Good(f, h, t, B)
    PROVE  Blocks(h) = B /\ Members(h) = {Key(b) : b \in B}
<1>1. \A n \in 0..h.mask : ToSet(Chain(h, n)) = InSlot(f, B, h.mask, n)
  <2> TAKE n \in 0..h.mask
  <2> DEFINE c == Chain(h, n)
             S == InSlot(f, B, h.mask, n)
  <2>1. Enumerates(f, t, S, c)  BY GoodChain
  <2> HIDE DEF c, S
  <2>2. c \in Seq(S) /\ DOMAIN c = 1..Len(c) /\ \A i \in 1..Len(c) : c[i] \in S
    BY <2>1 DEF Enumerates
  <2>3. ToSet(c) = S  BY <2>1, <2>2 DEF Enumerates, ToSet
  <2> QED  BY <2>3 DEF c, S
<1>2. Blocks(h) = UNION {InSlot(f, B, h.mask, n) : n \in 0..h.mask}  BY <1>1 DEF Blocks
<1>3. Blocks(h) = B  BY <1>2, GoodFacts DEF InSlot
<1> QED  BY <1>3 DEF Members

\* A structure with the same directory and the same links of its blocks.
LEMMA GoodSame ==
    ASSUME NEW f, NEW h, NEW t, NEW B, Good(f, h, t, B),
           NEW D \in SUBSET AllBlocks, NEW clink \in [D -> Links],
           B \subseteq D, \A b \in B : clink[b] = h.clink[b]
    PROVE  Good(f, [h EXCEPT !.clink = clink], t, B)
<1> DEFINE g == [h EXCEPT !.clink = clink]
<1>1. PICK top \in Segs : Shaped(h, top)  BY DEF Good
<1>2. /\ g \in Structures /\ g.mask = h.mask /\ g.hdir = h.hdir /\ g.size = h.size
      /\ g.clink = clink
  BY <1>1 DEF Shaped, Structures
<1> HIDE DEF g
<1>3. Shaped(g, top)  BY <1>1, <1>2 DEF Shaped
<1>4. DOMAIN g.clink = D  BY <1>2
<1>5. Linked(f, g, t, B)  BY <1>2 DEF Good, Linked, Slot
<1>6. Good(f, g, t, B)  BY <1>2, <1>3, <1>4, <1>5 DEF Good
<1> QED  BY <1>6 DEF g

LEMMA GoodKept ==
    ASSUME NEW f, NEW h, NEW t, NEW B, Good(f, h, t, B), NEW e
    PROVE  Good(f, Kept(h, e), t, B)
<1> DEFINE D == DOMAIN h.clink \cap (Blocks(h) \cup ToSet(From(h, e)))
           clink == [b \in D |-> h.clink[b]]
<1>1. h \in Structures /\ B \subseteq DOMAIN h.clink /\ Blocks(h) = B
  BY GoodFacts, GoodBlocks
<1>2. h.clink \in [DOMAIN h.clink -> Links] /\ DOMAIN h.clink \subseteq AllBlocks
  BY <1>1, StructureParts
<1>3. D \in SUBSET AllBlocks /\ clink \in [D -> Links] /\ B \subseteq D
      /\ \A b \in B : clink[b] = h.clink[b]
  BY <1>1, <1>2
<1>4. Kept(h, e) = [h EXCEPT !.clink = clink]  BY DEF Kept
<1> HIDE DEF D, clink
<1> QED  BY <1>3, <1>4, GoodSame

-----------------------------------------------------------------------------
(* memb(), and the store through the link it returns. *)

LEMMA MembFinds ==
    ASSUME NEW h, NEW t, NEW B, Good(hash, h, t, B), NEW x \in Keys,
           NEW w, w = memb(h, x), NEW n, n = And(hash[x], h.mask), NEW c, c = Chain(h, n)
    PROVE  /\ w.slot = n /\ n \in 0..h.mask /\ w.chain = c
           /\ Enumerates(hash, t, InSlot(hash, B, h.mask, n), c)
           /\ w.pos \in 1 .. (Len(c) + 1)
           /\ \A i \in 1..Len(c) : i < w.pos => HashNum(c[i]) <= hash[x] /\ Key(c[i]) # x
           /\ w.pos <= Len(c) => HashNum(c[w.pos]) > hash[x] \/ Key(c[w.pos]) = x
           /\ w.res \in BOOLEAN
           /\ w.res <=> w.pos <= Len(c) /\ Key(c[w.pos]) = x
           /\ w.res <=> \E b \in B : Key(b) = x
<1> DEFINE S == InSlot(hash, B, h.mask, n)
           stop == {i \in DOMAIN c : HashNum(c[i]) > hash[x] \/ Key(c[i]) = x}
           p == IF stop = {} THEN Len(c) + 1 ELSE CHOOSE i \in stop : \A j \in stop : i <= j
<1>1. Ordered(hash, t, B) /\ hash[x] \in Nat /\ n \in 0..h.mask
  <2>1. PICK top \in Segs : h.mask = Total[top] - 1  BY GoodFacts DEF Shaped
  <2>2. Ordered(hash, t, B) /\ hash[x] \in Nat  BY GoodFacts DEF Ordered
  <2> QED  BY <2>1, <2>2, MaskOf
<1>2. Enumerates(hash, t, S, c)  BY <1>1, GoodChain
<1>3. /\ c \in Seq(S) /\ Len(c) \in Nat /\ DOMAIN c = 1..Len(c) /\ S \subseteq B
      /\ \A i \in 1..Len(c) : c[i] \in S /\ c[i] \in B
  BY <1>2 DEF Enumerates, InSlot
<1>4. w = [slot |-> n, chain |-> c, pos |-> p, res |-> p <= Len(c) /\ Key(c[p]) = x]
  BY DEF memb
<1>5. /\ p \in 1 .. (Len(c) + 1)
      /\ \A i \in stop : p <= i
      /\ p <= Len(c) => p \in stop
  <2>1. stop \subseteq 1..Len(c) /\ stop \in SUBSET Nat  BY <1>3
  <2>2. CASE stop = {}  BY <1>3, <2>1, <2>2
  <2>3. CASE stop # {}
    <3>1. \E i \in stop : \A j \in stop : i <= j
      <4> HIDE DEF stop
      <4> QED  BY <2>1, <2>3, LeastNat
    <3>2. p \in stop /\ \A j \in stop : p <= j
      <4> HIDE DEF stop
      <4> QED  BY <2>3, <3>1
    <3>3. p \in 1 .. (Len(c) + 1)
      <4> HIDE DEF stop, p
      <4> QED  BY <1>3, <2>1, <3>2
    <3> HIDE DEF stop, p
    <3> QED  BY <3>2, <3>3
  <2> QED  BY <2>2, <2>3
<1>6. w.slot = n /\ w.chain = c /\ w.pos = p /\ w.res = (p <= Len(c) /\ Key(c[p]) = x)
  <2> HIDE DEF p
  <2> QED  BY <1>4
<1>7. ASSUME NEW i \in 1..Len(c), i < p  PROVE HashNum(c[i]) <= hash[x] /\ Key(c[i]) # x
  <2>1. i \notin stop  
    <3> HIDE DEF stop, p
    <3> QED  BY <1>3, <1>5, <1>7
  <2>2. HashNum(c[i]) \in Nat  BY <1>1, <1>3, BlockFacts DEF HashNum
  <2> HIDE DEF p
  <2> QED  BY <1>1, <1>3, <2>1, <2>2
<1>8. p <= Len(c) => HashNum(c[p]) > hash[x] \/ Key(c[p]) = x
  <2>1. p <= Len(c) => p \in stop  BY <1>5
  <2> HIDE DEF p
  <2> QED  BY <2>1
<1> HIDE DEF stop, p
<1>9. ASSUME p <= Len(c), Key(c[p]) = x  PROVE \E b \in B : Key(b) = x
  BY <1>3, <1>5, <1>9
<1>10. ASSUME NEW b \in B, Key(b) = x  PROVE p <= Len(c) /\ Key(c[p]) = x
  <2>1. b \in S  BY <1>10 DEF InSlot
  <2>2. PICK j \in 1..Len(c) : c[j] = b  BY <1>2, <2>1 DEF Enumerates
  <2>3. p <= j /\ p \in 1..Len(c)
    <3>1. j \in stop  BY <1>3, <1>10, <2>2 DEF stop
    <3> QED  BY <1>3, <1>5, <3>1
  <2>4. ASSUME Key(c[p]) # x  PROVE FALSE
    <3>1. HashNum(c[p]) > hash[x] /\ p < j  BY <1>3, <1>8, <1>10, <2>2, <2>3, <2>4
    <3>2. Before(hash, t, c[p], b)  BY <1>2, <2>2, <2>3, <3>1 DEF Enumerates
    <3>3. HashNum(c[p]) \in Nat  BY <1>1, <1>3, <2>3, BlockFacts DEF HashNum
    <3> QED  BY <1>1, <1>10, <3>1, <3>2, <3>3 DEF Before, HashNum
  <2> QED  BY <1>3, <2>3, <2>4
<1> QED  BY <1>1, <1>2, <1>5, <1>6, <1>7, <1>8, <1>9, <1>10

\* The blocks before the position that memb() finds.
Passed(f, h, t, B, x) ==
    {y \in InSlot(f, B, h.mask, And(f[x], h.mask)) :
       IF \E b \in B : Key(b) = x THEN \E b \in B : Key(b) = x /\ Before(f, t, y, b)
       ELSE f[Key(y)] <= f[x]}

\* The link that memb() returns lies between what x comes after and the rest.
LEMMA MembSplits ==
    ASSUME NEW h, NEW t, NEW B, Good(hash, h, t, B), NEW x \in Keys, NEW w, w = memb(h, x)
    PROVE  LET S == InSlot(hash, B, h.mask, And(hash[x], h.mask))
               P == Passed(hash, h, t, B, x)
               p == w.chain[w.pos - 1]
           IN  /\ w.slot = And(hash[x], h.mask) /\ w.slot \in 0..h.mask
               /\ w.res \in BOOLEAN
               /\ w.res <=> \E b \in B : Key(b) = x
               /\ w.pos = 1 <=> P = {}
               /\ w.pos # 1 => p \in P /\ \A y \in P \ {p} : Before(hash, t, y, p)
               /\ IsFirst(hash, t, S \ P, At(w))
               /\ w.res => Key(At(w)) = x /\ At(w) \in B
<1> DEFINE n == And(hash[x], h.mask)
           c == Chain(h, n)
           S == InSlot(hash, B, h.mask, n)
           P == Passed(hash, h, t, B, x)
           k == w.pos
<1>1. /\ w.slot = n /\ n \in 0..h.mask /\ w.chain = c
      /\ Enumerates(hash, t, S, c)
      /\ k \in 1 .. (Len(c) + 1)
      /\ \A i \in 1..Len(c) : i < k => HashNum(c[i]) <= hash[x] /\ Key(c[i]) # x
      /\ k <= Len(c) => HashNum(c[k]) > hash[x] \/ Key(c[k]) = x
      /\ w.res \in BOOLEAN
      /\ w.res <=> k <= Len(c) /\ Key(c[k]) = x
      /\ w.res <=> \E b \in B : Key(b) = x
  BY MembFinds
<1>2. Ordered(hash, t, B) /\ hash[x] \in Nat
  <2>1. Ordered(hash, t, B)  BY GoodFacts
  <2> QED  BY <2>1 DEF Ordered
<1>3. /\ c \in Seq(S) /\ Len(c) \in Nat /\ DOMAIN c = 1..Len(c) /\ S \subseteq B
      /\ \A i \in 1..Len(c) : c[i] \in S /\ c[i] \in B
      /\ \A i, j \in 1..Len(c) : i < j => Before(hash, t, c[i], c[j])
      /\ \A y \in S : \E i \in 1..Len(c) : c[i] = y
  <2>1. \A y \in S : y \in B  BY DEF InSlot
  <2> HIDE DEF c, S, P, k, n
  <2>2. /\ c \in Seq(S) /\ \A y \in S : \E i \in 1..Len(c) : c[i] = y
        /\ \A i, j \in 1..Len(c) : i < j => Before(hash, t, c[i], c[j])
    BY <1>1 DEF Enumerates
  <2>3. Len(c) \in Nat /\ DOMAIN c = 1..Len(c) /\ \A i \in 1..Len(c) : c[i] \in S  BY <2>2
  <2> QED  BY <2>1, <2>2, <2>3
<1>4. P = {y \in S : IF w.res THEN \E b \in B : Key(b) = x /\ Before(hash, t, y, b)
                     ELSE HashNum(y) <= hash[x]}
  BY <1>1 DEF Passed, HashNum
<1>5. \A y \in B : HashNum(y) = hash[Key(y)] /\ HashNum(y) \in Nat  BY <1>2, BlockFacts DEF HashNum
<1> HIDE DEF c, S, P, k, n
<1>6. ASSUME NEW i \in 1..Len(c)  PROVE c[i] \in P <=> i < k
  <2>1. c[i] \in S /\ c[i] \in B  BY <1>3
  <2>2. CASE w.res
    <3> DEFINE d == c[k]
    <3>1. k \in 1..Len(c) /\ d \in B /\ Key(d) = x  BY <1>1, <1>3, <2>2
    <3>2. \A b \in B : Key(b) = x => b = d  BY <3>1 DEF Good
    <3>3. c[i] \in P <=> Before(hash, t, c[i], d)  BY <1>4, <2>1, <2>2, <3>1, <3>2
    <3>4. i < k => Before(hash, t, c[i], d)  BY <1>3, <3>1
    <3>5. i = k => ~ Before(hash, t, c[i], d)  BY <1>2, <3>1, TotalOrder
    <3>6. i > k => ~ Before(hash, t, c[i], d)
      <4>1. i > k => Before(hash, t, d, c[i])  BY <1>3, <3>1
      <4> HIDE DEF d
      <4> QED  BY <1>2, <2>1, <3>1, <4>1, TotalOrder
    <3> QED  BY <1>3, <3>1, <3>3, <3>4, <3>5, <3>6
  <2>3. CASE ~ w.res
    <3>1. c[i] \in P <=> HashNum(c[i]) <= hash[x]  BY <1>4, <2>1, <2>3
    <3>2. i < k => HashNum(c[i]) <= hash[x]  BY <1>1
    <3>3. ASSUME i >= k  PROVE HashNum(c[i]) > hash[x]
      <4>1. k \in 1..Len(c) /\ c[k] \in B /\ HashNum(c[k]) > hash[x]  BY <1>1, <1>3, <2>3, <3>3
      <4>2. i # k => Before(hash, t, c[k], c[i])  BY <1>3, <3>3, <4>1
      <4> QED  BY <1>2, <1>3, <1>5, <2>1, <3>3, <4>1, <4>2 DEF Before
    <3>4. k \in Nat /\ HashNum(c[i]) \in Nat  BY <1>1, <1>3, <1>5, <2>1
    <3> QED  BY <1>2, <3>1, <3>2, <3>3, <3>4
  <2> QED  BY <1>1, <2>2, <2>3
<1>7. k = 1 <=> P = {}
  <2>1. \A y \in P : \E i \in 1..Len(c) : c[i] = y  BY <1>3, <1>4
  <2>2. k # 1 => 1 \in 1..Len(c) /\ 1 < k  BY <1>1, <1>3
  <2> QED  BY <1>1, <1>3, <1>6, <2>1, <2>2
<1>8. ASSUME k # 1  PROVE c[k - 1] \in P /\ \A y \in P \ {c[k - 1]} : Before(hash, t, y, c[k - 1])
  <2>1. k - 1 \in 1..Len(c) /\ k - 1 < k  BY <1>1, <1>3, <1>8
  <2>2. ASSUME NEW y \in P \ {c[k - 1]}  PROVE Before(hash, t, y, c[k - 1])
    <3>1. PICK i \in 1..Len(c) : c[i] = y  BY <1>3, <1>4
    <3>2. i < k /\ i # k - 1  BY <1>6, <2>2, <3>1
    <3>3. i < k - 1  BY <1>1, <1>3, <3>2
    <3> QED  BY <1>3, <2>1, <3>1, <3>3
  <2> QED  BY <1>6, <2>1, <2>2
<1>9. IsFirst(hash, t, S \ P, At(w)) /\ (w.res => At(w) = c[k])
  <2>1. At(w) = IF k <= Len(c) THEN c[k] ELSE Null  BY <1>1 DEF At, k
  <2>2. CASE k <= Len(c)
    <3>1. k \in 1..Len(c)  BY <1>1, <1>3, <2>2
    <3>2. c[k] \in S \ P  BY <1>3, <1>6, <3>1
    <3>3. ASSUME NEW y \in (S \ P) \ {c[k]}  PROVE Before(hash, t, c[k], y)
      <4>1. PICK i \in 1..Len(c) : c[i] = y  BY <1>3
      <4>2. ~(i < k) /\ i # k  BY <1>6, <3>3, <4>1
      <4>3. k < i  BY <3>1, <4>2
      <4> QED  BY <1>3, <3>1, <4>1, <4>3
    <3> QED  BY <2>1, <2>2, <3>2, <3>3 DEF IsFirst
  <2>3. CASE ~(k <= Len(c))
    <3>1. \A i \in 1..Len(c) : i < k  BY <1>1, <1>3, <2>3
    <3>2. S \ P = {}
      <4> SUFFICES ASSUME NEW y \in S  PROVE y \in P
        OBVIOUS
      <4>1. PICK i \in 1..Len(c) : c[i] = y  BY <1>3
      <4> QED  BY <1>6, <3>1, <4>1
    <3> QED  BY <1>1, <2>1, <2>3, <3>2 DEF IsFirst
  <2> QED  BY <2>2, <2>3
<1>10. w.res => Key(At(w)) = x /\ At(w) \in B
  <2>1. w.res => k \in 1..Len(c)  BY <1>1, <1>3
  <2> QED  BY <1>1, <1>3, <1>9, <2>1
<1> QED  BY <1>1, <1>7, <1>8, <1>9, <1>10 DEF S, P, k, n

LEMMA StoreParts ==
    ASSUME NEW h, NEW top \in Segs, Shaped(h, top), NEW w, NEW b \in Links,
           w.slot \in 0..h.mask, w.pos # 1 => w.chain[w.pos - 1] \in DOMAIN h.clink
    PROVE  LET s == Store(h, w, b)
           IN  /\ Shaped(s, top) /\ s.size = h.size /\ s.mask = h.mask
               /\ DOMAIN s.clink = DOMAIN h.clink
               /\ \A n \in 0..h.mask :
                     Slot(s, n) = IF w.pos = 1 /\ n = w.slot THEN b ELSE Slot(h, n)
               /\ \A y \in DOMAIN h.clink :
                     s.clink[y] = IF w.pos # 1 /\ y = w.chain[w.pos - 1] THEN b ELSE h.clink[y]
<1> DEFINE s == Store(h, w, b)
           i == SegOf[w.slot]
           j == w.slot - Base[i]
           p == w.chain[w.pos - 1]
<1>1. /\ h \in Structures /\ h.mask = Total[top] - 1 /\ DOMAIN h.hdir = 0..top
      /\ \A k \in 0..top : h.hdir[k] \in Segment(k)
  BY DEF Shaped
<1>2. i \in 0..top /\ i \in Segs /\ j \in 0 .. (segsize[i] - 1)  BY <1>1, SlotSegment
<1>3. /\ h.size \in Nat /\ h.mask \in Nat /\ h.clink \in [DOMAIN h.clink -> Links]
      /\ DOMAIN h.clink \in SUBSET AllBlocks
  BY <1>1, StructureParts
<1>4. \A k \in 0..top : k \in Segs  BY HashAssumption DEF Segs
<1>5. CASE w.pos = 1
  <2> DEFINE dir == [h.hdir EXCEPT ![i] = [h.hdir[i] EXCEPT ![j] = b]]
  <2>1. s = [h EXCEPT !.hdir[i][j] = b]  BY <1>5 DEF Store
  <2>2. /\ s.hdir = dir /\ s.size = h.size /\ s.mask = h.mask /\ s.clink = h.clink
        /\ s = [h EXCEPT !.hdir = dir]
    <3> HIDE DEF i, j
    <3> QED  BY <1>1, <2>1 DEF Structures
  <2>3. DOMAIN dir = 0..top /\ dir = [k \in 0..top |-> dir[k]]
    <3> HIDE DEF i, j
    <3> QED  BY <1>1
  <2>4. \A k \in 0..top : dir[k] = IF k = i THEN [h.hdir[i] EXCEPT ![j] = b] ELSE h.hdir[k]
    <3> HIDE DEF i, j
    <3> QED  BY <1>1
  <2>5. [h.hdir[i] EXCEPT ![j] = b] \in Segment(i)
    <3>1. h.hdir[i] \in Segment(i)  BY <1>1, <1>2
    <3> HIDE DEF i, j
    <3> QED  BY <3>1 DEF Segment
  <2> HIDE DEF dir, s
  <2>6. \A k \in 0..top : dir[k] \in Segment(k)
    <3> HIDE DEF i, j
    <3> QED  BY <1>1, <2>4, <2>5
  <2>7. dir \in [0..top -> UNION {Segment(k) : k \in Segs}]
    <3>1. \A k \in 0..top : dir[k] \in UNION {Segment(l) : l \in Segs}  BY <1>4, <2>6
    <3> QED  BY <2>3, <3>1
  <2>8. s \in Structures
    <3> HIDE DEF i, j
    <3> QED  BY <1>1, <2>2, <2>7 DEF Structures
  <2>9. Shaped(s, top)
    <3> HIDE DEF i, j
    <3> QED  BY <1>1, <2>2, <2>3, <2>6, <2>8 DEF Shaped
  <2>10. ASSUME NEW n \in 0..h.mask
         PROVE  Slot(s, n) = IF n = w.slot THEN b ELSE Slot(h, n)
    <3> DEFINE k == SegOf[n]
               l == n - Base[k]
    <3>1. k \in 0..top /\ k \in Segs /\ l \in 0 .. (segsize[k] - 1)  BY <1>1, SlotSegment
    <3>2. Slot(s, n) = dir[k][l] /\ Slot(h, n) = h.hdir[k][l]
      <4> HIDE DEF i, j
      <4> QED  BY <2>2 DEF Slot
    <3>3. k = i /\ l = j => n = w.slot
      <4>0. k \in Segs /\ i \in Segs /\ h.mask \in Nat  BY <1>1, <1>2, <1>3, <3>1
      <4>1. Base[k] \in Nat /\ Base[i] \in Nat /\ n \in Int /\ w.slot \in Int
        <5>1. n \in Int /\ w.slot \in Int  BY <4>0
        <5> HIDE DEF i, k, l, j, dir, s
        <5>2. Base[k] \in Nat /\ Base[i] \in Nat  BY <4>0, Totals
        <5> QED  BY <5>1, <5>2
      <4>2. l = n - Base[k] /\ j = w.slot - Base[i]  OBVIOUS
      <4> HIDE DEF k, i, l, j, dir, s
      <4>3. ASSUME k = i, l = j  PROVE n = w.slot
        <5>1. n - Base[k] = w.slot - Base[k]  BY <4>2, <4>3
        <5> QED  BY ONLY <4>1, <5>1
      <4> QED  BY <4>3
    <3>4. n = w.slot => k = i /\ l = j  OBVIOUS
    <3>5. h.hdir[i] \in Segment(i)  BY <1>1, <1>2
    <3> HIDE DEF k, l, i, j
    <3>6. CASE k = i
      <4>1. dir[k] = [h.hdir[i] EXCEPT ![j] = b]  BY <2>4, <3>1, <3>6
      <4>2. dir[k][l] = IF l = j THEN b ELSE h.hdir[i][l]  BY <3>1, <3>5, <3>6, <4>1 DEF Segment
      <4> QED  BY <3>2, <3>3, <3>4, <3>6, <4>2
    <3>7. CASE k # i  BY <2>4, <3>1, <3>2, <3>4, <3>7
    <3> QED  BY <3>6, <3>7
  <2> HIDE DEF i, j
  <2> QED  BY <1>5, <2>2, <2>9, <2>10 DEF s
<1>6. CASE w.pos # 1
  <2>1. s = [h EXCEPT !.clink[p] = b]  BY <1>6 DEF Store
  <2>2. /\ s.hdir = h.hdir /\ s.size = h.size /\ s.mask = h.mask
        /\ s.clink = [h.clink EXCEPT ![p] = b] /\ s = [h EXCEPT !.clink = s.clink]
    <3> HIDE DEF p
    <3> QED  BY <1>1, <2>1 DEF Structures
  <2>3. p \in DOMAIN h.clink  BY <1>6
  <2> HIDE DEF p, s
  <2>4. s.clink \in [DOMAIN h.clink -> Links]  BY <1>3, <2>2, <2>3
  <2>5. s \in Structures  BY <1>1, <1>3, <2>2, <2>4 DEF Structures
  <2>6. Shaped(s, top)  BY <1>1, <2>2, <2>5 DEF Shaped
  <2>7. \A n \in 0..h.mask : Slot(s, n) = Slot(h, n)  BY <2>2 DEF Slot
  <2>8. \A y \in DOMAIN h.clink : s.clink[y] = IF y = p THEN b ELSE h.clink[y]
    BY <1>3, <2>2, <2>3
  <2>9. DOMAIN s.clink = DOMAIN h.clink  BY <2>4
  <2> QED  BY <1>6, <2>2, <2>6, <2>7, <2>8, <2>9 DEF p, s
<1> QED  BY <1>5, <1>6

\* The block b is inserted at the time k.
Stamped(t, b, k) == [y \in AllBlocks |-> IF y = b THEN k ELSE t[y]]

\* g has the block links of h for the blocks D, and the blocks E besides.
Keeps(g, h, D, E) ==
    /\ DOMAIN g.clink = DOMAIN h.clink \cup E
    /\ \A d \in D : g.clink[d] = h.clink[d]

\* A new block goes behind the blocks of its hash number.
LEMMA GoodAddmem ==
    ASSUME NEW h, NEW t, NEW B, Good(hash, h, t, B), NEW x \in Keys, \A b \in B : Key(b) # x,
           NEW b \in AllBlocks, Key(b) = x, NEW k \in Nat, \A y \in B : t[y] < k
    PROVE  /\ Good(hash, addmem(h, b, memb(h, x)), Stamped(t, b, k), B \cup {b})
           /\ addmem(h, b, memb(h, x)).mask = h.mask
           /\ Keeps(addmem(h, b, memb(h, x)), h, DOMAIN h.clink \ (B \cup {b}), {b})
<1> DEFINE w == memb(h, x)
           n == And(hash[x], h.mask)
           S == InSlot(hash, B, h.mask, n)
           P == Passed(hash, h, t, B, x)
           p == w.chain[w.pos - 1]
           clink == [y \in DOMAIN h.clink \cup {b} |-> IF y = b THEN At(w) ELSE h.clink[y]]
           g == [h EXCEPT !.size = @ + 1, !.clink = clink]
           a == addmem(h, b, w)
           C == B \cup {b}
<1>1. PICK top \in Segs : Shaped(h, top)  BY DEF Good
<1>2. /\ Ordered(hash, t, B) /\ h \in Structures /\ B \subseteq DOMAIN h.clink
      /\ IsFiniteSet(B) /\ b \notin B /\ hash[x] \in Nat
      /\ h.size \in Nat /\ h.mask \in Nat /\ h.clink \in [DOMAIN h.clink -> Links]
      /\ DOMAIN h.clink \subseteq AllBlocks
  <2>1. Ordered(hash, t, B) /\ h \in Structures  BY GoodFacts
  <2>2. hash[x] \in Nat  BY <2>1 DEF Ordered
  <2> QED  BY <2>1, <2>2, GoodFacts, StructureParts
<1>3. /\ w.slot = n /\ w.slot \in 0..h.mask
      /\ w.pos = 1 <=> P = {}
      /\ w.pos # 1 => p \in P /\ \A y \in P \ {p} : Before(hash, t, y, p)
      /\ IsFirst(hash, t, S \ P, At(w))
  BY MembSplits
<1>4. P = {y \in S : HashNum(y) <= hash[x]} /\ S \subseteq B
  BY DEF Passed, HashNum, InSlot
<1>5. At(w) \in Links
  <2> DEFINE Q == S \ P
             e == At(w)
  <2>1. Ordered(hash, t, B) /\ Q \in SUBSET B /\ IsFirst(hash, t, Q, e)  BY <1>2, <1>3, <1>4
  <2> HIDE DEF Q, e
  <2>2. e \in AllBlocks \cup {Null}  BY <2>1, FirstNull
  <2> QED  BY <2>2 DEF e, Links
<1>6. \A y \in B : t[y] < k  OBVIOUS
<1> DEFINE u == Stamped(t, b, k)
<1>7a. u[b] = k /\ \A y \in B : u[y] = t[y]
  <2>1. B \subseteq AllBlocks  BY <1>2 DEF Ordered
  <2> QED  BY <1>2, <2>1 DEF Stamped
<1> HIDE DEF u
<1>7. Ordered(hash, u, C)
  <2>1. \A y \in B : t[y] \in Nat  BY <1>2 DEF Ordered
  <2>2. \A y \in C : u[y] \in Nat  BY <1>7a, <2>1
  <2>3. \A y, z \in C : u[y] = u[z] => y = z
    <3>1. \A y, z \in B : t[y] = t[z] => y = z  BY <1>2 DEF Ordered
    <3> QED  BY <1>2, <1>6, <1>7a, <2>1, <3>1
  <2>4. \A y \in C : u[y] < k + 1  BY <1>6, <1>7a, <2>1
  <2>5. hash \in [Keys -> Nat] /\ C \subseteq AllBlocks /\ k + 1 \in Nat  BY <1>2 DEF Ordered
  <2> HIDE DEF C
  <2> QED  BY <2>2, <2>3, <2>4, <2>5 DEF Ordered
<1>8. \A y, z \in B : Before(hash, u, y, z) <=> Before(hash, t, y, z)  BY <1>7a DEF Before
<1>9. \A y \in B : HashNum(y) \in Nat /\ HashNum(y) = hash[Key(y)]  BY <1>2, BlockFacts DEF HashNum
<1>10. \A y \in B : (Before(hash, u, y, b) <=> HashNum(y) <= hash[x])
                    /\ (Before(hash, u, b, y) <=> HashNum(y) > hash[x])
  <2> TAKE y \in B
  <2>1. u[y] = t[y] /\ u[b] = k /\ t[y] < k /\ t[y] \in Nat  BY <1>2, <1>6, <1>7a DEF Ordered
  <2>2. HashNum(y) \in Nat /\ HashNum(y) = hash[Key(y)] /\ hash[x] \in Nat /\ Key(b) = x  BY <1>2, <1>9
  <2> HIDE DEF u
  <2> QED  BY <2>1, <2>2 DEF Before
<1>11. /\ Shaped(g, top) /\ g.size = h.size + 1 /\ g.mask = h.mask /\ g.hdir = h.hdir
       /\ g.clink = clink
  <2>1. clink \in [DOMAIN h.clink \cup {b} -> Links]
    <3> HIDE DEF w
    <3> QED  BY <1>2, <1>5
  <2> HIDE DEF clink
  <2>2. /\ g.size = h.size + 1 /\ g.mask = h.mask /\ g.hdir = h.hdir /\ g.clink = clink
        /\ DOMAIN h.clink \cup {b} \in SUBSET AllBlocks
    BY <1>2 DEF Structures
  <2>3. g \in Structures
    <3>1. clink \in UNION {[D -> Links] : D \in SUBSET AllBlocks}  BY <2>1, <2>2
    <3>2. h.size + 1 \in Nat  BY <1>2
    <3> QED  BY <1>2, <3>1, <3>2 DEF Structures
  <2> HIDE DEF g
  <2> QED  BY <1>1, <2>2, <2>3 DEF Shaped
<1>12. a = Store(g, w, b)  BY DEF addmem
<1>13. w.pos # 1 => p \in DOMAIN g.clink /\ p \in B /\ p # b
  <2>1. DOMAIN clink = DOMAIN h.clink \cup {b}  OBVIOUS
  <2> HIDE DEF clink, w, P, S, g, p
  <2> QED  BY <1>2, <1>3, <1>4, <1>11, <2>1
<1>14. /\ Shaped(a, top) /\ a.size = h.size + 1 /\ a.mask = h.mask
       /\ DOMAIN a.clink = DOMAIN h.clink \cup {b}
       /\ \A m \in 0..h.mask : Slot(a, m) = IF w.pos = 1 /\ m = n THEN b ELSE Slot(h, m)
       /\ \A y \in DOMAIN h.clink \cup {b} :
             a.clink[y] = IF w.pos # 1 /\ y = p THEN b ELSE clink[y]
  <2>1. b \in Links  BY DEF Links
  <2>2. DOMAIN clink = DOMAIN h.clink \cup {b}  OBVIOUS
  <2>3. w.slot \in 0..g.mask /\ (w.pos # 1 => w.chain[w.pos - 1] \in DOMAIN g.clink)
    BY <1>3, <1>11, <1>13
  <2>4. \A m \in 0..h.mask : Slot(g, m) = Slot(h, m)  BY <1>11 DEF Slot
  <2> HIDE DEF clink, w, g, a
  <2>5. LET s == Store(g, w, b)
        IN  /\ Shaped(s, top) /\ s.size = g.size /\ s.mask = g.mask
            /\ DOMAIN s.clink = DOMAIN g.clink
            /\ \A m \in 0..g.mask :
                  Slot(s, m) = IF w.pos = 1 /\ m = w.slot THEN b ELSE Slot(g, m)
            /\ \A y \in DOMAIN g.clink :
                  s.clink[y] = IF w.pos # 1 /\ y = w.chain[w.pos - 1] THEN b ELSE g.clink[y]
    BY <1>11, <2>1, <2>3, StoreParts
  <2> QED  BY <1>3, <1>11, <1>12, <2>2, <2>4, <2>5
<1> DEFINE m == h.mask
<1>15. \A i \in 0..m : InSlot(hash, C, m, i) = IF i = n THEN S \cup {b} ELSE InSlot(hash, B, m, i)
  BY DEF InSlot
<1>16. ASSUME NEW i \in 0..m  PROVE IsFirst(hash, u, InSlot(hash, C, m, i), Slot(a, i))
  <2>1. IsFirst(hash, t, InSlot(hash, B, m, i), Slot(h, i)) /\ InSlot(hash, B, m, i) \subseteq B
    BY DEF Good, Linked, InSlot
  <2>2. CASE i # n
    <3>1. Slot(a, i) = Slot(h, i) /\ InSlot(hash, C, m, i) = InSlot(hash, B, m, i)
      BY <1>14, <1>15, <2>2
    <3> HIDE DEF a, u
    <3> QED  BY <1>8, <2>1, <3>1 DEF IsFirst
  <2>3. CASE i = n /\ w.pos = 1
    <3>1. Slot(a, i) = b /\ InSlot(hash, C, m, i) = S \cup {b}  BY <1>14, <1>15, <2>3
    <3>2. \A y \in S : HashNum(y) > hash[x]  BY <1>2, <1>3, <1>4, <1>9, <2>3
    <3>3. \A y \in S : Before(hash, u, b, y)  BY <1>4, <1>10, <3>2
    <3> HIDE DEF a, u, S
    <3> QED  BY <3>1, <3>3 DEF IsFirst
  <2>4. CASE i = n /\ w.pos # 1
    <3> DEFINE e == Slot(h, i)
    <3>1. Slot(a, i) = e /\ InSlot(hash, C, m, i) = S \cup {b} /\ InSlot(hash, B, m, i) = S
      BY <1>14, <1>15, <2>4
    <3>2. p \in P /\ p \in S /\ p \in B /\ HashNum(p) <= hash[x]
      <4> HIDE DEF p, P, S, w
      <4> QED  BY <1>3, <1>4, <2>4
    <3> HIDE DEF a, u, S, P, p, w, e
    <3>3. e \in S /\ (e = p \/ Before(hash, t, e, p)) /\ \A y \in S \ {e} : Before(hash, t, e, y)
      BY <2>1, <3>1, <3>2 DEF IsFirst, e
    <3>4. HashNum(e) <= hash[x] /\ e \in B
      BY <1>2, <1>4, <1>9, <3>2, <3>3 DEF Before
    <3>5. Before(hash, u, e, b)  BY <1>10, <3>4
    <3>6. \A y \in S \ {e} : Before(hash, u, e, y)  BY <1>4, <1>8, <3>3
    <3> QED  BY <3>1, <3>3, <3>5, <3>6 DEF IsFirst
  <2> QED  BY <2>2, <2>3, <2>4
<1>17. ASSUME NEW y \in C  PROVE IsFirst(hash, u, Rest(hash, u, C, m, y), a.clink[y])
  <2>1. CASE y = b
    <3>1. w.pos # 1 => y # p  BY <1>13, <2>1
    <3>2. clink[b] = At(w) /\ b \in DOMAIN h.clink \cup {b}  OBVIOUS
    <3>3. a.clink[y] = At(w)
      <4> HIDE DEF a, w, p, clink
      <4> QED  BY <1>14, <2>1, <3>1, <3>2
    <3>4. InSlot(hash, C, m, And(hash[Key(b)], m)) = S \cup {b}
      BY <1>3, <1>15
    <3>5. ~ Before(hash, u, b, b)  BY <1>7, TotalOrder
    <3>6. Rest(hash, u, C, m, y) = S \ P
      <4>1. \A z \in S : Before(hash, u, b, z) <=> z \notin P
        <5> HIDE DEF u
        <5> QED  BY <1>2, <1>4, <1>9, <1>10
      <4> HIDE DEF u, C, S, P
      <4> QED  BY <2>1, <3>4, <3>5, <4>1 DEF Rest, Later
    <3> HIDE DEF u, w, a, S, P
    <3> QED  BY <1>3, <1>4, <1>8, <3>3, <3>6 DEF IsFirst
  <2>2. CASE y \in B
    <3> DEFINE e == h.clink[y]
               R == Rest(hash, t, B, m, y)
    <3>1. IsFirst(hash, t, R, e) /\ R \subseteq B
      BY <2>2 DEF Good, Linked, Rest, Later, InSlot
    <3>2. y # b /\ y \in DOMAIN h.clink  BY <1>2, <2>2
    <3>3. a.clink[y] = IF w.pos # 1 /\ y = p THEN b ELSE e
      <4>1. clink[y] = e  BY <3>2
      <4> HIDE DEF a, w, p, clink
      <4> QED  BY <1>14, <3>2, <4>1
    <3>4. Rest(hash, u, C, m, y) = IF And(hash[Key(y)], m) = n /\ HashNum(y) <= hash[x] THEN R \cup {b} ELSE R
      <4>1. And(hash[Key(y)], m) \in 0..m  BY <2>2, GoodFacts
      <4>2. InSlot(hash, C, m, And(hash[Key(y)], m)) =
              IF And(hash[Key(y)], m) = n THEN InSlot(hash, B, m, And(hash[Key(y)], m)) \cup {b}
              ELSE InSlot(hash, B, m, And(hash[Key(y)], m))
        BY <1>15, <4>1
      <4>3. Before(hash, u, y, b) <=> HashNum(y) <= hash[x]  BY <1>10, <2>2
      <4>4. \A z \in B : Before(hash, u, y, z) <=> Before(hash, t, y, z)  BY <1>8, <2>2
      <4>5. InSlot(hash, B, m, And(hash[Key(y)], m)) \subseteq B  BY DEF InSlot
      <4> HIDE DEF u, C, n
      <4> QED  BY <4>2, <4>3, <4>4, <4>5 DEF Rest, Later
    <3>5. \A z \in B : Before(hash, u, y, z) <=> Before(hash, t, y, z)  BY <1>8, <2>2
    <3>6. w.pos # 1 => p \in P /\ p \in S /\ p \in B /\ HashNum(p) <= hash[x]
      <4> HIDE DEF p, P, S, w
      <4> QED  BY <1>3, <1>4
    <3>7. \A z \in S : And(hash[Key(z)], m) = n /\ z \in B  BY DEF InSlot
    <3> HIDE DEF R, e
    <3>8. CASE ~(And(hash[Key(y)], m) = n /\ HashNum(y) <= hash[x])
      <4>1. a.clink[y] = e
        <5> HIDE DEF a, w, p, S, P
        <5> QED  BY <3>3, <3>6, <3>7, <3>8
      <4>2. Rest(hash, u, C, m, y) = R  BY <3>4, <3>8
      <4>3. \A z \in R, v \in R : Before(hash, t, z, v) => Before(hash, u, z, v)  BY <1>8, <3>1
      <4> HIDE DEF u, a, C
      <4> QED  BY <3>1, <4>1, <4>2, <4>3 DEF IsFirst
    <3>9. CASE And(hash[Key(y)], m) = n /\ HashNum(y) <= hash[x]
      <4>1. y \in P /\ y \in S
        <5>1. y \in S  BY <2>2, <3>9 DEF InSlot
        <5> HIDE DEF P, S
        <5> QED  BY <1>4, <3>9, <5>1
      <4>2. Rest(hash, u, C, m, y) = R \cup {b}  BY <3>4, <3>9
      <4>3. w.pos # 1
        <5> HIDE DEF P, w
        <5> QED  BY <1>3, <4>1
      <4>4. R = {z \in S : Before(hash, t, y, z)}  BY <3>9 DEF R, Rest, Later
      <4> HIDE DEF P, w, p, S
      <4>5. p \in P /\ p \in B /\ p \in S /\ HashNum(p) <= hash[x]  BY <3>6, <4>3
      <4>6. CASE y = p
        <5>1. a.clink[y] = b
          <6> HIDE DEF a
          <6> QED  BY <3>3, <4>3, <4>6
        <5>2. ASSUME NEW z \in R  PROVE Before(hash, u, b, z)
          <6>1. z \in S /\ z \in B /\ Before(hash, t, p, z)  BY <3>1, <4>4, <4>6
          <6>2. z # p  BY <1>2, <4>5, <6>1, TotalOrder
          <6>3. z \notin P
            <7>1. z \in P => Before(hash, t, z, p)  BY <1>3, <4>3, <6>2
            <7> QED  BY <1>2, <4>5, <6>1, <7>1, TotalOrder
          <6>4. HashNum(z) > hash[x]  BY <1>2, <1>4, <1>9, <6>1, <6>3
          <6> HIDE DEF u
          <6> QED  BY <1>10, <6>1, <6>4
        <5> HIDE DEF u, a, C
        <5> QED  BY <4>2, <5>1, <5>2 DEF IsFirst
      <4>7. CASE y # p
        <5>1. a.clink[y] = e
          <6> HIDE DEF a
          <6> QED  BY <3>3, <4>7
        <5>2. Before(hash, t, y, p)  BY <1>3, <4>1, <4>3, <4>7
        <5>3. p \in R  BY <4>4, <4>5, <5>2
        <5>4. e \in R /\ (e = p \/ Before(hash, t, e, p)) /\ \A z \in R \ {e} : Before(hash, t, e, z)
          BY <3>1, <5>3 DEF IsFirst
        <5>5. e \in B /\ HashNum(e) <= hash[x]
          BY <1>2, <1>9, <3>1, <4>5, <5>4 DEF Before
        <5> HIDE DEF u, a, C
        <5>6. Before(hash, u, e, b)  BY <1>10, <5>5
        <5>7. \A z \in R \ {e} : Before(hash, u, e, z)  BY <1>8, <3>1, <5>4, <5>5
        <5> QED  BY <4>2, <5>1, <5>4, <5>6, <5>7 DEF IsFirst
      <4> QED  BY <4>6, <4>7
    <3> QED  BY <3>8, <3>9
  <2> QED  BY <2>1, <2>2
<1>18. a.size = Cardinality(C)
  <2>1. Cardinality(C) = Cardinality(B) + 1  BY <1>2, FS_AddElement
  <2>2. h.size = Cardinality(B)  BY DEF Good
  <2> HIDE DEF a, C
  <2> QED  BY <1>14, <2>1, <2>2
<1>19. C \subseteq DOMAIN a.clink
  <2> HIDE DEF a
  <2> QED  BY <1>2, <1>14
<1>20. \A y, z \in C : Key(y) = Key(z) => y = z  BY DEF Good
<1>23. Keeps(a, h, DOMAIN h.clink \ C, {b})
  <2> SUFFICES ASSUME NEW y \in DOMAIN h.clink \ C  PROVE a.clink[y] = h.clink[y]
    BY <1>14 DEF Keeps
  <2>1. clink[y] = h.clink[y] /\ y # b  OBVIOUS
  <2>2. w.pos # 1 => y # p
    <3> HIDE DEF p, w
    <3> QED  BY <1>13
  <2> HIDE DEF a, clink, w, p
  <2> QED  BY <1>14, <2>1, <2>2
<1> HIDE DEF a, u, C, w, clink, g
<1>21. Linked(hash, a, u, C)  BY <1>14, <1>16, <1>17 DEF Linked
<1>22. Good(hash, a, u, C)  BY <1>7, <1>14, <1>18, <1>19, <1>20, <1>21 DEF Good
<1> QED  BY <1>14, <1>22, <1>23 DEF a, u, C, w

\* The block before a deleted one, or the slot, goes on with its link.
LEMMA GoodRemoved ==
    ASSUME NEW h, NEW t, NEW B, Good(hash, h, t, B), NEW x \in Keys,
           NEW w, w = memb(h, x), w.res
    PROVE  LET d == At(w)
           IN  /\ d \in B /\ Key(d) = x
               /\ Good(hash, [Store(h, w, h.clink[d]) EXCEPT !.size = @ - 1], t, B \ {d})
               /\ [Store(h, w, h.clink[d]) EXCEPT !.size = @ - 1].mask = h.mask
               /\ Keeps([Store(h, w, h.clink[d]) EXCEPT !.size = @ - 1], h,
                        (DOMAIN h.clink \ B) \cup {d}, {})
<1> DEFINE n == And(hash[x], h.mask)
           S == InSlot(hash, B, h.mask, n)
           P == Passed(hash, h, t, B, x)
           p == w.chain[w.pos - 1]
           d == At(w)
           s == Store(h, w, h.clink[d])
           r == [s EXCEPT !.size = @ - 1]
           C == B \ {d}
           u == t
           m == h.mask
<1>1. PICK top \in Segs : Shaped(h, top)  BY DEF Good
<1>2. /\ Ordered(hash, t, B) /\ h \in Structures /\ B \subseteq DOMAIN h.clink
      /\ IsFiniteSet(B) /\ Cardinality(B) \in Nat /\ h.size = Cardinality(B)
      /\ h.clink \in [DOMAIN h.clink -> Links]
  <2>1. h \in Structures  BY GoodFacts
  <2> QED  BY <2>1, GoodFacts, StructureParts DEF Good
<1>3. /\ w.slot = n /\ w.slot \in 0..h.mask
      /\ w.pos = 1 <=> P = {}
      /\ w.pos # 1 => p \in P /\ \A y \in P \ {p} : Before(hash, t, y, p)
      /\ Key(d) = x /\ d \in B
  BY MembSplits
<1>4. P = {y \in S : Before(hash, t, y, d)} /\ S \subseteq B /\ d \in S
  <2>1. \A b \in B : Key(b) = x => b = d  BY <1>3 DEF Good
  <2>2. d \in S /\ S \subseteq B  BY <1>3 DEF InSlot
  <2> HIDE DEF d
  <2> QED  BY <1>3, <2>1, <2>2 DEF Passed
<1>5. /\ Shaped(s, top) /\ s.size = h.size /\ s.mask = h.mask /\ DOMAIN s.clink = DOMAIN h.clink
      /\ \A i \in 0..m : Slot(s, i) = IF w.pos = 1 /\ i = n THEN h.clink[d] ELSE Slot(h, i)
      /\ \A y \in DOMAIN h.clink :
            s.clink[y] = IF w.pos # 1 /\ y = p THEN h.clink[d] ELSE h.clink[y]
  <2>1. w.pos # 1 => p \in DOMAIN h.clink
    <3> HIDE DEF p, P, S
    <3> QED  BY <1>2, <1>3, <1>4
  <2> DEFINE e == h.clink[d]
  <2>2. e \in Links
    <3> HIDE DEF d
    <3> QED  BY <1>2, <1>3
  <2> HIDE DEF e
  <2>3. LET v == Store(h, w, e)
        IN  /\ Shaped(v, top) /\ v.size = h.size /\ v.mask = h.mask
            /\ DOMAIN v.clink = DOMAIN h.clink
            /\ \A i \in 0..h.mask :
                  Slot(v, i) = IF w.pos = 1 /\ i = w.slot THEN e ELSE Slot(h, i)
            /\ \A y \in DOMAIN h.clink :
                  v.clink[y] = IF w.pos # 1 /\ y = w.chain[w.pos - 1] THEN e ELSE h.clink[y]
    BY <1>1, <1>3, <2>1, <2>2, StoreParts
  <2> QED  BY <1>3, <2>3 DEF e
<1>6. /\ Shaped(r, top) /\ r.size = h.size - 1 /\ r.mask = h.mask /\ r.clink = s.clink
      /\ \A i \in 0..m : Slot(r, i) = Slot(s, i)
      /\ Cardinality(C) = h.size - 1
  <2>1. Cardinality(C) = h.size - 1 /\ Cardinality(C) \in Nat
    <3>1. Cardinality(C) = Cardinality(B) - 1  BY <1>2, <1>3, FS_RemoveElement
    <3>2. IsFiniteSet(C)  BY <1>2, FS_Subset
    <3>3. Cardinality(C) \in Nat  BY <3>2, FS_CardinalityType
    <3> QED  BY <1>2, <3>1, <3>3
  <2>2. s \in Structures  BY <1>5 DEF Shaped
  <2> HIDE DEF s, C
  <2>3. /\ r.size = h.size - 1 /\ r.mask = h.mask /\ r.clink = s.clink /\ r.hdir = s.hdir
    BY <1>5, <2>2 DEF Structures
  <2>4. r \in Structures
    <3>1. s.size - 1 \in Nat  BY <1>5, <2>1
    <3> QED  BY <2>2, <3>1 DEF Structures
  <2> HIDE DEF r
  <2>5. Shaped(r, top)  BY <1>5, <2>3, <2>4 DEF Shaped
  <2> QED  BY <2>1, <2>3, <2>5 DEF Slot
<1> HIDE DEF s, r
<1>20. Keeps(r, h, (DOMAIN h.clink \ B) \cup {d}, {})
  <2>1. w.pos # 1 => p \in B /\ p # d
    <3>1. ~ Before(hash, t, d, d)  BY <1>2, <1>3, TotalOrder
    <3> HIDE DEF p, P, S, d
    <3> QED  BY <1>3, <1>4, <3>1
  <2> HIDE DEF p, d
  <2>2. \A y \in (DOMAIN h.clink \ B) \cup {d} :
           y \in DOMAIN h.clink /\ (w.pos # 1 => y # p)
    BY <1>2, <1>3, <2>1
  <2> QED  BY <1>5, <1>6, <2>2 DEF Keeps
<1> HIDE DEF m
<1>21. r.mask = h.mask  BY <1>5, <1>6
<1> USE DEF m
<1>7. Ordered(hash, u, C)
  <2>1. (\A y \in B : t[y] \in Nat) /\ hash \in [Keys -> Nat] /\ B \subseteq AllBlocks
    BY <1>2 DEF Ordered
  <2>2. PICK k \in Nat : \A y \in B : t[y] < k  BY <1>2 DEF Ordered
  <2>3. \A y, z \in B : t[y] = t[z] => y = z  BY <1>2 DEF Ordered
  <2> HIDE DEF d
  <2>4. \A y \in C : u[y] \in Nat /\ u[y] < k  BY <2>1, <2>2
  <2>5. \A y, z \in C : u[y] = u[z] => y = z  BY <2>3
  <2> HIDE DEF u
  <2> QED  BY <2>1, <2>4, <2>5 DEF Ordered
<1>8. \A y, z \in C : Before(hash, u, y, z) <=> Before(hash, t, y, z)
  <2> HIDE DEF d
  <2> QED  BY DEF Before
<1> HIDE DEF u, d
<1>9. \A i \in 0..m : InSlot(hash, C, m, i) = InSlot(hash, B, m, i) \ {d}
  BY DEF InSlot
<1>10. \A y \in C : Rest(hash, u, C, m, y) = Rest(hash, t, B, m, y) \ {d}
  <2> TAKE y \in C
  <2>1. And(hash[Key(y)], m) \in 0..m  BY GoodFacts
  <2>2. InSlot(hash, C, m, And(hash[Key(y)], m)) = InSlot(hash, B, m, And(hash[Key(y)], m)) \ {d}
    BY <1>9, <2>1
  <2>3. InSlot(hash, B, m, And(hash[Key(y)], m)) \subseteq B  BY DEF InSlot
  <2>4. \A z \in C : Before(hash, u, y, z) <=> Before(hash, t, y, z)  BY <1>8
  <2> QED  BY <2>2, <2>3, <2>4 DEF Rest, Later
<1>11. Rest(hash, t, B, m, d) = {y \in S : Before(hash, t, d, y)}
  BY <1>3 DEF Rest, Later
<1>12. IsFirst(hash, t, Rest(hash, t, B, m, d), h.clink[d])
  BY <1>3 DEF Good, Linked
<1>13. \A y \in S : y # d => (y \in P <=> ~ Before(hash, t, d, y))
  BY <1>2, <1>3, <1>4, TotalOrder
<1>14. ASSUME NEW i \in 0..m  PROVE IsFirst(hash, u, InSlot(hash, C, m, i), Slot(r, i))
  <2>1. IsFirst(hash, t, InSlot(hash, B, m, i), Slot(h, i)) /\ InSlot(hash, B, m, i) \subseteq B
    BY DEF Good, Linked, InSlot
  <2>2. CASE i = n /\ w.pos = 1
    <3>1. Slot(r, i) = h.clink[d]  BY <1>5, <1>6, <2>2
    <3>2. InSlot(hash, C, m, i) = S \ {d}  BY <1>9, <2>2
    <3> HIDE DEF P, S, n
    <3>3. Rest(hash, t, B, m, d) = S \ {d}
      BY <1>2, <1>3, <1>4, <1>11, <1>13, <2>2, TotalOrder
    <3> QED  BY <1>4, <1>8, <1>12, <3>1, <3>2, <3>3 DEF IsFirst
  <2>3. CASE ~(i = n /\ w.pos = 1)
    <3> DEFINE e == Slot(h, i)
    <3>1. Slot(r, i) = e  BY <1>5, <1>6, <2>3
    <3>2. ASSUME e = d, InSlot(hash, B, m, i) # {}  PROVE FALSE
      <4>1. d \in InSlot(hash, B, m, i) /\ \A y \in InSlot(hash, B, m, i) \ {d} : Before(hash, t, d, y)
        BY <2>1, <3>2 DEF IsFirst
      <4>2. i = n  BY <1>3, <4>1 DEF InSlot
      <4>3. p \in P
        <5> HIDE DEF p, P
        <5> QED  BY <1>3, <2>3, <4>2
      <4> HIDE DEF p, P
      <4>4. p \in InSlot(hash, B, m, i) /\ p \in B /\ Before(hash, t, p, d)  BY <1>4, <4>2, <4>3
      <4>5. p # d  BY <1>2, <1>3, <4>4, TotalOrder
      <4>6. Before(hash, t, d, p)  BY <4>1, <4>4, <4>5
      <4> QED  BY <1>2, <1>3, <4>4, <4>6, TotalOrder
    <3> HIDE DEF e
    <3>3. IsFirst(hash, t, InSlot(hash, B, m, i), e)  BY <2>1 DEF e
    <3>4. d \in InSlot(hash, B, m, i) => e # d  BY <3>2
    <3>5. e = d => InSlot(hash, B, m, i) = {}  BY <3>2
    <3> QED  BY <1>8, <1>9, <2>1, <3>1, <3>3, <3>5 DEF IsFirst
  <2> QED  BY <2>2, <2>3
<1>15. ASSUME NEW y \in C  PROVE IsFirst(hash, u, Rest(hash, u, C, m, y), r.clink[y])
  <2> DEFINE R == Rest(hash, t, B, m, y)
             e == h.clink[y]
  <2>1. IsFirst(hash, t, R, e) /\ R \subseteq B /\ y \in B /\ y # d /\ y \in DOMAIN h.clink
    BY <1>2 DEF Good, Linked, Rest, Later, InSlot
  <2>2. Rest(hash, u, C, m, y) = R \ {d}  BY <1>10
  <2>3. R = {z \in InSlot(hash, B, m, And(hash[Key(y)], m)) : Before(hash, t, y, z)}
    BY DEF Rest, Later
  <2>4. r.clink[y] = IF w.pos # 1 /\ y = p THEN h.clink[d] ELSE e  BY <1>5, <1>6, <2>1
  <2>5. CASE w.pos # 1 /\ y = p
    <3>1. r.clink[y] = h.clink[d]
      <4> HIDE DEF p
      <4> QED  BY <2>4, <2>5
    <3>2. p \in P /\ \A z \in P \ {p} : Before(hash, t, z, p)
      <4> HIDE DEF p, P
      <4> QED  BY <1>3, <2>5
    <3> HIDE DEF p, P
    <3>3. y \in S /\ Before(hash, t, y, d)  BY <1>4, <2>5, <3>2
    <3>4. R = {z \in S : Before(hash, t, y, z)}  BY <2>3, <3>3 DEF InSlot
    <3>5. ASSUME NEW z \in S, z # d  PROVE Before(hash, t, y, z) <=> Before(hash, t, d, z)
      <4>1. z \in B  BY <1>4
      <4>2. Before(hash, t, d, z) => Before(hash, t, y, z)
        BY <1>2, <1>3, <2>1, <3>3, <4>1, TotalOrder
      <4>3. ASSUME ~ Before(hash, t, d, z)  PROVE ~ Before(hash, t, y, z)
        <5>1. z \in P  BY <1>13, <3>5, <4>3
        <5>2. z = y \/ Before(hash, t, z, y)  BY <2>5, <3>2, <5>1
        <5> QED  BY <1>2, <2>1, <4>1, <5>2, TotalOrder
      <4> QED  BY <4>2, <4>3
    <3>6. ~ Before(hash, t, d, d)  BY <1>2, <1>3, TotalOrder
    <3> HIDE DEF R, S
    <3>7. R \ {d} = Rest(hash, t, B, m, d)  BY <1>11, <3>4, <3>5, <3>6
    <3>8. Rest(hash, t, B, m, d) \subseteq C  BY <2>1, <3>7
    <3> QED  BY <1>8, <1>12, <2>2, <3>1, <3>7, <3>8 DEF IsFirst
  <2>6. CASE ~(w.pos # 1 /\ y = p)
    <3>1. r.clink[y] = e
      <4> HIDE DEF p
      <4> QED  BY <2>4, <2>6
    <3>2. ASSUME e = d, R # {}  PROVE FALSE
      <4>1. d \in R /\ \A z \in R \ {d} : Before(hash, t, d, z)
        <5> HIDE DEF R
        <5> QED  BY <2>1, <3>2 DEF IsFirst
      <4>2. And(hash[Key(y)], m) = n /\ Before(hash, t, y, d)
        BY <1>3, <2>3, <4>1 DEF InSlot
      <4>3. y \in S  BY <2>1, <4>2 DEF InSlot
      <4>4. R = {z \in S : Before(hash, t, y, z)}  BY <2>3, <4>2
      <4> HIDE DEF P, p, S, R, e
      <4>5. y \in P  BY <1>4, <4>2, <4>3
      <4>6. w.pos # 1 /\ y # p /\ p \in P  BY <1>3, <2>6, <4>5
      <4>7. p \in S /\ p \in B /\ Before(hash, t, p, d) /\ Before(hash, t, y, p)
        BY <1>3, <1>4, <4>5, <4>6
      <4>8. p \in R /\ p # d  BY <1>2, <1>3, <4>4, <4>7, TotalOrder
      <4>9. Before(hash, t, d, p)  BY <4>1, <4>8
      <4> QED  BY <1>2, <1>3, <4>7, <4>9, TotalOrder
    <3> HIDE DEF R, e
    <3> QED  BY <1>8, <2>1, <2>2, <3>1, <3>2 DEF IsFirst
  <2> QED  BY <2>5, <2>6
<1>16. C \subseteq DOMAIN r.clink  BY <1>2, <1>5, <1>6
<1>17. \A y, z \in C : Key(y) = Key(z) => y = z  BY DEF Good
<1> HIDE DEF C
<1>18. Linked(hash, r, u, C)  BY <1>6, <1>14, <1>15 DEF Linked
<1>19. Good(hash, r, u, C)  BY <1>6, <1>7, <1>16, <1>17, <1>18 DEF Good
<1> QED  BY <1>3, <1>19, <1>20, <1>21 DEF r, s, C, d, u

-----------------------------------------------------------------------------
(* Growth and shrinking. *)

\* What the slots for mask m start with, and the links of the blocks D.
Firsts(m) == [0..m -> Links]
LinksOf(D) == [D -> Links]

\* A directory of the segments up to top, the slots starting with first, and a
\* structure with such a directory and these links.
Fits(dir, top, m, first) ==
    /\ dir \in [0..top -> UNION {Segment(i) : i \in Segs}]
    /\ \A i \in 0..top : dir[i] \in Segment(i)
    /\ \A n \in 0..m : dir[SegOf[n]][n - Base[SegOf[n]]] = first[n]

Remade(g, h, top, m, first, clink) ==
    /\ Shaped(g, top) /\ g.size = h.size /\ g.mask = m /\ g.clink = clink
    /\ \A n \in 0..m : Slot(g, n) = first[n]

\* The slots of a directory that is made for a mask.
LEMMA DirectorySlots ==
    ASSUME NEW top \in Segs, NEW m, m = Total[top] - 1, NEW first \in Firsts(m)
    PROVE  Fits(Directory(m, first), top, m, first)
<1> DEFINE dir == Directory(m, first)
<1>1. dir = [i \in 0..top |-> [j \in 0 .. (segsize[i] - 1) |-> first[Base[i] + j]]]
  BY MaskOf DEF Directory
<1>2. ASSUME NEW i \in 0..top  PROVE dir[i] \in Segment(i)
  <2>1. \A j \in 0 .. (segsize[i] - 1) : first[Base[i] + j] \in Links
    BY SegmentSlot DEF Firsts
  <2> HIDE DEF dir
  <2> QED  BY <1>1, <2>1 DEF Segment
<1>3. ASSUME NEW n \in 0..m
      PROVE  dir[SegOf[n]][n - Base[SegOf[n]]] = first[n]
  <2> DEFINE i == SegOf[n]
             j == n - Base[i]
  <2>1. i \in 0..top /\ i \in Segs /\ j \in 0 .. (segsize[i] - 1)
    BY SlotSegment
  <2>2. Base[i] \in Nat /\ n \in Int
    <3>1. m \in Nat  BY MaskOf
    <3> QED  BY <2>1, <3>1, Totals
  <2>3. Base[i] + j = n  BY <2>2
  <2> HIDE DEF i, j, dir
  <2>4. dir[i][j] = first[Base[i] + j]  BY <1>1, <2>1
  <2>5. dir[i][j] = first[n]  BY <2>3, <2>4
  <2> QED  BY <2>5 DEF i, j
<1>4. dir \in [0..top -> UNION {Segment(i) : i \in Segs}]
  <2>1. \A i \in 0..top : i \in Segs  BY HashAssumption DEF Segs
  <2> HIDE DEF dir
  <2>2. \A i \in 0..top : dir[i] \in UNION {Segment(k) : k \in Segs}  BY <1>2, <2>1
  <2>3. dir = [i \in 0..top |-> dir[i]]  BY <1>1
  <2> QED  BY <2>2, <2>3
<1> QED  BY <1>2, <1>3, <1>4 DEF Fits

\* A directory made for a mask, and links made for the same blocks.
LEMMA NewDirectory ==
    ASSUME NEW h \in Structures, NEW top \in Segs, NEW m, m = Total[top] - 1,
           NEW first \in Firsts(m), NEW clink \in LinksOf(DOMAIN h.clink)
    PROVE  Remade([h EXCEPT !.mask = m, !.hdir = Directory(m, first), !.clink = clink],
                  h, top, m, first, clink)
<1> DEFINE dir == Directory(m, first)
           g == [h EXCEPT !.mask = m, !.hdir = dir, !.clink = clink]
<1>1. /\ dir \in [0..top -> UNION {Segment(i) : i \in Segs}]
      /\ \A i \in 0..top : dir[i] \in Segment(i)
      /\ \A n \in 0..m : dir[SegOf[n]][n - Base[SegOf[n]]] = first[n]
  <2>1. Fits(dir, top, m, first)  BY DirectorySlots
  <2> HIDE DEF dir
  <2> QED  BY <2>1 DEF Fits
<1> HIDE DEF dir
<1>2. m \in Nat  BY MaskOf
<1>4. g.mask = m /\ g.hdir = dir /\ g.clink = clink /\ g.size = h.size
  BY DEF Structures
<1>6. g \in Structures
  <2>1. DOMAIN h.clink \in SUBSET AllBlocks  BY StructureParts
  <2>2. dir \in UNION {[0..k -> UNION {Segment(i) : i \in Segs}] : k \in Segs}  BY <1>1
  <2>3. clink \in UNION {[D -> Links] : D \in SUBSET AllBlocks}  BY <2>1 DEF LinksOf
  <2> QED  BY <1>2, <2>2, <2>3 DEF Structures
<1> HIDE DEF g
<1>7. Shaped(g, top)  BY <1>1, <1>4, <1>6 DEF Shaped
<1>8. \A n \in 0..m : Slot(g, n) = first[n]  BY <1>1, <1>4 DEF Slot
<1>9. Remade(g, h, top, m, first, clink)  BY <1>4, <1>7, <1>8 DEF Remade
<1> QED  BY <1>9 DEF g, dir

\* The mask of the next segment takes one more bit of the hash numbers.
LEMMA DoubledMask ==
    ASSUME NEW top \in Segs, top + 1 \in Segs, NEW m, m = Total[top] - 1
    PROVE  /\ 2 * m + 1 = Total[top + 1] - 1 /\ m \in Nat
           /\ \A x \in Nat : /\ And(x, m) \in 0..m
                             /\ \/ And(x, 2 * m + 1) = And(x, m)
                                \/ And(x, 2 * m + 1) = And(x, m) + m + 1
<1>1. Total[top + 1] = 2 * Total[top] /\ Total[top] \in Nat \ {0, 1}  BY Totals
<1>2. \A x \in Nat : And(x, m) \in 0..m  BY MaskOf
<1>3. ASSUME NEW x \in Nat
      PROVE  \/ And(x, 2 * m + 1) = And(x, m)
             \/ And(x, 2 * m + 1) = And(x, m) + m + 1
  <2>1. x % (2 * Total[top]) = x % Total[top] \/ x % (2 * Total[top]) = (x % Total[top]) + Total[top]
    BY <1>1, NextBit
  <2>2. m + 1 = Total[top] /\ (2 * m + 1) + 1 = 2 * Total[top]  BY <1>1
  <2>3. And(x, m) = x % Total[top] /\ And(x, 2 * m + 1) = x % (2 * Total[top])  BY <2>2 DEF And
  <2>4. And(x, m) \in Int  BY <1>2
  <2> QED  BY <1>1, <2>1, <2>3, <2>4
<1> QED  BY <1>1, <1>2, <1>3

LEMMA GoodGrown ==
    ASSUME NEW h, NEW t, NEW B, Good(hash, h, t, B)
    PROVE  /\ Good(hash, hgrow(h), t, B)
           /\ h.mask <= hgrow(h).mask
           /\ Keeps(hgrow(h), h, DOMAIN h.clink \ B, {})
<1>1. PICK top \in Segs : Shaped(h, top)  BY DEF Good
<1>2. CASE HSegs - 1 \in DOMAIN h.hdir
  <2>1. hgrow(h) = h  BY <1>2 DEF hgrow
  <2>2. h.mask \in Nat  BY GoodFacts, StructureParts
  <2> QED  BY <2>1, <2>2 DEF Keeps
<1>3. CASE HSegs - 1 \notin DOMAIN h.hdir
  <2> DEFINE M == h.mask + 1
             m == 2 * h.mask + 1
             moves == {x \in Blocks(h) : And(HashNum(x), m) >= M}
             stays == Blocks(h) \ moves
             first == [n \in 0..m |-> IF n < M THEN FirstIn(Chain(h, n), stays)
                                      ELSE FirstIn(Chain(h, n - M), moves)]
             clink == [b \in DOMAIN h.clink |->
                         IF b \in moves THEN FirstIn(From(h, h.clink[b]), moves)
                         ELSE IF b \in stays THEN FirstIn(From(h, h.clink[b]), stays)
                         ELSE h.clink[b]]
             g == hgrow(h)
  <2>1. g = [h EXCEPT !.mask = m, !.hdir = Directory(m, first), !.clink = clink]
    BY <1>3 DEF hgrow
  <2>2. /\ Ordered(hash, t, B) /\ h \in Structures /\ B \subseteq DOMAIN h.clink
        /\ h.mask = Total[top] - 1 /\ DOMAIN h.hdir = 0..top
        /\ h.clink \in [DOMAIN h.clink -> Links] /\ Blocks(h) = B
    <3>1. h \in Structures  BY GoodFacts
    <3> QED  BY <1>1, <3>1, GoodFacts, GoodBlocks, StructureParts DEF Shaped
  <2>3. top + 1 \in Segs
    <3>1. top \in 0 .. (HSegs - 1) /\ HSegs \in Nat  BY HashAssumption DEF Segs
    <3> QED  BY <1>3, <2>2, <3>1 DEF Segs
  <2>4. /\ m = Total[top + 1] - 1 /\ h.mask \in Nat
        /\ \A x \in Nat : /\ And(x, h.mask) \in 0..h.mask
                          /\ And(x, m) = And(x, h.mask) \/ And(x, m) = And(x, h.mask) + h.mask + 1
    BY <2>2, <2>3, DoubledMask
  <2> HIDE DEF m
  <2>5. \A b \in B : HashNum(b) = hash[Key(b)] /\ hash[Key(b)] \in Nat
    BY <2>2, BlockFacts DEF HashNum
  <2>6. /\ moves = {x \in B : And(hash[Key(x)], m) >= M}
        /\ stays = {x \in B : And(hash[Key(x)], m) < M}
    <3>1. \A x \in B : And(hash[Key(x)], m) \in Nat /\ M \in Nat  BY <2>4, <2>5
    <3> QED  BY <2>2, <2>5, <3>1
  <2> HIDE DEF moves, stays
  <2>7. \A n \in 0..m : InSlot(hash, B, m, n) =
             IF n < M THEN InSlot(hash, B, h.mask, n) \cap stays
             ELSE InSlot(hash, B, h.mask, n - M) \cap moves
    <3> TAKE n \in 0..m
    <3> SUFFICES ASSUME NEW b \in B
                 PROVE  And(hash[Key(b)], m) = n <=>
                          IF n < M THEN And(hash[Key(b)], h.mask) = n /\ And(hash[Key(b)], m) < M
                          ELSE And(hash[Key(b)], h.mask) = n - M /\ And(hash[Key(b)], m) >= M
      BY <2>6 DEF InSlot
    <3>1. hash[Key(b)] \in Nat  BY <2>5
    <3>2. /\ And(hash[Key(b)], h.mask) \in 0..h.mask
          /\ \/ And(hash[Key(b)], m) = And(hash[Key(b)], h.mask)
             \/ And(hash[Key(b)], m) = And(hash[Key(b)], h.mask) + h.mask + 1
      BY <2>4, <3>1
    <3>3. n \in Int /\ h.mask \in Nat  BY <2>4
    <3> QED  BY <3>2, <3>3
  <2>8. \A b \in B : Rest(hash, t, B, m, b) =
             Rest(hash, t, B, h.mask, b) \cap (IF b \in moves THEN moves ELSE stays)
    <3> TAKE b \in B
    <3> SUFFICES ASSUME NEW y \in B
                 PROVE  And(hash[Key(y)], m) = And(hash[Key(b)], m) <=>
                          /\ And(hash[Key(y)], h.mask) = And(hash[Key(b)], h.mask)
                          /\ IF And(hash[Key(b)], m) >= M THEN And(hash[Key(y)], m) >= M
                             ELSE And(hash[Key(y)], m) < M
      BY <2>6 DEF Rest, Later, InSlot
    <3>1. hash[Key(b)] \in Nat /\ hash[Key(y)] \in Nat  BY <2>5
    <3>2. /\ And(hash[Key(b)], h.mask) \in 0..h.mask
          /\ \/ And(hash[Key(b)], m) = And(hash[Key(b)], h.mask)
             \/ And(hash[Key(b)], m) = And(hash[Key(b)], h.mask) + h.mask + 1
      BY <2>4, <3>1
    <3>3. /\ And(hash[Key(y)], h.mask) \in 0..h.mask
          /\ \/ And(hash[Key(y)], m) = And(hash[Key(y)], h.mask)
             \/ And(hash[Key(y)], m) = And(hash[Key(y)], h.mask) + h.mask + 1
      BY <2>4, <3>1
    <3> QED  BY <2>4, <3>2, <3>3
  <2>9. ASSUME NEW n \in 0..m  PROVE IsFirst(hash, t, InSlot(hash, B, m, n), first[n])
    <3>1. CASE n < M
      <4> DEFINE S == InSlot(hash, B, h.mask, n)
                 c == Chain(h, n)
      <4>1. n \in 0..h.mask  BY <2>4, <3>1
      <4>2. Enumerates(hash, t, S, c) /\ S \in SUBSET B  BY <4>1, GoodChain DEF InSlot
      <4>3. first[n] = FirstIn(c, stays) /\ InSlot(hash, B, m, n) = S \cap stays
        BY <2>7, <3>1
      <4> HIDE DEF S, c, first
      <4> QED  BY <2>2, <4>2, <4>3, FirstInList
    <3>2. CASE ~(n < M)
      <4> DEFINE S == InSlot(hash, B, h.mask, n - M)
                 c == Chain(h, n - M)
      <4>1. n - M \in 0..h.mask  BY <2>4, <3>2 DEF m
      <4>2. Enumerates(hash, t, S, c) /\ S \in SUBSET B  BY <4>1, GoodChain DEF InSlot
      <4>3. first[n] = FirstIn(c, moves) /\ InSlot(hash, B, m, n) = S \cap moves
        BY <2>7, <3>2
      <4> HIDE DEF S, c, first
      <4> QED  BY <2>2, <4>2, <4>3, FirstInList
    <3> QED  BY <3>1, <3>2
  <2>10. ASSUME NEW b \in B  PROVE IsFirst(hash, t, Rest(hash, t, B, m, b), clink[b])
    <3> DEFINE S == Rest(hash, t, B, h.mask, b)
               c == From(h, h.clink[b])
               Q == IF b \in moves THEN moves ELSE stays
    <3>1. Enumerates(hash, t, S, c) /\ S \in SUBSET B  BY GoodRest DEF Rest, Later, InSlot
    <3>2. b \in moves \/ b \in stays  BY <2>2 DEF stays
    <3>3. clink[b] = FirstIn(c, Q) /\ Rest(hash, t, B, m, b) = S \cap Q
      BY <2>2, <2>8, <3>2
    <3> HIDE DEF S, c, Q, clink
    <3> QED  BY <2>2, <3>1, <3>3, FirstInList
  <2>11. /\ first \in [0..m -> Links]
         /\ clink \in [DOMAIN h.clink -> Links]
    <3>1. \A n \in 0..m : first[n] \in Links
      <4> TAKE n \in 0..m
      <4>1. IsFirst(hash, t, InSlot(hash, B, m, n), first[n]) /\ InSlot(hash, B, m, n) \in SUBSET B
        BY <2>9 DEF InSlot
      <4> DEFINE S == InSlot(hash, B, m, n)
                 e == first[n]
      <4>2. IsFirst(hash, t, S, e) /\ S \in SUBSET B  BY <4>1
      <4> HIDE DEF first, S, e
      <4>3. e \in Links  BY <2>2, <4>2, FirstNull DEF Links
      <4> QED  BY <4>3 DEF e
    <3>2. \A b \in DOMAIN h.clink : clink[b] \in Links
      <4> TAKE b \in DOMAIN h.clink
      <4>1. CASE b \in B
        <5>1. IsFirst(hash, t, Rest(hash, t, B, m, b), clink[b]) /\ Rest(hash, t, B, m, b) \in SUBSET B
          BY <2>10, <4>1 DEF Rest, Later, InSlot
        <5> DEFINE S == Rest(hash, t, B, m, b)
                   e == clink[b]
        <5>2. IsFirst(hash, t, S, e) /\ S \in SUBSET B  BY <5>1
        <5> HIDE DEF clink, S, e
        <5>3. Ordered(hash, t, B)  BY <2>2
        <5>4. e \in AllBlocks \cup {Null}  BY <5>2, <5>3, FirstNull
        <5> QED  BY <5>4 DEF e, Links
      <4>2. CASE b \notin B
        <5>1. clink[b] = h.clink[b]  BY <2>6, <4>2
        <5> HIDE DEF clink
        <5> QED  BY <2>2, <5>1
      <4> QED  BY <4>1, <4>2
    <3>3. first = [n \in 0..m |-> first[n]] /\ clink = [b \in DOMAIN h.clink |-> clink[b]]
      OBVIOUS
    <3> HIDE DEF first, clink
    <3> QED  BY <3>1, <3>2, <3>3
  <2>12. DOMAIN clink = DOMAIN h.clink  OBVIOUS
  <2> HIDE DEF first, clink, g
  <2>13. /\ Shaped(g, top + 1) /\ g.size = h.size /\ g.mask = m /\ g.clink = clink
         /\ \A n \in 0..m : Slot(g, n) = first[n]
    <3> DEFINE up == top + 1
    <3>1. h \in Structures /\ up \in Segs /\ m = Total[up] - 1  BY <2>2, <2>3, <2>4
    <3>2. first \in Firsts(m) /\ clink \in LinksOf(DOMAIN h.clink)  BY <2>11 DEF Firsts, LinksOf
    <3> HIDE DEF up
    <3>3. Remade(g, h, up, m, first, clink)  BY <2>1, <3>1, <3>2, NewDirectory
    <3> QED  BY <3>3 DEF Remade, up
  <2>14. Linked(hash, g, t, B)  BY <2>9, <2>10, <2>13 DEF Linked
  <2>15. Good(hash, g, t, B)  BY <2>2, <2>3, <2>12, <2>13, <2>14 DEF Good
  <2>16. h.mask <= g.mask  BY <2>4, <2>13 DEF m
  <2>17. \A d \in DOMAIN h.clink \ B : clink[d] = h.clink[d]  BY <2>6 DEF clink
  <2>18. Keeps(g, h, DOMAIN h.clink \ B, {})  BY <2>12, <2>13, <2>17 DEF Keeps
  <2> QED  BY <2>15, <2>16, <2>18 DEF g
<1> QED  BY <1>2, <1>3

LEMMA SoonerFirst ==
    ASSUME NEW t, NEW B, Ordered(hash, t, B), NEW S \in SUBSET B, NEW R \in SUBSET B,
           NEW lo, NEW up, IsFirst(hash, t, S, lo), IsFirst(hash, t, R, up),
           \A x \in S, y \in R : hash[Key(x)] # hash[Key(y)]
    PROVE  IsFirst(hash, t, S \cup R, Sooner(lo, up))
<1>1. \A x \in B : hash[Key(x)] \in Nat /\ HashNum(x) = hash[Key(x)] /\ x # Null
  BY BlockFacts DEF HashNum
<1>2. CASE S = {} \/ R = {}
  <2>1. (S = {} <=> lo = Null) /\ (R = {} <=> up = Null)  BY FirstNull
  <2>2. S = {} => Sooner(lo, up) = up /\ S \cup R = R  BY <2>1 DEF Sooner
  <2>3. R = {} => Sooner(lo, up) = (IF lo = Null THEN up ELSE lo) /\ S \cup R = S
    BY <2>1 DEF Sooner
  <2> QED  BY <1>2, <2>1, <2>2, <2>3
<1>3. CASE S # {} /\ R # {}
  <2>1. /\ lo \in S /\ up \in R /\ lo \in B /\ up \in B
        /\ \A x \in S \ {lo} : Before(hash, t, lo, x)
        /\ \A x \in R \ {up} : Before(hash, t, up, x)
    BY <1>3 DEF IsFirst
  <2>2. lo # Null /\ up # Null /\ hash[Key(lo)] # hash[Key(up)]  BY <1>1, <2>1
  <2>3. \A x \in S : hash[Key(lo)] <= hash[Key(x)]  BY <1>1, <2>1 DEF Before
  <2>4. \A x \in R : hash[Key(up)] <= hash[Key(x)]  BY <1>1, <2>1 DEF Before
  <2>5. CASE hash[Key(lo)] < hash[Key(up)]
    <3>1. Sooner(lo, up) = lo  BY <1>1, <2>1, <2>2, <2>5 DEF Sooner
    <3>2. \A x \in R : Before(hash, t, lo, x)  BY <1>1, <2>1, <2>4, <2>5 DEF Before
    <3> QED  BY <2>1, <3>1, <3>2 DEF IsFirst
  <2>6. CASE ~(hash[Key(lo)] < hash[Key(up)])
    <3>1. Sooner(lo, up) = up  BY <1>1, <2>1, <2>2, <2>6 DEF Sooner
    <3>2. \A x \in S : Before(hash, t, up, x)  BY <1>1, <2>1, <2>2, <2>3, <2>6 DEF Before
    <3> QED  BY <2>1, <3>1, <3>2 DEF IsFirst
  <2> QED  BY <2>5, <2>6
<1> QED  BY <1>2, <1>3

LEMMA GoodCombined ==
    ASSUME NEW h, NEW t, NEW B, Good(hash, h, t, B), 1 \in DOMAIN h.hdir
    PROVE  Good(hash, Combined(h), t, B)
<1> DEFINE m == h.mask \div 2
           upper == {x \in Blocks(h) : And(HashNum(x), h.mask) > m}
           lower == Blocks(h) \ upper
           first == [n \in 0..m |-> Sooner(Slot(h, n), Slot(h, n + m + 1))]
           above(b) == {x \in upper : HashNum(x) > HashNum(b)}
           below(b) == {x \in lower : HashNum(x) >= HashNum(b)}
           clink == [b \in DOMAIN h.clink |->
               IF b \in lower
               THEN Sooner(h.clink[b], FirstIn(Chain(h, And(HashNum(b), m) + m + 1), above(b)))
               ELSE IF b \in upper
               THEN Sooner(FirstIn(Chain(h, And(HashNum(b), m)), below(b)), h.clink[b])
               ELSE h.clink[b]]
           g == Combined(h)
<1>1. PICK top \in Segs : Shaped(h, top)  BY DEF Good
<1>2. g = [h EXCEPT !.mask = m, !.hdir = Directory(m, first), !.clink = clink]  BY DEF Combined
<1>3. /\ Ordered(hash, t, B) /\ h \in Structures /\ B \subseteq DOMAIN h.clink
      /\ h.mask = Total[top] - 1 /\ DOMAIN h.hdir = 0..top
      /\ h.clink \in [DOMAIN h.clink -> Links] /\ Blocks(h) = B
  <2>1. h \in Structures  BY GoodFacts
  <2> QED  BY <1>1, <2>1, GoodFacts, GoodBlocks, StructureParts DEF Shaped
<1> DEFINE low == top - 1
<1>4. low \in Segs /\ low + 1 = top
  <2>1. Segs = 0 .. (HSegs - 1) /\ HSegs \in Nat  BY HashAssumption DEF Segs
  <2> QED  BY <1>3, <2>1
<1> HIDE DEF low
<1>5. m = Total[low] - 1 /\ h.mask = 2 * m + 1 /\ m \in Nat
  <2>1. Total[low + 1] = 2 * Total[low] /\ Total[low] \in Nat \ {0, 1}  BY <1>4, Totals
  <2> QED  BY <1>3, <1>4, <2>1
<1> HIDE DEF m
<1>6. \A x \in Nat : /\ And(x, m) \in 0..m
                     /\ And(x, h.mask) = And(x, m) \/ And(x, h.mask) = And(x, m) + m + 1
  BY <1>4, <1>5, DoubledMask
<1>7. \A b \in B : HashNum(b) = hash[Key(b)] /\ hash[Key(b)] \in Nat
  BY <1>3, BlockFacts DEF HashNum
<1>8. \A b \in B : /\ And(hash[Key(b)], m) \in 0..m
                  /\ \/ And(hash[Key(b)], h.mask) = And(hash[Key(b)], m)
                     \/ And(hash[Key(b)], h.mask) = And(hash[Key(b)], m) + m + 1
  BY <1>6, <1>7
<1>9. /\ upper = {x \in B : And(hash[Key(x)], h.mask) > m}
      /\ lower = {x \in B : And(hash[Key(x)], h.mask) <= m}
  <2>1. \A b \in B : And(hash[Key(b)], h.mask) \in Int /\ m \in Int
    <3> HIDE DEF upper, lower, first, clink, g
    <3> QED  BY <1>5, <1>8
  <2>2. upper = {x \in B : And(hash[Key(x)], h.mask) > m}  BY <1>3, <1>7
  <2>3. lower = {x \in B : ~(And(hash[Key(x)], h.mask) > m)}  BY <1>3, <1>7
  <2> HIDE DEF upper, lower, first, clink, g
  <2> QED  BY <2>1, <2>2, <2>3
<1> HIDE DEF upper, lower
<1>10. ASSUME NEW n \in 0..m  PROVE IsFirst(hash, t, InSlot(hash, B, m, n), first[n])
  <2> DEFINE S == InSlot(hash, B, h.mask, n)
             R == InSlot(hash, B, h.mask, n + m + 1)
             lo == Slot(h, n)
             up == Slot(h, n + m + 1)
  <2>1. n \in 0..h.mask /\ n + m + 1 \in 0..h.mask  BY <1>5
  <2>2. IsFirst(hash, t, S, lo) /\ IsFirst(hash, t, R, up)  BY <2>1 DEF Good, Linked
  <2>3. S \in SUBSET B /\ R \in SUBSET B  BY DEF InSlot
  <2>4. \A x \in S, y \in R : hash[Key(x)] # hash[Key(y)]
    <3>1. n # n + m + 1  BY <1>5
    <3> QED  BY <3>1 DEF InSlot
  <2>5. InSlot(hash, B, m, n) = S \cup R
    <3> SUFFICES ASSUME NEW b \in B
                 PROVE  And(hash[Key(b)], m) = n <=>
                          \/ And(hash[Key(b)], h.mask) = n
                          \/ And(hash[Key(b)], h.mask) = n + m + 1
      BY DEF InSlot
    <3> QED  BY <1>5, <1>8
  <2>6. first[n] = Sooner(lo, up)  OBVIOUS
  <2> HIDE DEF S, R, lo, up, first
  <2> QED  BY <1>3, <2>2, <2>3, <2>4, <2>5, <2>6, SoonerFirst
<1>11. ASSUME NEW b \in B  PROVE IsFirst(hash, t, Rest(hash, t, B, m, b), clink[b])
  <2> DEFINE n == And(hash[Key(b)], m)
             L == Rest(hash, t, B, h.mask, b)
             e == h.clink[b]
  <2>1. IsFirst(hash, t, L, e) /\ L \in SUBSET B  BY DEF Good, Linked, Rest, Later, InSlot
  <2>2. n \in 0..m /\ n \in 0..h.mask /\ n + m + 1 \in 0..h.mask /\ n # n + m + 1
    BY <1>5, <1>8
  <2>3. HashNum(b) = hash[Key(b)]  BY <1>7
  <2>4. CASE b \in lower
    <3> DEFINE S == InSlot(hash, B, h.mask, n + m + 1)
               c == Chain(h, n + m + 1)
               Q == above(b)
               R == S \cap Q
               o == FirstIn(c, Q)
    <3>1. And(hash[Key(b)], h.mask) = n  BY <1>5, <1>8, <1>9, <2>4
    <3>2. Enumerates(hash, t, S, c) /\ S \in SUBSET B  BY <2>2, GoodChain DEF InSlot
    <3>3. clink[b] = Sooner(e, o)  BY <1>3, <2>3, <2>4
    <3>4. \A x \in L, y \in R : hash[Key(x)] # hash[Key(y)]
      BY <2>2, <3>1 DEF Rest, Later, InSlot
    <3>5. Rest(hash, t, B, m, b) = L \cup R
      <4> SUFFICES ASSUME NEW y \in B
                   PROVE  And(hash[Key(y)], m) = n /\ Before(hash, t, b, y) <=>
                            \/ And(hash[Key(y)], h.mask) = n /\ Before(hash, t, b, y)
                            \/ /\ And(hash[Key(y)], h.mask) = n + m + 1
                               /\ y \in upper /\ HashNum(y) > HashNum(b)
        BY <3>1 DEF Rest, Later, InSlot
      <4>1. And(hash[Key(y)], m) = n <=>
               And(hash[Key(y)], h.mask) = n \/ And(hash[Key(y)], h.mask) = n + m + 1
        BY <1>5, <1>8, <2>2
      <4>2. ASSUME And(hash[Key(y)], h.mask) = n + m + 1
            PROVE  y \in upper /\ (Before(hash, t, b, y) <=> HashNum(y) > HashNum(b))
        <5>1. y \in upper  BY <1>5, <1>9, <2>2, <4>2
        <5>2. hash[Key(y)] # hash[Key(b)]  BY <2>2, <3>1, <4>2
        <5> QED  BY <1>7, <5>1, <5>2 DEF Before
      <4> QED  BY <4>1, <4>2
    <3> HIDE DEF S, c, Q, clink, L, e
    <3>6. IsFirst(hash, t, R, o)  BY <1>3, <3>2, FirstInList
    <3>7. R \in SUBSET B  BY <3>2
    <3> HIDE DEF R, o
    <3> QED  BY <1>3, <2>1, <3>3, <3>4, <3>5, <3>6, <3>7, SoonerFirst
  <2>5. CASE b \notin lower
    <3> DEFINE S == InSlot(hash, B, h.mask, n)
               c == Chain(h, n)
               Q == below(b)
               R == S \cap Q
               o == FirstIn(c, Q)
    <3>1. And(hash[Key(b)], h.mask) = n + m + 1 /\ b \in upper
      BY <1>5, <1>8, <1>9, <2>5
    <3>2. Enumerates(hash, t, S, c) /\ S \in SUBSET B  BY <2>2, GoodChain DEF InSlot
    <3>3. clink[b] = Sooner(o, e)  BY <1>3, <2>3, <2>5, <3>1
    <3>4. \A x \in R, y \in L : hash[Key(x)] # hash[Key(y)]
      BY <2>2, <3>1 DEF Rest, Later, InSlot
    <3>5. Rest(hash, t, B, m, b) = R \cup L
      <4> SUFFICES ASSUME NEW y \in B
                   PROVE  And(hash[Key(y)], m) = n /\ Before(hash, t, b, y) <=>
                            \/ And(hash[Key(y)], h.mask) = n + m + 1 /\ Before(hash, t, b, y)
                            \/ /\ And(hash[Key(y)], h.mask) = n
                               /\ y \in lower /\ HashNum(y) >= HashNum(b)
        BY <3>1 DEF Rest, Later, InSlot
      <4>1. And(hash[Key(y)], m) = n <=>
               And(hash[Key(y)], h.mask) = n \/ And(hash[Key(y)], h.mask) = n + m + 1
        BY <1>5, <1>8, <2>2
      <4>2. ASSUME And(hash[Key(y)], h.mask) = n
            PROVE  y \in lower /\ (Before(hash, t, b, y) <=> HashNum(y) >= HashNum(b))
        <5>1. y \in lower  BY <1>5, <1>9, <2>2, <4>2
        <5>2. hash[Key(y)] # hash[Key(b)]  BY <2>2, <3>1, <4>2
        <5> QED  BY <1>7, <5>1, <5>2 DEF Before
      <4> QED  BY <4>1, <4>2
    <3> HIDE DEF S, c, Q, clink, L, e
    <3>6. IsFirst(hash, t, R, o)  BY <1>3, <3>2, FirstInList
    <3>7. R \in SUBSET B  BY <3>2
    <3> HIDE DEF R, o
    <3> QED  BY <1>3, <2>1, <3>3, <3>4, <3>5, <3>6, <3>7, SoonerFirst
  <2> QED  BY <2>4, <2>5
<1>12. first \in Firsts(m) /\ clink \in LinksOf(DOMAIN h.clink)
  <2>1. \A n \in 0..m : first[n] \in Links
    <3> TAKE n \in 0..m
    <3> DEFINE S == InSlot(hash, B, m, n)
               e == first[n]
    <3>1. IsFirst(hash, t, S, e) /\ S \in SUBSET B  BY <1>10 DEF InSlot
    <3> HIDE DEF first, S, e
    <3>2. Ordered(hash, t, B)  BY <1>3
    <3>3. e \in AllBlocks \cup {Null}  BY <3>1, <3>2, FirstNull
    <3> QED  BY <3>3 DEF e, Links
  <2>2. \A b \in DOMAIN h.clink : clink[b] \in Links
    <3> TAKE b \in DOMAIN h.clink
    <3>1. CASE b \in B
      <4> DEFINE S == Rest(hash, t, B, m, b)
                 e == clink[b]
      <4>1. IsFirst(hash, t, S, e) /\ S \in SUBSET B  BY <1>11, <3>1 DEF Rest, Later, InSlot
      <4> HIDE DEF clink, S, e
      <4>2. Ordered(hash, t, B)  BY <1>3
      <4>3. e \in AllBlocks \cup {Null}  BY <4>1, <4>2, FirstNull
      <4> QED  BY <4>3 DEF e, Links
    <3>2. CASE b \notin B
      <4>1. clink[b] = h.clink[b]  BY <1>9, <3>2
      <4> HIDE DEF clink
      <4> QED  BY <1>3, <4>1
    <3> QED  BY <3>1, <3>2
  <2>3. first = [n \in 0..m |-> first[n]] /\ clink = [b \in DOMAIN h.clink |-> clink[b]]
    OBVIOUS
  <2> HIDE DEF first, clink
  <2> QED  BY <2>1, <2>2, <2>3 DEF Firsts, LinksOf
<1>13. DOMAIN clink = DOMAIN h.clink  OBVIOUS
<1> HIDE DEF first, clink, g
<1>14. Remade(g, h, low, m, first, clink)  BY <1>2, <1>3, <1>4, <1>5, <1>12, NewDirectory
<1>15. /\ Shaped(g, low) /\ g.size = h.size /\ g.mask = m /\ g.clink = clink
       /\ \A n \in 0..m : Slot(g, n) = first[n]
  BY <1>14 DEF Remade
<1>16. Linked(hash, g, t, B)  BY <1>10, <1>11, <1>15 DEF Linked
<1>17. Good(hash, g, t, B)  BY <1>3, <1>4, <1>13, <1>15, <1>16 DEF Good
<1> QED  BY <1>17 DEF g

LEMMA GoodShrunk ==
    ASSUME NEW h, NEW t, NEW B, Good(hash, h, t, B)
    PROVE  Good(hash, hshrink(h), t, B)
<1> DEFINE A == {g \in Structures : Good(hash, g, t, B)}
           Step(g) == IF TooSparse(g) THEN Combined(g) ELSE g
           G == [i \in 1..HSegs |-> [g \in A |-> Step(g)]]
           W == CHOOSE shrunk : shrunk = [k \in 0..HSegs |->
                   IF k = 0 THEN h ELSE Step(shrunk[k - 1])]
<1>1. HSegs \in Nat  BY HashAssumption
<1>2. hshrink(h) = W[HSegs]  BY DEF hshrink
<1>3. ASSUME NEW g \in A  PROVE Step(g) \in A
  <2>1. CASE TooSparse(g)
    <3>1. Good(hash, Combined(g), t, B)  BY <2>1, GoodCombined DEF TooSparse
    <3>2. Combined(g) \in Structures  BY <3>1, GoodFacts
    <3> QED  BY <2>1, <3>1, <3>2
  <2>2. CASE ~ TooSparse(g)  BY <2>2
  <2> QED  BY <2>1, <2>2
<1>4. h \in A  BY GoodFacts
<1>5. G \in [1..HSegs -> [A -> A]]
  <2> HIDE DEF A, Step
  <2> QED  BY <1>3
<1> HIDE DEF A
<1>6. PICK f : Iterates(f, HSegs, A, h, G)
  <2> HIDE DEF G
  <2> QED  BY <1>1, <1>4, <1>5, RecursionExists
<1>7. /\ f \in [0..HSegs -> A] /\ f[0] = h
      /\ \A i \in 1..HSegs : f[i] = Step(f[i - 1])
  <2>1. f \in [0..HSegs -> A] /\ f[0] = h /\ \A i \in 1..HSegs : f[i] = G[i][f[i - 1]]
    <3> HIDE DEF G
    <3> QED  BY <1>6 DEF Iterates
  <2>2. \A i \in 1..HSegs : f[i - 1] \in A
    <3> HIDE DEF G
    <3> QED  BY <1>1, <2>1
  <2> HIDE DEF Step
  <2> QED  BY <2>1, <2>2
<1> HIDE DEF Step, G
<1>8. f = [k \in 0..HSegs |-> IF k = 0 THEN h ELSE Step(f[k - 1])]
  <2>1. \A k \in 0..HSegs : f[k] = IF k = 0 THEN h ELSE Step(f[k - 1])  BY <1>1, <1>7
  <2> QED  BY <1>7, <2>1
<1>9. W = [k \in 0..HSegs |-> IF k = 0 THEN h ELSE Step(W[k - 1])]  BY <1>8 DEF W
<1> HIDE DEF W
<1> DEFINE T == {k \in 0..HSegs : W[k] \notin A}
<1>10. ASSUME T # {}  PROVE FALSE
  <2>1. T \in SUBSET Nat  BY <1>1
  <2>2. PICK k \in T : \A j \in T : k <= j
    <3> HIDE DEF T
    <3> QED  BY <1>10, <2>1, LeastNat
  <2>3. k \in 0..HSegs /\ W[k] \notin A  OBVIOUS
  <2>4. k # 0  BY <1>4, <1>9, <2>3
  <2>5. k - 1 \in 0..HSegs /\ ~(k <= k - 1)  BY <1>1, <2>3, <2>4
  <2>6. W[k - 1] \in A  BY <2>2, <2>5
  <2>7. W[k] = Step(W[k - 1])  BY <1>9, <2>3, <2>4
  <2> QED  BY <1>3, <2>3, <2>6, <2>7 DEF Step
<1>11. W[HSegs] \in A
  <2>1. HSegs \in 0..HSegs  BY <1>1
  <2> QED  BY <1>10, <2>1
<1> QED  BY <1>2, <1>11 DEF A
-----------------------------------------------------------------------------
(* Structures and the keys they hold. *)

\* h is sound and holds the keys X.
Holds(f, h, X) ==
    \E B, t : Good(f, h, t, B) /\ X = {Key(b) : b \in B}

LEMMA HmakeHolds ==
    ASSUME NEW nelem \in Nat, hash \in [Keys -> Nat]
    PROVE  Holds(hash, hmake(nelem), {})
<1> DEFINE nslots == (nelem + MaxHLoad - 1) \div MaxHLoad
           enough == {i \in Segs : i = HSegs - 1 \/ Total[i] >= nslots}
           seg == CHOOSE i \in enough : \A j \in enough : i <= j
           m == Total[seg] - 1
           first == [n \in 0..m |-> Null]
           h == hmake(nelem)
           t == [b \in {} |-> 0]
<1>1. h = [size |-> 0, mask |-> m, hdir |-> Directory(m, first), clink |-> [b \in {} |-> Null]]
  BY DEF hmake
<1>2. seg \in Segs
  <2>1. Segs = 0 .. (HSegs - 1) /\ HSegs \in Nat \ {0}  BY HashAssumption DEF Segs
  <2>2. enough \in SUBSET Nat /\ HSegs - 1 \in enough  BY <2>1
  <2>3. enough \subseteq Segs  OBVIOUS
  <2> HIDE DEF enough
  <2>4. \E i \in enough : \A j \in enough : i <= j  BY <2>2, LeastNat
  <2> QED  BY <2>3, <2>4
<1> HIDE DEF seg
<1>3. m = Total[seg] - 1 /\ m \in Nat  BY <1>2, MaskOf
<1>4. first \in Firsts(m)  BY DEF Firsts, Links
<1> HIDE DEF m
<1>5. Fits(Directory(m, first), seg, m, first)
  <2> HIDE DEF first
  <2> QED  BY <1>2, <1>3, <1>4, DirectorySlots
<1> DEFINE dir == Directory(m, first)
<1> HIDE DEF dir
<1>6. /\ dir \in [0..seg -> UNION {Segment(i) : i \in Segs}]
      /\ \A i \in 0..seg : dir[i] \in Segment(i)
      /\ \A n \in 0..m : dir[SegOf[n]][n - Base[SegOf[n]]] = Null
  <2>1. \A n \in 0..m : first[n] = Null  OBVIOUS
  <2> HIDE DEF first
  <2>2. Fits(dir, seg, m, first)  BY <1>5 DEF dir
  <2> QED  BY <2>1, <2>2 DEF Fits
<1>7. h.size = 0 /\ h.mask = m /\ h.hdir = dir /\ DOMAIN h.clink = {}
  BY <1>1 DEF dir
<1>8. h \in Structures
  <2>1. dir \in UNION {[0..k -> UNION {Segment(i) : i \in Segs}] : k \in Segs}  BY <1>2, <1>6
  <2>2. [b \in {} |-> Null] \in UNION {[D -> Links] : D \in SUBSET AllBlocks}
    <3>1. [b \in {} |-> Null] \in [{} -> Links] /\ {} \in SUBSET AllBlocks  OBVIOUS
    <3> QED  BY <3>1
  <2>3. h = [size |-> 0, mask |-> m, hdir |-> dir, clink |-> [b \in {} |-> Null]]
    BY <1>1 DEF dir
  <2> HIDE DEF h
  <2> QED  BY <1>3, <2>1, <2>2, <2>3 DEF Structures
<1> HIDE DEF h, first
<1>9. Shaped(h, seg)  BY <1>3, <1>6, <1>7, <1>8 DEF Shaped
<1>10. Ordered(hash, t, {})
  <2>1. t \in [{} -> Nat] /\ 0 \in Nat  OBVIOUS
  <2> HIDE DEF t
  <2> QED  BY <2>1 DEF Ordered
<1>11. Cardinality({}) = 0  BY FS_EmptySet
<1>12. Linked(hash, h, t, {})
  <2>1. \A n \in 0..m : Slot(h, n) = Null  BY <1>6, <1>7 DEF Slot
  <2> QED  BY <1>7, <2>1 DEF Linked, IsFirst, InSlot
<1> HIDE DEF t
<1>13. Good(hash, h, t, {})  BY <1>2, <1>7, <1>9, <1>10, <1>11, <1>12 DEF Good
<1>14. {} = {Key(b) : b \in {}}  OBVIOUS
<1>15. Holds(hash, h, {})  BY <1>13, <1>14 DEF Holds
<1> QED  BY <1>15 DEF h

\* What becomes of a structure after an operation holds what it held before.
LEMMA KeptHolds ==
    ASSUME NEW h, NEW X, Holds(hash, h, X), NEW e
    PROVE  Holds(hash, Kept(h, e), X)
<1>1. PICK B, t : Good(hash, h, t, B) /\ X = {Key(b) : b \in B}  BY DEF Holds
<1>2. Good(hash, Kept(h, e), t, B)  BY <1>1, GoodKept
<1> QED  BY <1>1, <1>2 DEF Holds

LEMMA ShrunkHolds ==
    ASSUME NEW h, NEW X, Holds(hash, h, X)
    PROVE  Holds(hash, hshrink(h), X)
<1>1. PICK B, t : Good(hash, h, t, B) /\ X = {Key(b) : b \in B}  BY DEF Holds
<1>2. Good(hash, hshrink(h), t, B)  BY <1>1, GoodShrunk
<1> QED  BY <1>1, <1>2 DEF Holds

LEMMA EnlargedHolds ==
    ASSUME NEW h, NEW X, Holds(hash, h, X)
    PROVE  Holds(hash, Enlarged(h), X)
<1>1. PICK B, t : Good(hash, h, t, B) /\ X = {Key(b) : b \in B}  BY DEF Holds
<1>2. Good(hash, hgrow(h), t, B)  BY <1>1, GoodGrown
<1>3. Good(hash, Enlarged(h), t, B)  BY <1>1, <1>2 DEF Enlarged
<1> QED  BY <1>1, <1>3 DEF Holds

\* addmem() for a key that memb() does not find.
LEMMA AddedHolds ==
    ASSUME NEW h, NEW X, Holds(hash, h, X), NEW b \in AllBlocks, Key(b) \notin X
    PROVE  Holds(hash, addmem(h, b, memb(h, Key(b))), X \cup {Key(b)})
<1> DEFINE x == Key(b)
           a == addmem(h, b, memb(h, x))
<1>1. PICK B, t : Good(hash, h, t, B) /\ X = {Key(c) : c \in B}  BY DEF Holds
<1>2. x \in Keys /\ \A c \in B : Key(c) # x  BY <1>1 DEF AllBlocks, Key
<1>3. \E u : Good(hash, a, u, B \cup {b})
  <2>1. Key(b) = x  OBVIOUS
  <2> HIDE DEF x
  <2>2. PICK k \in Nat : \A y \in B : t[y] < k  BY <1>1 DEF Good, Ordered
  <2>3. Good(hash, h, t, B) /\ \A c \in B : Key(c) # x  BY <1>1, <1>2
  <2>4. Good(hash, addmem(h, b, memb(h, x)), Stamped(t, b, k), B \cup {b})
    BY <1>2, <2>1, <2>2, <2>3, GoodAddmem
  <2> QED  BY <2>4
<1>4. X \cup {x} = {Key(c) : c \in B \cup {b}}  BY <1>1
<1> HIDE DEF a, x
<1>5. Holds(hash, a, X \cup {x})  BY <1>3, <1>4 DEF Holds
<1> QED  BY <1>5 DEF a, x

\* memb() finds what the structure holds.
LEMMA MembHolds ==
    ASSUME NEW h, NEW X, Holds(hash, h, X), NEW x \in Keys
    PROVE  /\ memb(h, x).res \in BOOLEAN
           /\ memb(h, x).res <=> x \in X
<1> DEFINE w == memb(h, x)
<1>1. PICK B, t : Good(hash, h, t, B) /\ X = {Key(c) : c \in B}  BY DEF Holds
<1>2. w.res \in BOOLEAN /\ (w.res <=> \E b \in B : Key(b) = x)
  <2>1. Good(hash, h, t, B)  BY <1>1
  <2> QED  BY <2>1, MembSplits
<1> QED  BY <1>1, <1>2

LEMMA AddNewHolds ==
    ASSUME NEW h, NEW X, Holds(hash, h, X), NEW b \in AllBlocks
    PROVE  Holds(hash, AddNew(h, b), X \cup {Key(b)})
<1>1. Key(b) \in Keys  BY DEF AllBlocks, Key
<1>2. memb(h, Key(b)).res \in BOOLEAN /\ (memb(h, Key(b)).res <=> Key(b) \in X)
  BY <1>1, MembHolds
<1>3. CASE Key(b) \in X
  <2>1. AddNew(h, b) = h /\ X \cup {Key(b)} = X  BY <1>2, <1>3 DEF AddNew
  <2> QED  BY <2>1
<1>4. CASE Key(b) \notin X
  <2>1. AddNew(h, b) = addmem(h, b, memb(h, Key(b)))  BY <1>2, <1>4 DEF AddNew
  <2>2. Holds(hash, addmem(h, b, memb(h, Key(b))), X \cup {Key(b)})  BY <1>4, AddedHolds
  <2> QED  BY <2>1, <2>2
<1> QED  BY <1>3, <1>4

\* The element block of a deleted key is unlinked, and only it.
LEMMA RemovedHolds ==
    ASSUME NEW h, NEW X, Holds(hash, h, X), NEW x \in Keys, memb(h, x).res, NEW e,
           NEW r, r = [Store(h, memb(h, x), h.clink[At(memb(h, x))]) EXCEPT !.size = @ - 1]
    PROVE  Holds(hash, Kept(r, e), X \ {x})
<1> DEFINE w == memb(h, x)
           d == At(w)
<1>1. PICK B, t : Good(hash, h, t, B) /\ X = {Key(c) : c \in B}  BY DEF Holds
<1>2. /\ d \in B /\ Key(d) = x
      /\ Good(hash, [Store(h, w, h.clink[d]) EXCEPT !.size = @ - 1], t, B \ {d})
  <2>1. w = memb(h, x) /\ w.res  OBVIOUS
  <2> HIDE DEF w
  <2> QED  BY <1>1, <2>1, GoodRemoved
<1>3. \E u : Good(hash, r, u, B \ {d})  BY <1>2
<1>4. X \ {x} = {Key(c) : c \in B \ {d}}  BY <1>1, <1>2 DEF Good
<1> HIDE DEF d, w
<1>5. Holds(hash, r, X \ {x})  BY <1>3, <1>4 DEF Holds
<1> QED  BY <1>5, KeptHolds
-----------------------------------------------------------------------------
(* The set operations: what is walked along and collected. *)

\* The keys of the first n blocks of c.
KeysOf(c, n) == {Key(c[i]) : i \in 1..n}

LEMMA CollectHolds ==
    ASSUME NEW h, NEW X, Holds(hash, h, X), NEW c \in Seq(AllBlocks), NEW K
    PROVE  Holds(hash, Collect(h, c, K), X \cup (KeysOf(c, Len(c)) \cap K))
<1> DEFINE n == Len(c)
           A == {g \in Structures : \E Y : Holds(hash, g, Y)}
           Step(g, b) == IF Key(b) \in K THEN AddNew(g, b) ELSE g
           G == [i \in 1..n |-> [g \in A |-> Step(g, c[i])]]
           W == CHOOSE to : to = [k \in 0..n |-> IF k = 0 THEN h ELSE Step(to[k - 1], c[k])]
<1>1. n \in Nat /\ \A i \in 1..n : c[i] \in AllBlocks  OBVIOUS
<1>2. Collect(h, c, K) = W[n]  BY DEF Collect
<1>3. ASSUME NEW g, NEW Y, Holds(hash, g, Y)  PROVE g \in A
  <2>1. g \in Structures  BY <1>3, GoodFacts DEF Holds
  <2> QED  BY <1>3, <2>1
<1>4. ASSUME NEW g, NEW Y, Holds(hash, g, Y), NEW b \in AllBlocks
      PROVE  Holds(hash, Step(g, b), Y \cup ({Key(b)} \cap K))
  <2>1. CASE Key(b) \in K
    <3>1. Holds(hash, AddNew(g, b), Y \cup {Key(b)})  BY <1>4, AddNewHolds
    <3>2. {Key(b)} \cap K = {Key(b)}  BY <2>1
    <3> QED  BY <2>1, <3>1, <3>2
  <2>2. CASE Key(b) \notin K
    <3>1. Y \cup ({Key(b)} \cap K) = Y  BY <2>2
    <3> QED  BY <1>4, <2>2, <3>1
  <2> QED  BY <2>1, <2>2
<1>5. h \in A  BY <1>3
<1>6. ASSUME NEW g \in A, NEW b \in AllBlocks  PROVE Step(g, b) \in A
  <2>1. PICK Y : Holds(hash, g, Y)  OBVIOUS
  <2> HIDE DEF A, Step
  <2>2. Holds(hash, Step(g, b), Y \cup ({Key(b)} \cap K))  BY <1>4, <2>1
  <2> QED  BY <1>3, <2>2
<1> HIDE DEF A, n
<1>7. G \in [1..n -> [A -> A]]
  <2> HIDE DEF Step
  <2> QED  BY <1>1, <1>6
<1>8. PICK f : Iterates(f, n, A, h, G)
  <2> HIDE DEF G
  <2> QED  BY <1>1, <1>5, <1>7, RecursionExists
<1>9. /\ f \in [0..n -> A] /\ f[0] = h
      /\ \A i \in 1..n : f[i] = Step(f[i - 1], c[i])
  <2>1. f \in [0..n -> A] /\ f[0] = h /\ \A i \in 1..n : f[i] = G[i][f[i - 1]]
    <3> HIDE DEF G
    <3> QED  BY <1>8 DEF Iterates
  <2>2. \A i \in 1..n : f[i - 1] \in A
    <3> HIDE DEF G
    <3> QED  BY <1>1, <2>1
  <2> HIDE DEF Step
  <2> QED  BY <2>1, <2>2
<1> HIDE DEF Step, G
<1>10. f = [k \in 0..n |-> IF k = 0 THEN h ELSE Step(f[k - 1], c[k])]
  <2>1. \A k \in 0..n : f[k] = IF k = 0 THEN h ELSE Step(f[k - 1], c[k])  BY <1>1, <1>9
  <2> QED  BY <1>9, <2>1
<1>11. W = [k \in 0..n |-> IF k = 0 THEN h ELSE Step(W[k - 1], c[k])]  BY <1>10 DEF W
<1> HIDE DEF W
<1> DEFINE Upto(k) == X \cup (KeysOf(c, k) \cap K)
           T == {k \in 0..n : ~ Holds(hash, W[k], Upto(k))}
<1>12. ASSUME T # {}  PROVE FALSE
  <2>1. T \in SUBSET Nat  BY <1>1
  <2>2. PICK k \in T : \A j \in T : k <= j
    <3> HIDE DEF T
    <3> QED  BY <1>12, <2>1, LeastNat
  <2>3. k \in 0..n /\ ~ Holds(hash, W[k], Upto(k))  OBVIOUS
  <2>4. CASE k = 0
    <3>1. W[k] = h  BY <1>11, <2>3, <2>4
    <3>2. KeysOf(c, k) = {}  BY <2>4 DEF KeysOf
    <3>3. Upto(k) = X  BY <3>2
    <3> QED  BY <2>3, <3>1, <3>3
  <2>5. CASE k # 0
    <3>1. k - 1 \in 0..n /\ ~(k <= k - 1) /\ k \in 1..n  BY <1>1, <2>3, <2>5
    <3>2. Holds(hash, W[k - 1], Upto(k - 1))  BY <2>2, <3>1
    <3>3. W[k] = Step(W[k - 1], c[k])  BY <1>11, <2>3, <2>5
    <3>4. 1..k = (1..(k - 1)) \cup {k}  BY <3>1
    <3>5. KeysOf(c, k) = KeysOf(c, k - 1) \cup {Key(c[k])}  BY <3>4 DEF KeysOf
    <3>6. Upto(k) = Upto(k - 1) \cup ({Key(c[k])} \cap K)  BY <3>5
    <3>7. c[k] \in AllBlocks  BY <1>1, <3>1
    <3> HIDE DEF Upto
    <3>8. Holds(hash, Step(W[k - 1], c[k]), Upto(k - 1) \cup ({Key(c[k])} \cap K))
      BY <1>4, <3>2, <3>7
    <3> QED  BY <2>3, <3>3, <3>6, <3>8
  <2> QED  BY <2>4, <2>5
<1>13. n \in 0..n  BY <1>1
<1>14. Holds(hash, W[n], Upto(n))  BY <1>12, <1>13
<1> QED  BY <1>2, <1>14 DEF n

\* In each segment the slots are walked along from the last one down.
LEMMA ReversedSlot ==
    ASSUME NEW top \in Segs, NEW m, m = Total[top] - 1, NEW k \in 0..m,
           NEW r, r = 2 * Base[SegOf[k]] + segsize[SegOf[k]] - 1 - k
    PROVE  r \in 0..m /\ 2 * Base[SegOf[r]] + segsize[SegOf[r]] - 1 - r = k
<1> DEFINE i == SegOf[k]
           j == segsize[i] - 1 - (k - Base[i])
<1>1. i \in 0..top /\ i \in Segs /\ k - Base[i] \in 0 .. (segsize[i] - 1)  BY SlotSegment
<1>2. Base[i] \in Nat /\ segsize[i] \in Nat /\ k \in Nat
  <2>1. Total[top] \in Nat  BY Totals
  <2> QED  BY <1>1, <2>1, Totals
<1> HIDE DEF i
<1>3. j \in 0 .. (segsize[i] - 1) /\ r = Base[i] + j  BY <1>1, <1>2 DEF i
<1> HIDE DEF j
<1>4. Base[i] + j \in 0 .. (Total[top] - 1) /\ SegOf[Base[i] + j] = i  BY <1>1, <1>3, SegmentSlot
<1>5. r \in 0..m /\ SegOf[r] = i  BY <1>3, <1>4
<1>6. r = 2 * Base[i] + segsize[i] - 1 - k  BY DEF i
<1> QED  BY <1>2, <1>5, <1>6

\* The walk along all chains lists the blocks and nothing else.
LEMMA WalkLists ==
    ASSUME NEW h, NEW X, Holds(hash, h, X)
    PROVE  /\ Walk(h) \in Seq(AllBlocks)
           /\ KeysOf(Walk(h), Len(Walk(h))) = X
<1>1. PICK B, t : Good(hash, h, t, B) /\ X = {Key(b) : b \in B}  BY DEF Holds
<1>2. PICK top \in Segs : Shaped(h, top)  BY <1>1 DEF Good
<1> DEFINE n == h.mask + 1
           slot(k) == 2 * Base[SegOf[k]] + segsize[SegOf[k]] - 1 - k
           A == Seq(B)
           part(k) == Chain(h, slot(k))
           G == [i \in 1..n |-> [s \in A |-> s \o part(i - 1)]]
           W == CHOOSE walk : walk = [k \in 0..n |-> IF k = 0 THEN <<>> ELSE walk[k - 1] \o part(k - 1)]
<1>3. /\ h.mask = Total[top] - 1 /\ h.mask \in Nat /\ n \in Nat /\ B \subseteq AllBlocks
      /\ Ordered(hash, t, B)
  <2>1. h.mask = Total[top] - 1 /\ h \in Structures  BY <1>2 DEF Shaped
  <2>2. h.mask \in Nat  BY <2>1, StructureParts
  <2>3. Ordered(hash, t, B)  BY <1>1 DEF Good
  <2> QED  BY <2>1, <2>2, <2>3 DEF Ordered
<1>4. \A k \in 0..h.mask : slot(k) \in 0..h.mask /\ slot(slot(k)) = k
  BY <1>3, ReversedSlot
<1>5. Walk(h) = W[n]  BY DEF Walk
<1> HIDE DEF slot
<1>6. ASSUME NEW k \in 0..h.mask
      PROVE  part(k) \in Seq(B) /\ \A b \in B : And(hash[Key(b)], h.mask) = slot(k) =>
                                       \E i \in 1..Len(part(k)) : part(k)[i] = b
  <2> DEFINE S == InSlot(hash, B, h.mask, slot(k))
  <2>1. Good(hash, h, t, B) /\ slot(k) \in 0..h.mask  BY <1>1, <1>4
  <2>2. Enumerates(hash, t, S, part(k))  BY <2>1, GoodChain
  <2>3. S \subseteq B /\ \A b \in B : And(hash[Key(b)], h.mask) = slot(k) => b \in S
    BY DEF InSlot
  <2> HIDE DEF S, part
  <2> QED  BY <2>2, <2>3 DEF Enumerates
<1> HIDE DEF part
<1>7. \A i \in 1..n : i - 1 \in 0..h.mask /\ part(i - 1) \in A
  BY <1>3, <1>6
<1>8. G \in [1..n -> [A -> A]]  BY <1>7
<1>9. <<>> \in A  OBVIOUS
<1> HIDE DEF A, n
<1>10. PICK f : Iterates(f, n, A, <<>>, G)
  <2> HIDE DEF G
  <2> QED  BY <1>3, <1>8, <1>9, RecursionExists
<1>11. /\ f \in [0..n -> A] /\ f[0] = <<>>
       /\ \A i \in 1..n : f[i] = f[i - 1] \o part(i - 1)
  <2>1. f \in [0..n -> A] /\ f[0] = <<>> /\ \A i \in 1..n : f[i] = G[i][f[i - 1]]
    <3> HIDE DEF G
    <3> QED  BY <1>10 DEF Iterates
  <2>2. \A i \in 1..n : f[i - 1] \in A
    <3> HIDE DEF G
    <3> QED  BY <1>3, <2>1
  <2> QED  BY <2>1, <2>2
<1> HIDE DEF G
<1>12. f = [k \in 0..n |-> IF k = 0 THEN <<>> ELSE f[k - 1] \o part(k - 1)]
  <2>1. \A k \in 0..n : f[k] = IF k = 0 THEN <<>> ELSE f[k - 1] \o part(k - 1)
    BY <1>3, <1>11
  <2> QED  BY <1>11, <2>1
<1>13. W = [k \in 0..n |-> IF k = 0 THEN <<>> ELSE W[k - 1] \o part(k - 1)]  BY <1>12 DEF W
<1> HIDE DEF W
<1> DEFINE Has(s, b) == \E i \in 1..Len(s) : s[i] = b
           Past1(k, b) == \E j \in 0..h.mask : j < k /\ And(hash[Key(b)], h.mask) = slot(j)
           Upto(k) == W[k] \in Seq(B) /\ \A b \in B : Past1(k, b) => Has(W[k], b)
           T == {k \in 0..n : ~ Upto(k)}
<1>14. ASSUME T # {}  PROVE FALSE
  <2>1. T \in SUBSET Nat  BY <1>3
  <2>2. PICK k \in T : \A j \in T : k <= j
    <3> HIDE DEF T
    <3> QED  BY <1>14, <2>1, LeastNat
  <2>3. k \in 0..n /\ ~ Upto(k)
    <3> HIDE DEF Upto
    <3> QED  BY <2>2
  <2>4. CASE k = 0
    <3>1. W[k] = <<>>  BY <1>13, <2>3, <2>4
    <3>2. \A b \in B : ~ Past1(k, b)  BY <1>3, <2>4
    <3> QED  BY <2>3, <3>1, <3>2
  <2>5. CASE k # 0
    <3> DEFINE q == W[k - 1]
               p == part(k - 1)
    <3>1. k - 1 \in 0..n /\ ~(k <= k - 1) /\ k - 1 \in 0..h.mask /\ k \in Nat
      BY <1>3, <2>3, <2>5 DEF n
    <3>2. Upto(k - 1)
      <4> HIDE DEF Upto
      <4> QED  BY <2>2, <3>1
    <3>3. W[k] = q \o p  BY <1>13, <2>3, <2>5
    <3>4. q \in Seq(B) /\ p \in Seq(B)  BY <1>6, <3>1, <3>2
    <3>5. ASSUME NEW b \in B, Past1(k, b)  PROVE Has(q, b) \/ Has(p, b)
      <4>1. PICK j \in 0..h.mask : j < k /\ And(hash[Key(b)], h.mask) = slot(j)  BY <3>5
      <4>2. CASE j < k - 1
        <5>1. Past1(k - 1, b)  BY <4>1, <4>2
        <5> HIDE DEF Past1, Has, q
        <5> QED  BY <3>2, <5>1 DEF q
      <4>3. CASE ~(j < k - 1)
        <5>1. j = k - 1  BY <1>3, <3>1, <4>1, <4>3
        <5> QED  BY <1>6, <3>1, <4>1, <5>1
      <4> QED  BY <4>2, <4>3
    <3> HIDE DEF q, p, Past1
    <3>6. q \o p \in Seq(B) /\ \A b \in B : Has(q, b) \/ Has(p, b) => Has(q \o p, b)
      <4>1. /\ q \o p \in Seq(B) /\ Len(q \o p) = Len(q) + Len(p) /\ Len(q) \in Nat /\ Len(p) \in Nat
            /\ \A i \in 1..Len(q) : (q \o p)[i] = q[i]
            /\ \A i \in 1..Len(p) : (q \o p)[Len(q) + i] = p[i]
        BY <3>4
      <4>2. ASSUME NEW b \in B, NEW i \in 1..Len(p), p[i] = b  PROVE Has(q \o p, b)
        <5>1. Len(q) + i \in 1..Len(q \o p)  BY <4>1
        <5> QED  BY <4>1, <4>2, <5>1
      <4>3. ASSUME NEW b \in B, NEW i \in 1..Len(q), q[i] = b  PROVE Has(q \o p, b)
        <5>1. i \in 1..Len(q \o p)  BY <4>1
        <5> QED  BY <4>1, <4>3, <5>1
      <4> QED  BY <4>1, <4>2, <4>3
    <3> HIDE DEF Has
    <3> QED  BY <2>3, <3>3, <3>5, <3>6
  <2> QED  BY <2>4, <2>5
<1>15. Upto(n)
  <2>1. n \in 0..n  BY <1>3
  <2> HIDE DEF Upto
  <2> QED  BY <1>14, <2>1
<1>16. \A b \in B : Past1(n, b)
  <2> TAKE b \in B
  <2>1. And(hash[Key(b)], h.mask) \in 0..h.mask  BY <1>1, GoodFacts
  <2>2. slot(And(hash[Key(b)], h.mask)) \in 0..h.mask
        /\ slot(slot(And(hash[Key(b)], h.mask))) = And(hash[Key(b)], h.mask)
    BY <1>4, <2>1
  <2> QED  BY <1>3, <2>2 DEF n
<1> DEFINE w == Walk(h)
<1>17. w \in Seq(B) /\ \A b \in B : Has(w, b)
  <2> HIDE DEF Past1, Has
  <2> QED  BY <1>5, <1>15, <1>16
<1> HIDE DEF w
<1>18. w \in Seq(AllBlocks)  BY <1>3, <1>17
<1>19. KeysOf(w, Len(w)) = X
  <2>1. \A i \in 1..Len(w) : w[i] \in B  BY <1>17
  <2> QED  BY <1>1, <1>17, <2>1 DEF KeysOf
<1> QED  BY <1>18, <1>19 DEF w
-----------------------------------------------------------------------------
(* The invariant. *)

\* The structure is sound and holds what the operations should have left.
HInv ==
    /\ hash \in HashFns
    /\ members \in SUBSET Keys
    /\ Holds(hash, ps, members)

LEMMA HashType ==
    ASSUME hash \in HashFns
    PROVE  hash \in [Keys -> Nat]
BY HashAssumption

LEMMA HoldsSize ==
    ASSUME NEW h, NEW X, Holds(hash, h, X)
    PROVE  h \in Structures /\ h.size \in Nat
<1>1. PICK B, t : Good(hash, h, t, B)  BY DEF Holds
<1>2. h \in Structures  BY <1>1, GoodFacts
<1> QED  BY <1>2, StructureParts

LEMMA HInvInit == Init => HInv
<1> SUFFICES ASSUME Init  PROVE HInv  OBVIOUS
<1>1. hash \in HashFns /\ ps = hmake(0) /\ members = {}  BY DEF Init
<1>2. hash \in [Keys -> Nat]  BY <1>1, HashType
<1>3. 0 \in Nat  OBVIOUS
<1>4. Holds(hash, hmake(0), {})  BY <1>2, <1>3, HmakeHolds
<1> QED  BY <1>1, <1>4 DEF HInv

\* The block that Insert takes.
LEMMA FreshBlock ==
    ASSUME NEW x \in Keys, Fresh(x) # {}
    PROVE  LET b == CHOOSE b \in Fresh(x) : \A c \in Fresh(x) : b[2] <= c[2]
           IN  b \in AllBlocks /\ Key(b) = x /\ b \notin DOMAIN ps.clink
<1> DEFINE T == {b[2] : b \in Fresh(x)}
<1>1. \A b \in Fresh(x) :
         b \in AllBlocks /\ Key(b) = x /\ b[2] \in Nat /\ b \notin DOMAIN ps.clink
  BY HashAssumption DEF Fresh, AllBlocks, Key
<1>2. T \in SUBSET Nat /\ T # {}  BY <1>1
<1>3. PICK n \in T : \A k \in T : n <= k
  <2> HIDE DEF T
  <2> QED  BY <1>2, LeastNat
<1>4. \E b \in Fresh(x) : \A c \in Fresh(x) : b[2] <= c[2]  BY <1>3
<1> QED  BY <1>1, <1>4

LEMMA InsertStep ==
    ASSUME HInv, NEW x \in Keys, Insert(x)
    PROVE  HInv'
<1> DEFINE w == memb(ps, x)
           b == CHOOSE b \in Fresh(x) : \A c \in Fresh(x) : b[2] <= c[2]
<1>1. /\ w.res \/ Fresh(x) # {}
      /\ ps' = IF w.res THEN ps ELSE Enlarged(addmem(ps, b, w))
      /\ members' = members \cup {x} /\ hash' = hash
  BY DEF Insert
<1>2. Holds(hash, ps, members) /\ members \in SUBSET Keys  BY DEF HInv
<1>3. w.res \in BOOLEAN /\ (w.res <=> x \in members)  BY <1>2, MembHolds
<1>4. Holds(hash, ps', members')
  <2>1. CASE w.res
    <3>1. ps' = ps /\ members' = members  BY <1>1, <1>3, <2>1
    <3> QED  BY <1>2, <3>1
  <2>2. CASE ~ w.res
    <3>1. b \in AllBlocks /\ Key(b) = x
      <4>1. Fresh(x) # {}  BY <1>1, <2>2
      <4> QED  BY <4>1, FreshBlock
    <3>2. ps' = Enlarged(addmem(ps, b, memb(ps, Key(b)))) /\ Key(b) \notin members
      BY <1>1, <1>3, <2>2, <3>1
    <3> HIDE DEF b, w
    <3>3. Holds(hash, addmem(ps, b, memb(ps, Key(b))), members \cup {Key(b)})
      BY <1>2, <3>1, <3>2, AddedHolds
    <3>4. Holds(hash, ps', members \cup {Key(b)})  BY <3>2, <3>3, EnlargedHolds
    <3> QED  BY <1>1, <3>1, <3>4
  <2> QED  BY <2>1, <2>2
<1> QED  BY <1>1, <1>2, <1>4 DEF HInv

LEMMA DeleteStep ==
    ASSUME HInv, NEW x \in Keys, Delete(x)
    PROVE  HInv'
<1> DEFINE w == memb(ps, x)
           r == [Store(ps, w, ps.clink[At(w)]) EXCEPT !.size = @ - 1]
<1>1. /\ ps' = IF w.res THEN Kept(r, ep) ELSE ps
      /\ members' = members \ {x} /\ hash' = hash
  BY DEF Delete
<1>2. Holds(hash, ps, members) /\ members \in SUBSET Keys  BY DEF HInv
<1>3. w.res \in BOOLEAN /\ (w.res <=> x \in members)  BY <1>2, MembHolds
<1>4. Holds(hash, ps', members')
  <2>1. CASE w.res
    <3>1. r = [Store(ps, memb(ps, x), ps.clink[At(memb(ps, x))]) EXCEPT !.size = @ - 1]
      OBVIOUS
    <3>2. memb(ps, x).res  BY <2>1
    <3>3. ps' = Kept(r, ep)  BY <1>1, <2>1
    <3> HIDE DEF r, w
    <3>4. Holds(hash, Kept(r, ep), members \ {x})  BY <1>2, <3>1, <3>2, RemovedHolds
    <3> QED  BY <1>1, <3>3, <3>4
  <2>2. CASE ~ w.res
    <3>1. ps' = ps /\ members' = members  BY <1>1, <1>3, <2>2
    <3> QED  BY <1>2, <3>1
  <2> QED  BY <2>1, <2>2
<1> QED  BY <1>1, <1>2, <1>4 DEF HInv

LEMMA MoveStep ==
    ASSUME HInv, NEW r, Move(r)
    PROVE  HInv'
<1>1. ps' = Kept(ps, r.ep) /\ members' = members /\ hash' = hash  BY DEF Move
<1>2. Holds(hash, Kept(ps, r.ep), members)  BY KeptHolds DEF HInv
<1> QED  BY <1>1, <1>2 DEF HInv

LEMMA ReplaceStep ==
    ASSUME HInv, NEW h, NEW X \in SUBSET Keys, Holds(hash, h, X), Replace(h, X)
    PROVE  HInv'
<1>1. ps' = Kept(h, Null) /\ members' = X /\ hash' = hash  BY DEF Replace
<1>2. Holds(hash, Kept(h, Null), X)  BY KeptHolds
<1> QED  BY <1>1, <1>2 DEF HInv

\* cphash() copies the structure as it is, but for its size.
LEMMA CopyHolds ==
    ASSUME HInv
    PROVE  Holds(hash, cphash(ps), members)
<1>1. Holds(hash, Kept(ps, Null), members)  BY KeptHolds DEF HInv
<1>2. Holds(hash, hshrink(Kept(ps, Null)), members)  BY <1>1, ShrunkHolds
<1> QED  BY <1>2 DEF cphash

\* What is left of a structure after a walk that collects the keys K.
LEMMA CollectedHolds ==
    ASSUME HInv, NEW n \in Nat, NEW K
    PROVE  Holds(hash, hshrink(Collect(hmake(n), Walk(ps), K)), members \cap K)
<1> DEFINE c == Walk(ps)
           e == hmake(n)
           d == Collect(e, c, K)
<1>1. c \in Seq(AllBlocks) /\ KeysOf(c, Len(c)) = members  BY WalkLists DEF HInv
<1>2. Holds(hash, e, {})
  <2>1. hash \in [Keys -> Nat]  BY HashType DEF HInv
  <2> QED  BY <2>1, HmakeHolds
<1> HIDE DEF c, e
<1>3. Holds(hash, d, {} \cup (KeysOf(c, Len(c)) \cap K))  BY <1>1, <1>2, CollectHolds
<1>4. {} \cup (KeysOf(c, Len(c)) \cap K) = members \cap K  BY <1>1
<1> HIDE DEF d
<1>5. Holds(hash, d, members \cap K)  BY <1>3, <1>4
<1>6. Holds(hash, hshrink(d), members \cap K)  BY <1>5, ShrunkHolds
<1> QED  BY <1>6 DEF d, e, c

LEMMA UnionStep ==
    ASSUME HInv, NEW y \in Orders, Union(y)
    PROVE  HInv'
<1> DEFINE new == [i \in DOMAIN y |-> <<y[i], 1>>]
           e == cphash(ps)
           d == Collect(e, new, Keys)
<1>1. Replace(Enlarged(d), members \cup ToSet(y))  BY DEF Union
<1>2. PICK n \in 0..MaxUnion : y \in Injection(1..n, Keys)  BY DEF Orders
<1>3. n \in Nat /\ y \in [1..n -> Keys]  BY <1>2 DEF Injection
<1>4. /\ new \in Seq(AllBlocks) /\ Len(new) = n
      /\ \A i \in 1..n : Key(new[i]) = y[i]
  <2>1. 1 \in 1..Copies  BY HashAssumption
  <2>2. \A i \in 1..n : <<y[i], 1>> \in AllBlocks  BY <1>3, <2>1 DEF AllBlocks
  <2>3. new \in [1..n -> AllBlocks] /\ \A i \in 1..n : Key(new[i]) = y[i]
    BY <1>3, <2>2 DEF Key
  <2> HIDE DEF new
  <2> QED  BY <1>3, <2>3
<1>5. KeysOf(new, Len(new)) = ToSet(y) /\ ToSet(y) \in SUBSET Keys
  <2>1. DOMAIN y = 1..n /\ \A i \in 1..n : y[i] \in Keys  BY <1>3
  <2> HIDE DEF new
  <2> QED  BY <1>4, <2>1 DEF KeysOf, ToSet
<1> HIDE DEF new
<1>6. Holds(hash, e, members)  BY CopyHolds
<1> HIDE DEF e
<1>7. Holds(hash, d, members \cup (KeysOf(new, Len(new)) \cap Keys))  BY <1>4, <1>6, CollectHolds
<1>8. members \cup (KeysOf(new, Len(new)) \cap Keys) = members \cup ToSet(y)  BY <1>5
<1> HIDE DEF d
<1>9. Holds(hash, Enlarged(d), members \cup ToSet(y))  BY <1>7, <1>8, EnlargedHolds
<1>10. members \cup ToSet(y) \in SUBSET Keys  BY <1>5 DEF HInv
<1> QED  BY <1>1, <1>9, <1>10, ReplaceStep

LEMMA HInvNext == HInv /\ [Next]_vars => HInv'
<1> SUFFICES ASSUME HInv, [Next]_vars  PROVE HInv'  OBVIOUS
<1>0. /\ members \in SUBSET Keys /\ Holds(hash, ps, members) /\ ps.size \in Nat
  BY HoldsSize DEF HInv
<1>1. CASE \E x \in Keys : Insert(x) \/ Delete(x)  BY <1>1, InsertStep, DeleteStep
<1>2. CASE Start  BY <1>2, MoveStep DEF Start
<1>3. CASE Resume  BY <1>3, MoveStep DEF Resume
<1>4. CASE Copy
  <2>1. Holds(hash, cphash(ps), members)  BY CopyHolds
  <2> QED  BY <1>0, <1>4, <2>1, ReplaceStep DEF Copy
<1>5. CASE \E Y \in SUBSET members : Difference(Y)
  <2>1. PICK Y \in SUBSET members : Difference(Y)  BY <1>5
  <2> DEFINE h == hshrink(Collect(hmake(ps.size), Walk(ps), Keys \ Y))
  <2>2. Replace(h, members \ Y)  BY <2>1 DEF Difference
  <2>3. Holds(hash, h, members \cap (Keys \ Y))  BY <1>0, CollectedHolds
  <2>4. members \cap (Keys \ Y) = members \ Y /\ members \ Y \in SUBSET Keys  BY <1>0
  <2> HIDE DEF h
  <2> QED  BY <2>2, <2>3, <2>4, ReplaceStep
<1>6. CASE \E I \in SUBSET members, n \in 0 .. ps.size : Cardinality(I) <= n /\ Intersection(I, n)
  <2>1. PICK I \in SUBSET members, n \in 0 .. ps.size : Intersection(I, n)  BY <1>6
  <2> DEFINE h == hshrink(Collect(hmake(n), Walk(ps), I))
  <2>2. Replace(h, I)  BY <2>1 DEF Intersection
  <2>3. n \in Nat  BY <1>0
  <2>4. Holds(hash, h, members \cap I)  BY <2>3, CollectedHolds
  <2>5. members \cap I = I /\ I \in SUBSET Keys  BY <1>0
  <2> HIDE DEF h
  <2> QED  BY <2>2, <2>4, <2>5, ReplaceStep
<1>7. CASE \E y \in Orders : Union(y)  BY <1>7, UnionStep
<1>8. CASE UNCHANGED vars
  <2>1. hash' = hash /\ ps' = ps /\ members' = members  BY <1>8 DEF vars
  <2> QED  BY <2>1 DEF HInv
<1> QED  BY <1>1, <1>2, <1>3, <1>4, <1>5, <1>6, <1>7, <1>8 DEF Next

\* Always the structure is sound and holds what the insertions, deletions,
\* copies and set operations should have left, for every set of keys, hash
\* function, number of slots and segments and load limits.
THEOREM TablesSound == Spec => []HInv
<1>1. Init => HInv  BY HInvInit
<1>2. HInv /\ [Next]_vars => HInv'  BY HInvNext
<1> QED  BY <1>1, <1>2, PTL DEF Spec

\* No key has two blocks, so blocks and keys are as many.
LEMMA BlocksAndKeys ==
    ASSUME NEW t, NEW B, Good(hash, ps, t, B), NEW X, X = {Key(b) : b \in B}
    PROVE  Cardinality(X) = Cardinality(B)
<1> DEFINE f == [b \in B |-> Key(b)]
<1>1. IsFiniteSet(B) /\ \A x, y \in B : Key(x) = Key(y) => x = y  BY GoodFacts DEF Good
<1>2. f \in Injection(B, X) /\ f \in Surjection(B, X)
  BY <1>1 DEF Injection, Surjection, IsInjective
<1>3. ExistsBijection(B, X)  BY <1>2 DEF ExistsBijection, Bijection
<1> QED  BY <1>1, <1>3, FS_Bijection

LEMMA HInvSound == HInv => ChainsSound
<1> SUFFICES ASSUME HInv  PROVE ChainsSound  OBVIOUS
<1>1. PICK B, t : Good(hash, ps, t, B) /\ members = {Key(b) : b \in B}  BY DEF HInv, Holds
<1>2. PICK top \in Segs : Shaped(ps, top)  BY <1>1 DEF Good
<1>3. DOMAIN ps.hdir = 0 .. SegOf[ps.mask]
  <2>1. SegOf[Total[top] - 1] = top  BY MaskOf
  <2> QED  BY <1>2, <2>1 DEF Shaped
<1>4. \A i \in DOMAIN ps.hdir : DOMAIN ps.hdir[i] = 0 .. segsize[i] - 1
  BY <1>2 DEF Shaped, Segment
<1>5. Members(ps) = members /\ Blocks(ps) = B  BY <1>1, GoodBlocks
<1>6. ps.size = Cardinality(Blocks(ps)) /\ ps.size = Cardinality(members)
  <2>1. ps.size = Cardinality(B)  BY <1>1 DEF Good
  <2>2. Cardinality(members) = Cardinality(B)  BY <1>1, BlocksAndKeys
  <2> QED  BY <1>5, <2>1, <2>2
<1>7. ASSUME NEW n \in 0 .. ps.mask
      PROVE  /\ Sorted(Chain(ps, n))
             /\ \A b \in ToSet(Chain(ps, n)) : And(HashNum(b), ps.mask) = n
  <2> DEFINE S == InSlot(hash, B, ps.mask, n)
             c == Chain(ps, n)
  <2>1. Good(hash, ps, t, B)  BY <1>1
  <2>2. Enumerates(hash, t, S, c)  BY <2>1, GoodChain
  <2>3. Ordered(hash, t, B)  BY <1>1 DEF Good
  <2>4. \A b \in B : HashNum(b) \in Nat /\ HashNum(b) = hash[Key(b)]
    BY <2>3, BlockFacts DEF HashNum
  <2>5. S \in SUBSET B /\ \A b \in S : And(hash[Key(b)], ps.mask) = n  BY DEF InSlot
  <2> HIDE DEF S, c
  <2>6. c \in Seq(S) /\ DOMAIN c = 1..Len(c)  BY <2>2 DEF Enumerates
  <2>7. \A i \in 1..Len(c) : c[i] \in S /\ c[i] \in B  BY <2>5, <2>6
  <2>8. Sorted(c)
    <3> SUFFICES ASSUME NEW i \in 1..Len(c), NEW j \in 1..Len(c), i < j
                 PROVE  HashNum(c[i]) <= HashNum(c[j])
      BY <2>6 DEF Sorted
    <3>1. Before(hash, t, c[i], c[j])  BY <2>2 DEF Enumerates
    <3> QED  BY <2>4, <2>7, <3>1 DEF Before
  <2>9. \A b \in ToSet(c) : b \in S  BY <2>6, <2>7 DEF ToSet
  <2>10. \A b \in ToSet(c) : And(HashNum(b), ps.mask) = n  BY <2>4, <2>5, <2>9
  <2> QED  BY <2>8, <2>10 DEF c
<1> QED  BY <1>3, <1>4, <1>5, <1>6, <1>7 DEF ChainsSound

\* Every chain is sorted and holds the elements of its slot, the directory
\* fits the mask, the size is exact and the elements are those that the
\* operations should have left (rstruct.r, oset.r).
THEOREM ChainsAlwaysSound == Spec => []ChainsSound
BY TablesSound, HInvSound, PTL

\* member(), insert() and delete() find an element if and only if it is there,
\* whatever the structure went through (rstruct.r:649, memb()).
MembExact == \A x \in Keys : memb(ps, x).res <=> x \in members

THEOREM MembAlwaysExact == Spec => []MembExact
<1>1. HInv => MembExact
  <2> SUFFICES ASSUME HInv, NEW x \in Keys  PROVE memb(ps, x).res <=> x \in members
    BY DEF MembExact
  <2>1. Holds(hash, ps, members)  BY DEF HInv
  <2> QED  BY <2>1, MembHolds
<1> QED  BY <1>1, TablesSound, PTL
-----------------------------------------------------------------------------
(* Masks of different sizes. *)

LEMMA SmallRemainder ==
    ASSUME NEW m \in Nat \ {0}, NEW r \in 0 .. (m - 1)
    PROVE  r % m = r /\ (r + m) % m = r
<1>1. r = m * 0 + r /\ r + m = m * 1 + r  OBVIOUS
<1> QED  BY <1>1

LEMMA HalfRemainder ==
    ASSUME NEW x \in Nat, NEW m \in Nat \ {0}
    PROVE  (x % (2 * m)) % m = x % m
<1> DEFINE r == x % m
           y == x % (2 * m)
<1>1. r \in 0 .. (m - 1)  OBVIOUS
<1>2. y = r \/ y = r + m  BY NextBit
<1> HIDE DEF r, y
<1>3. y % m = r  BY <1>1, <1>2, SmallRemainder
<1> QED  BY <1>3 DEF r, y

\* A smaller mask looks at the lower bits only.
LEMMA MaskMask ==
    ASSUME NEW k \in Segs, NEW j \in Segs, k <= j, NEW x \in Nat
    PROVE  And(And(x, Total[j] - 1), Total[k] - 1) = And(x, Total[k] - 1)
<1> DEFINE T == {i \in Segs : k <= i /\ \E y \in Nat : (y % Total[i]) % Total[k] # y % Total[k]}
<1>1. Segs = 0 .. (HSegs - 1) /\ HSegs \in Nat  BY HashAssumption DEF Segs
<1>2. \A i \in Segs : Total[i] \in Nat \ {0, 1}  BY Totals
<1>3. ASSUME T # {}  PROVE FALSE
  <2>1. T \in SUBSET Nat  BY <1>1
  <2>2. PICK i \in T : \A l \in T : i <= l
    <3> HIDE DEF T
    <3> QED  BY <1>3, <2>1, LeastNat
  <2>3. i \in Segs /\ k <= i  OBVIOUS
  <2>4. PICK y \in Nat : (y % Total[i]) % Total[k] # y % Total[k]  OBVIOUS
  <2>5. CASE i = k
    <3> DEFINE m == Total[k]
               r == y % m
    <3>1. m \in Nat \ {0}  BY <1>2
    <3> HIDE DEF m
    <3>2. r \in 0 .. (m - 1)  BY <3>1
    <3> HIDE DEF r
    <3>3. r % m = r  BY <3>1, <3>2, SmallRemainder
    <3> QED  BY <2>4, <2>5, <3>3 DEF r, m
  <2>6. CASE i # k
    <3> DEFINE m == Total[i - 1]
               z == y % Total[i]
    <3>1. i - 1 \in Segs /\ k <= i - 1 /\ ~(i <= i - 1) /\ (i - 1) + 1 = i
      BY <1>1, <2>3, <2>6
    <3>2. i - 1 \notin T  BY <2>2, <3>1
    <3>3. \A v \in Nat : (v % Total[i - 1]) % Total[k] = v % Total[k]  BY <3>1, <3>2
    <3>4. Total[i] = 2 * m /\ m \in Nat \ {0}  BY <1>2, <2>3, <3>1, Totals
    <3> HIDE DEF m
    <3>5. z \in Nat  BY <3>4
    <3>6. z % m = y % m
      <4>1. (y % (2 * m)) % m = y % m  BY <3>4, HalfRemainder
      <4> QED  BY <3>4, <4>1
    <3> HIDE DEF z
    <3>7. (z % m) % Total[k] = z % Total[k] /\ (y % m) % Total[k] = y % Total[k]
      BY <3>3, <3>5 DEF m
    <3>8. z % Total[k] = y % Total[k]  BY <3>6, <3>7
    <3> QED  BY <2>4, <3>8 DEF z
  <2> QED  BY <2>5, <2>6
<1>4. (x % Total[j]) % Total[k] = x % Total[k]  BY <1>3
<1>5. (Total[j] - 1) + 1 = Total[j] /\ (Total[k] - 1) + 1 = Total[k]  BY <1>2
<1> QED  BY <1>4, <1>5 DEF And

\* The number of a slot in its segment, for a mask of fewer segments.
LEMMA SlotPart ==
    ASSUME NEW top \in Segs, NEW n \in 0 .. (Total[top] - 1), NEW k \in Segs, k < SegOf[n]
    PROVE  And(n - Base[SegOf[n]], Total[k] - 1) = And(n, Total[k] - 1)
<1> DEFINE i == SegOf[n]
           j == i - 1
           q == Total[j]
           r == n - Base[i]
<1>1. i \in Segs /\ r \in 0 .. (segsize[i] - 1)  BY SlotSegment
<1>2. Segs = 0 .. (HSegs - 1) /\ HSegs \in Nat  BY HashAssumption DEF Segs
<1>3. j \in Segs /\ k <= j /\ j + 1 = i  BY <1>1, <1>2
<1>4. Base[i] = q /\ Total[i] = 2 * q /\ Total[i] = Base[i] + segsize[i]
      /\ q \in Nat \ {0} /\ segsize[i] \in Nat /\ Base[i] \in Nat
  BY <1>1, <1>3, Totals
<1>5. n \in Nat
  <2>1. Total[top] \in Nat  BY Totals
  <2> QED  BY <2>1
<1> HIDE DEF i, j, q
<1>6. r \in 0 .. (q - 1) /\ n = r + q  BY <1>1, <1>4, <1>5
<1> HIDE DEF r
<1>7. n % q = r  BY <1>4, <1>6, SmallRemainder
<1>8. And(n, q - 1) = r
  <2>1. (q - 1) + 1 = q  BY <1>4
  <2> QED  BY <1>7, <2>1 DEF And
<1>9. And(And(n, Total[j] - 1), Total[k] - 1) = And(n, Total[k] - 1)  BY <1>3, <1>5, MaskMask
<1> QED  BY <1>8, <1>9 DEF q, r, i

LEMMA SlotMask ==
    ASSUME NEW m \in Nat, NEW n \in 0..m
    PROVE  And(n, m) = n
<1>1. m + 1 \in Nat \ {0} /\ n \in 0 .. ((m + 1) - 1)  OBVIOUS
<1>2. n % (m + 1) = n  BY <1>1, SmallRemainder
<1> QED  BY <1>2 DEF And
-----------------------------------------------------------------------------
(* What a suspended generation remembers. *)

States ==
    [segnum : Segs, slotnum : Nat, tmask : Nat, sgmask : [Segs -> Nat], sghash : [Segs -> Nat]]

\* A split is remembered for the segments that it adds and for those that
\* later splits may add; a later split replaces it there.
History(s) ==
    /\ s \in States
    /\ \E top \in Segs : s.tmask = Total[top] - 1
    /\ \A i, j \in Segs : i <= j /\ s.sgmask[i] # 0 => s.sgmask[j] # 0
    /\ \A i \in Segs : s.sgmask[i] # 0 =>
          \E k \in Segs :
             /\ k < i /\ s.sgmask[i] = Total[k] - 1 /\ s.sgmask[i] < s.tmask
             /\ \A j \in Segs : k < j /\ j <= i =>
                   s.sgmask[j] = s.sgmask[i] /\ s.sghash[j] = s.sghash[i]

\* The slot the generation is in.
Here(s) == Base[s.segnum] + s.slotnum

\* Where the generation was when segment i was added.
Then(s, i) == And(s.sghash[i], s.sgmask[i])

\* Hash number x was ahead of the generation at each split.
Beyond(s, i, x) ==
    \/ And(x, s.sgmask[i]) > Then(s, i)
    \/ And(x, s.sgmask[i]) = Then(s, i) /\ x > s.sghash[i]

Passes(s, x) == \A i \in Segs : s.sgmask[i] # 0 => Beyond(s, i, x)

LEMMA TotalsGrow ==
    ASSUME NEW i \in Segs, NEW j \in Segs
    PROVE  /\ i \in Nat /\ j \in Nat
           /\ i <= j <=> Total[i] - 1 <= Total[j] - 1
           /\ i < j <=> Total[i] - 1 < Total[j] - 1
<1>1. i \in Nat /\ j \in Nat  BY HashAssumption DEF Segs
<1>2. Total[i] \in Nat /\ Total[j] \in Nat  BY Totals
<1>3. ASSUME NEW a \in Segs, NEW b \in Segs, a < b  PROVE Total[a] < Total[b]
  <2>1. Total[a] <= Base[b]  BY <1>3, SegmentsApart
  <2>2. Total[a] \in Nat /\ Base[b] \in Nat /\ segsize[b] \in Nat \ {0} /\ Total[b] = Base[b] + segsize[b]
    BY Totals
  <2> QED  BY <2>1, <2>2
<1>4. i < j => Total[i] < Total[j]  BY <1>3
<1>5. j < i => Total[j] < Total[i]  BY <1>3
<1> QED  BY <1>1, <1>2, <1>4, <1>5

LEMMA HistoryParts ==
    ASSUME NEW s, History(s)
    PROVE  /\ s.segnum \in Segs /\ s.slotnum \in Nat /\ s.tmask \in Nat /\ Here(s) \in Nat
           /\ \A i \in Segs : /\ s.sgmask[i] \in Nat /\ s.sghash[i] \in Nat
                              /\ s.sgmask[i] # 0 => Then(s, i) \in Nat
           /\ s.sgmask \in [Segs -> Nat] /\ s.sghash \in [Segs -> Nat]
<1>1. s \in States  BY DEF History
<1>2. /\ s.segnum \in Segs /\ s.slotnum \in Nat /\ s.tmask \in Nat
      /\ s.sgmask \in [Segs -> Nat] /\ s.sghash \in [Segs -> Nat]
  BY <1>1 DEF States
<1>3. Here(s) \in Nat
  <2>1. Base[s.segnum] \in Nat  BY <1>2, Totals
  <2> QED  BY <1>2, <2>1 DEF Here
<1>4. ASSUME NEW i \in Segs, s.sgmask[i] # 0  PROVE Then(s, i) \in Nat
  <2>1. PICK k \in Segs : s.sgmask[i] = Total[k] - 1  BY <1>4 DEF History
  <2>2. s.sghash[i] \in Nat  BY <1>2
  <2>3. And(s.sghash[i], Total[k] - 1) \in 0 .. (Total[k] - 1) /\ Total[k] - 1 \in Nat
    BY <2>2, MaskOf
  <2> QED  BY <2>1, <2>3 DEF Then
<1> QED  BY <1>2, <1>3, <1>4

\* A smaller mask forgets bits only.
LEMMA NotedMask ==
    ASSUME NEW s, History(s), NEW i \in Segs, s.sgmask[i] # 0, NEW x \in Nat
    PROVE  /\ And(x, s.sgmask[i]) = And(And(x, s.tmask), s.sgmask[i])
           /\ And(x, s.sgmask[i]) \in Nat /\ And(x, s.tmask) \in Nat
           /\ And(x, s.sgmask[i]) <= And(x, s.tmask)
<1>1. PICK k \in Segs : s.sgmask[i] = Total[k] - 1 /\ s.sgmask[i] < s.tmask  BY DEF History
<1>2. PICK top \in Segs : s.tmask = Total[top] - 1  BY DEF History
<1>3. k <= top  BY <1>1, <1>2, TotalsGrow
<1>4. And(And(x, Total[top] - 1), Total[k] - 1) = And(x, Total[k] - 1)  BY <1>3, MaskMask
<1>5. /\ And(x, Total[k] - 1) \in 0 .. (Total[k] - 1) /\ And(x, Total[top] - 1) \in 0 .. (Total[top] - 1)
      /\ Total[k] - 1 \in Nat /\ Total[top] - 1 \in Nat
  BY MaskOf
<1> DEFINE y == And(x, Total[top] - 1)
<1>6. y \in Nat /\ And(y, Total[k] - 1) <= y
  <2>1. y \in Nat  BY <1>5
  <2> HIDE DEF y
  <2>2. Total[k] \in Nat \ {0}  BY Totals
  <2>3. (Total[k] - 1) + 1 = Total[k]  BY <2>2
  <2>4. y % Total[k] <= y  BY <2>1, <2>2
  <2> QED  BY <2>1, <2>3, <2>4 DEF And
<1> QED  BY <1>1, <1>2, <1>4, <1>5, <1>6

LEMMA PastFirst ==
    ASSUME NEW h, NEW t, NEW B, Good(hash, h, t, B), NEW n \in 0..h.mask, NEW S
    PROVE  IsFirst(hash, t, {y \in InSlot(hash, B, h.mask, n) : \A k \in S : hash[Key(y)] > k},
                   Past(h, Slot(h, n), S))
<1> DEFINE R == InSlot(hash, B, h.mask, n)
           c == Chain(h, n)
           Q == {y \in ToSet(c) : \A k \in S : HashNum(y) > k}
<1>1. Enumerates(hash, t, R, c)  BY GoodChain
<1>2. Ordered(hash, t, B) /\ R \in SUBSET B  BY GoodFacts DEF InSlot
<1>3. Past(h, Slot(h, n), S) = FirstIn(c, Q)  BY DEF Past, Chain
<1> HIDE DEF R, c
<1>4. IsFirst(hash, t, R \cap Q, FirstIn(c, Q))
  <2> HIDE DEF Q
  <2> QED  BY <1>1, <1>2, FirstInList
<1>5. c \in Seq(R) /\ DOMAIN c = 1..Len(c) /\ \A x \in R : \E i \in 1..Len(c) : c[i] = x
  BY <1>1 DEF Enumerates
<1>6. R \subseteq ToSet(c)  BY <1>5 DEF ToSet
<1>7. R \cap Q = {y \in R : \A k \in S : hash[Key(y)] > k}  BY <1>6 DEF HashNum
<1> QED  BY <1>3, <1>4, <1>7 DEF R

\* A slot in which the generation has not been gives the first of its blocks
\* that were ahead at each split (rstruct.r:480, the loop over the segments).
LEMMA UnseenFirst ==
    ASSUME NEW h, NEW t, NEW B, Good(hash, h, t, B), NEW s, History(s), s.tmask = h.mask,
           NEW n \in 0..h.mask, \A i \in Segs : s.sgmask[i] # 0 => Then(s, i) < n
    PROVE  IsFirst(hash, t, {y \in InSlot(hash, B, h.mask, n) : Passes(s, hash[Key(y)])}, Unseen(h, s, n))
<1> DEFINE R == InSlot(hash, B, h.mask, n)
           seg == SegOf[n]
           noted == {i \in 0..seg : \A j \in i..seg : s.sgmask[j] # 0}
           d(i) == And(n - Base[seg], s.sgmask[i]) - And(s.sghash[i], s.sgmask[i])
           S == {s.sghash[i] : i \in {j \in noted : d(j) = 0}}
<1>1. PICK top \in Segs : Shaped(h, top)  BY GoodFacts
<1>2. /\ top \in Nat /\ h.mask = Total[top] - 1 /\ n \in 0 .. (Total[top] - 1) /\ n \in Nat
      /\ seg \in 0..top /\ seg \in Segs /\ n < Total[seg]
  <2>1. h.mask = Total[top] - 1  BY <1>1 DEF Shaped
  <2>2. n \in 0 .. (Total[top] - 1)  BY <2>1
  <2>3. top \in Nat  BY HashAssumption DEF Segs
  <2>4. seg \in 0..top /\ seg \in Segs /\ n - Base[seg] \in 0 .. (segsize[seg] - 1)
    BY <2>2, SlotSegment
  <2>5. Base[seg] \in Nat /\ segsize[seg] \in Nat /\ Total[seg] = Base[seg] + segsize[seg]
    BY <2>4, Totals
  <2>6. n \in Nat  OBVIOUS
  <2>7. n < Total[seg]  BY <2>4, <2>5, <2>6
  <2> QED  BY <2>1, <2>2, <2>3, <2>4, <2>6, <2>7
<1>3. \A i \in 0..seg : i \in Segs /\ i \in Nat
  BY <1>2, HashAssumption DEF Segs
<1>4. noted = {i \in 0..seg : s.sgmask[i] # 0}
  <2>1. ASSUME NEW i \in 0..seg, s.sgmask[i] # 0, NEW j \in i..seg  PROVE s.sgmask[j] # 0
    <3>1. i \in Segs /\ i \in Nat /\ seg \in Nat  BY <1>2, <1>3
    <3>2. j \in 0..seg /\ i <= j  BY <3>1
    <3>3. j \in Segs  BY <1>3, <3>2
    <3> QED  BY <2>1, <3>1, <3>2, <3>3 DEF History
  <2>2. ASSUME NEW i \in 0..seg, \A j \in i..seg : s.sgmask[j] # 0  PROVE s.sgmask[i] # 0
    <3>1. i \in i..seg  BY <1>2
    <3> QED  BY <2>2, <3>1
  <2> QED  BY <2>1, <2>2
<1>5. ASSUME NEW i \in 0..seg, s.sgmask[i] # 0
      PROVE  /\ i \in Segs
             /\ And(n, s.sgmask[i]) \in Nat /\ Then(s, i) \in Nat
             /\ d(i) = And(n, s.sgmask[i]) - Then(s, i)
  <2>1. i \in Segs /\ i \in Nat  BY <1>3
  <2>2. PICK k \in Segs : k < i /\ s.sgmask[i] = Total[k] - 1  BY <1>5, <2>1 DEF History
  <2>3. k < seg
    <3>1. k \in Nat /\ seg \in Nat  BY <1>2, HashAssumption DEF Segs
    <3> QED  BY <2>1, <2>2, <3>1
  <2>4. And(n - Base[seg], s.sgmask[i]) = And(n, s.sgmask[i])  BY <1>2, <2>2, <2>3, SlotPart
  <2>5. And(n, s.sgmask[i]) \in Nat  BY <1>2, <1>5, <2>1, NotedMask
  <2>6. Then(s, i) \in Nat  BY <1>5, <2>1, HistoryParts
  <2> QED  BY <2>1, <2>4, <2>5, <2>6 DEF Then
<1>6. Unseen(h, s, n) = IF \E i \in noted : d(i) < 0 THEN Null ELSE Past(h, Slot(h, n), S)
  BY DEF Unseen
<1>7. ASSUME NEW y \in R
      PROVE  /\ hash[Key(y)] \in Nat /\ And(hash[Key(y)], s.tmask) = n
             /\ \A i \in Segs : s.sgmask[i] # 0 => And(hash[Key(y)], s.sgmask[i]) = And(n, s.sgmask[i])
  <2>1. y \in B /\ And(hash[Key(y)], h.mask) = n  BY <1>7 DEF InSlot
  <2>2. Ordered(hash, t, B)  BY GoodFacts
  <2>3. hash[Key(y)] \in Nat  BY <2>1, <2>2, BlockFacts
  <2>4. ASSUME NEW i \in Segs, s.sgmask[i] # 0  PROVE And(hash[Key(y)], s.sgmask[i]) = And(n, s.sgmask[i])
    BY <2>1, <2>3, <2>4, NotedMask
  <2> QED  BY <2>1, <2>3, <2>4
<1> HIDE DEF R
<1>8. CASE \E i \in noted : d(i) < 0
  <2>1. PICK i \in 0..seg : s.sgmask[i] # 0 /\ d(i) < 0
    <3> HIDE DEF d
    <3> QED  BY <1>4, <1>8
  <2> HIDE DEF d, noted, seg
  <2>2. i \in Segs /\ And(n, s.sgmask[i]) \in Nat /\ Then(s, i) \in Nat
        /\ And(n, s.sgmask[i]) < Then(s, i)
    BY <1>5, <2>1
  <2>3. {y \in R : Passes(s, hash[Key(y)])} = {}
    <3> SUFFICES ASSUME NEW y \in R, Passes(s, hash[Key(y)])  PROVE FALSE
      OBVIOUS
    <3>1. And(hash[Key(y)], s.sgmask[i]) = And(n, s.sgmask[i])  BY <1>7, <2>1, <2>2
    <3>2. And(hash[Key(y)], s.sgmask[i]) > Then(s, i) \/ And(hash[Key(y)], s.sgmask[i]) = Then(s, i)
      BY <2>1, <2>2 DEF Passes, Beyond
    <3> QED  BY <2>2, <3>1, <3>2
  <2>4. Unseen(h, s, n) = Null  BY <1>6, <1>8
  <2> QED  BY <2>3, <2>4 DEF IsFirst, R
<1>9. CASE ~ \E i \in noted : d(i) < 0
  <2>1. ASSUME NEW y \in R, \A k \in S : hash[Key(y)] > k  PROVE Passes(s, hash[Key(y)])
    <3> DEFINE x == hash[Key(y)]
    <3>0. x \in Nat /\ \A i \in Segs : s.sgmask[i] # 0 => And(x, s.sgmask[i]) = And(n, s.sgmask[i])
      BY <1>7
    <3>1. ASSUME NEW i \in 0..seg, s.sgmask[i] # 0
          PROVE  Beyond(s, i, x)
      <4>1. i \in Segs /\ And(n, s.sgmask[i]) \in Nat /\ Then(s, i) \in Nat
            /\ d(i) = And(n, s.sgmask[i]) - Then(s, i)
        BY <1>5, <3>1
      <4>2. i \in noted /\ ~(d(i) < 0)
        <5> HIDE DEF d
        <5> QED  BY <1>4, <1>9, <3>1
      <4>3. d(i) = 0 => x > s.sghash[i]
        <5> HIDE DEF d, noted, x
        <5>1. d(i) = 0 => s.sghash[i] \in S  BY <4>2
        <5> QED  BY <2>1, <5>1 DEF x
      <4>4. And(x, s.sgmask[i]) = And(n, s.sgmask[i])  BY <3>0, <3>1, <4>1
      <4> HIDE DEF d, x, noted
      <4> QED  BY <4>1, <4>2, <4>3, <4>4 DEF Beyond
    <3>2. ASSUME NEW i \in Segs, s.sgmask[i] # 0, ~(i <= seg)
          PROVE  Beyond(s, i, x)
      <4>1. PICK k \in Segs :
                /\ k < i /\ s.sgmask[i] = Total[k] - 1
                /\ \A j \in Segs : k < j /\ j <= i =>
                      s.sgmask[j] = s.sgmask[i] /\ s.sghash[j] = s.sghash[i]
        BY <3>2 DEF History
      <4>2. k \in Nat /\ seg \in Nat /\ i \in Nat /\ seg \in 0..seg  BY <1>2, HashAssumption DEF Segs
      <4>3. CASE k < seg
        <5>1. s.sgmask[seg] = s.sgmask[i] /\ s.sghash[seg] = s.sghash[i]
          BY <1>2, <3>2, <4>1, <4>2, <4>3
        <5>2. Then(s, seg) = Then(s, i)  BY <5>1 DEF Then
        <5> HIDE DEF x, seg
        <5>3. Beyond(s, seg, x)
          BY <3>1, <3>2, <4>2, <5>1
        <5> QED  BY <5>1, <5>2, <5>3 DEF Beyond
      <4>4. CASE ~(k < seg)
        <5>1. Total[seg] - 1 <= Total[k] - 1  BY <1>2, <4>2, <4>4, TotalsGrow
        <5>2. Total[seg] \in Nat /\ Total[k] \in Nat  BY <1>2, Totals
        <5>3. n \in 0 .. (Total[k] - 1) /\ Total[k] - 1 \in Nat  BY <1>2, <5>1, <5>2
        <5>4. And(n, s.sgmask[i]) = n  BY <4>1, <5>3, SlotMask
        <5>5. Then(s, i) < n /\ Then(s, i) \in Nat  BY <3>2, HistoryParts
        <5>6. And(x, s.sgmask[i]) = n  BY <3>0, <3>2, <5>4
        <5> QED  BY <1>2, <5>5, <5>6 DEF Beyond
      <4> QED  BY <4>3, <4>4
    <3>3. \A i \in Segs : i <= seg => i \in 0..seg
      BY <1>2, HashAssumption DEF Segs
    <3> HIDE DEF x, seg
    <3>4. Passes(s, x)  BY <3>1, <3>2, <3>3 DEF Passes
    <3> QED  BY <3>4 DEF x
  <2>2. ASSUME NEW y \in R, Passes(s, hash[Key(y)]), NEW k \in S  PROVE hash[Key(y)] > k
    <3>1. PICK i \in noted : d(i) = 0 /\ k = s.sghash[i]
      <4> HIDE DEF d, noted
      <4> QED  BY <2>2
    <3>2. i \in 0..seg /\ s.sgmask[i] # 0
      <4> HIDE DEF d
      <4> QED  BY <1>4, <3>1
    <3>3. i \in Segs /\ And(n, s.sgmask[i]) \in Nat /\ Then(s, i) \in Nat
          /\ d(i) = And(n, s.sgmask[i]) - Then(s, i)
      BY <1>5, <3>2
    <3>4. And(n, s.sgmask[i]) = Then(s, i)
      <4> HIDE DEF d
      <4> QED  BY <3>1, <3>3
    <3> HIDE DEF seg
    <3>5. And(hash[Key(y)], s.sgmask[i]) = And(n, s.sgmask[i])  BY <1>7, <3>2, <3>3
    <3>6. And(hash[Key(y)], s.sgmask[i]) > Then(s, i) \/ hash[Key(y)] > s.sghash[i]
      BY <2>2, <3>2, <3>3 DEF Passes, Beyond
    <3> QED  BY <3>1, <3>3, <3>4, <3>5, <3>6
  <2> HIDE DEF d, noted, seg, S
  <2>3. {y \in R : Passes(s, hash[Key(y)])} = {y \in R : \A k \in S : hash[Key(y)] > k}
    BY <2>1, <2>2
  <2>4. IsFirst(hash, t, {y \in R : \A k \in S : hash[Key(y)] > k}, Past(h, Slot(h, n), S))
    BY PastFirst DEF R
  <2>5. Unseen(h, s, n) = Past(h, Slot(h, n), S)  BY <1>6, <1>9
  <2> QED  BY <2>3, <2>4, <2>5 DEF R
<1> QED  BY <1>8, <1>9
-----------------------------------------------------------------------------
(* What is ahead of a suspended generation. *)

\* y will be met in slot n or a later one.
Coming(f, s, y, n) == And(f[Key(y)], s.tmask) >= n /\ Passes(s, f[Key(y)])

\* y will be met after e, in its slot or a later one.
Ahead(f, s, e, t, y) ==
    \/ Coming(f, s, y, Here(s) + 1)
    \/ And(f[Key(y)], s.tmask) = Here(s) /\ Before(f, t, e, y)

\* The generation stands at e.
Standing(f, s, e) ==
    /\ History(s) /\ Here(s) \in 0 .. s.tmask
    /\ And(f[Key(e)], s.tmask) = Here(s) /\ Passes(s, f[Key(e)])

LEMMA ThenHere ==
    ASSUME NEW f, NEW s, NEW e, Standing(f, s, e), f[Key(e)] \in Nat,
           NEW i \in Segs, s.sgmask[i] # 0
    PROVE  Then(s, i) <= Here(s)
<1> DEFINE x == f[Key(e)]
<1>1. History(s) /\ And(x, s.tmask) = Here(s) /\ Beyond(s, i, x)  BY DEF Standing, Passes
<1>2. x \in Nat  OBVIOUS
<1> HIDE DEF x
<1>3. And(x, s.sgmask[i]) \in Nat /\ And(x, s.sgmask[i]) <= And(x, s.tmask) /\ And(x, s.tmask) \in Nat
  BY <1>1, <1>2, NotedMask
<1>4. Then(s, i) \in Nat  BY <1>1, HistoryParts
<1> QED  BY <1>1, <1>3, <1>4 DEF Beyond

\* The state for a search that stops in slot n.
Placed(s, n) == [s EXCEPT !.segnum = SegOf[n], !.slotnum = n - Base[SegOf[n]]]

LEMMA Arrived ==
    ASSUME NEW s, History(s), NEW n \in 0 .. s.tmask, NEW g, g = Placed(s, n)
    PROVE  /\ History(g) /\ Here(g) = n /\ g.tmask = s.tmask
           /\ \A x : Passes(g, x) <=> Passes(s, x)
<1>1. PICK top \in Segs : s.tmask = Total[top] - 1  BY DEF History
<1>2. s \in States  BY DEF History
<1>3. SegOf[n] \in Segs /\ n - Base[SegOf[n]] \in 0 .. (segsize[SegOf[n]] - 1)  BY <1>1, SlotSegment
<1>4. Base[SegOf[n]] \in Nat /\ segsize[SegOf[n]] \in Nat  BY <1>3, Totals
<1>5. n - Base[SegOf[n]] \in Nat  BY <1>3, <1>4
<1>6. /\ g \in States /\ g.segnum = SegOf[n] /\ g.slotnum = n - Base[SegOf[n]]
      /\ g.tmask = s.tmask /\ g.sgmask = s.sgmask /\ g.sghash = s.sghash
  BY <1>2, <1>3, <1>5 DEF States, Placed
<1>7. History(g)
  <2>1. \E top2 \in Segs : g.tmask = Total[top2] - 1  BY <1>1, <1>6
  <2>2. \A i, j \in Segs : i <= j /\ g.sgmask[i] # 0 => g.sgmask[j] # 0  BY <1>6 DEF History
  <2>3. \A i \in Segs : g.sgmask[i] # 0 =>
          \E k \in Segs :
             /\ k < i /\ g.sgmask[i] = Total[k] - 1 /\ g.sgmask[i] < g.tmask
             /\ \A j \in Segs : k < j /\ j <= i =>
                   g.sgmask[j] = g.sgmask[i] /\ g.sghash[j] = g.sghash[i]
    BY <1>6 DEF History
  <2> QED  BY <1>6, <2>1, <2>2, <2>3 DEF History
<1>8. Here(g) = n
  <2> DEFINE b == Base[SegOf[n]]
  <2>1. g.segnum = SegOf[n] /\ g.slotnum = n - b /\ b \in Nat /\ n \in Nat  BY <1>4, <1>6
  <2>2. Here(g) = b + (n - b)  BY <2>1 DEF Here
  <2> HIDE DEF b
  <2> QED  BY <2>1, <2>2
<1>9. \A x : Passes(g, x) <=> Passes(s, x)  BY <1>6 DEF Passes, Beyond, Then
<1> QED  BY <1>6, <1>7, <1>8, <1>9

\* The search meets the first of what is coming.
LEMMA SearchFinds ==
    ASSUME NEW h, NEW t, NEW B, Good(hash, h, t, B), NEW s, History(s), s.tmask = h.mask,
           NEW from \in Nat, \A i \in Segs : s.sgmask[i] # 0 => Then(s, i) < from,
           NEW r, r = Search(h, s, from)
    PROVE  /\ r.ep = Null => \A y \in B : ~ Coming(hash, s, y, from)
           /\ r.ep # Null =>
                /\ r.ep \in B /\ Coming(hash, s, r.ep, from)
                /\ Standing(hash, r.s, r.ep) /\ r.s.tmask = h.mask
                /\ \A y \in B \ {r.ep} :
                      Coming(hash, s, y, from) => Ahead(hash, r.s, r.ep, t, y)
                /\ \A y \in B : Ahead(hash, r.s, r.ep, t, y) => Coming(hash, s, y, from)
<1> DEFINE R(n) == {y \in InSlot(hash, B, h.mask, n) : Passes(s, hash[Key(y)])}
           found == {n \in from .. h.mask : Unseen(h, s, n) # Null}
<1>1. Ordered(hash, t, B) /\ h.mask \in Nat  BY GoodFacts, StructureParts
<1>2. ASSUME NEW n \in from .. h.mask
      PROVE  n \in 0..h.mask /\ n \in Nat /\ IsFirst(hash, t, R(n), Unseen(h, s, n))
  <2>1. n \in 0..h.mask /\ n \in Nat /\ from <= n  BY <1>1
  <2>2. ASSUME NEW i \in Segs, s.sgmask[i] # 0  PROVE Then(s, i) < n
    <3>1. Then(s, i) < from /\ Then(s, i) \in Nat  BY <2>2, HistoryParts
    <3> QED  BY <2>1, <3>1
  <2> QED  BY <2>1, <2>2, UnseenFirst
<1>3. \A n : R(n) \in SUBSET B  BY DEF InSlot
<1>4. ASSUME NEW y \in B
      PROVE  /\ And(hash[Key(y)], s.tmask) \in 0..h.mask
             /\ \A n \in from .. h.mask :
                  y \in R(n) <=> And(hash[Key(y)], s.tmask) = n /\ Coming(hash, s, y, from)
  <2>1. And(hash[Key(y)], h.mask) \in 0..h.mask  BY GoodFacts
  <2>2. ASSUME NEW n \in from .. h.mask
        PROVE  y \in R(n) <=> And(hash[Key(y)], s.tmask) = n /\ Coming(hash, s, y, from)
    <3>1. n \in Nat /\ from <= n  BY <1>2
    <3> QED  BY <3>1 DEF InSlot, Coming
  <2> QED  BY <2>1, <2>2
<1>5. ASSUME NEW y \in B, Coming(hash, s, y, from)
      PROVE  And(hash[Key(y)], s.tmask) \in found
  <2> DEFINE n == And(hash[Key(y)], s.tmask)
  <2>1. n \in 0..h.mask /\ n >= from  BY <1>4, <1>5 DEF Coming
  <2>2. n \in from .. h.mask  BY <1>1, <2>1
  <2> HIDE DEF n
  <2>3. y \in R(n)
    <3>1. And(hash[Key(y)], s.tmask) = n  BY DEF n
    <3> HIDE DEF R
    <3> QED  BY <1>4, <1>5, <2>2, <3>1
  <2>4. R(n) \in SUBSET B /\ R(n) # {} /\ IsFirst(hash, t, R(n), Unseen(h, s, n))
    <3> HIDE DEF R
    <3> QED  BY <1>2, <1>3, <2>2, <2>3
  <2> HIDE DEF R
  <2>5. Unseen(h, s, n) # Null  BY <1>1, <2>4, FirstNull
  <2> QED  BY <2>2, <2>5 DEF n
<1>6. CASE found = {}
  <2>1. r = [s |-> s, ep |-> Null]  BY <1>6 DEF Search
  <2>2. r.ep = Null  BY <2>1
  <2> QED  BY <1>5, <1>6, <2>2
<1>7. CASE found # {}
  <2> DEFINE n == CHOOSE n \in found : \A m \in found : n <= m
             g == Placed(s, n)
             e == Unseen(h, s, n)
  <2>1. n \in found /\ \A m \in found : n <= m
    <3>1. found \in SUBSET Nat  BY <1>1
    <3>2. \E k \in found : \A m \in found : k <= m
      <4> HIDE DEF found
      <4> QED  BY <1>7, <3>1, LeastNat
    <3> HIDE DEF found
    <3> QED  BY <3>2
  <2>2. r = [s |-> g, ep |-> e]
    <3>1. r = LET q == n IN [s |-> Placed(s, q), ep |-> Unseen(h, s, q)]
      BY <1>7 DEF Search, Placed
    <3> HIDE DEF found
    <3> QED  BY <3>1
  <2>3. n \in from .. h.mask /\ e # Null  BY <2>1
  <2> HIDE DEF n
  <2>4. n \in 0..h.mask /\ n \in Nat /\ from <= n /\ IsFirst(hash, t, R(n), e)
    <3>1. n \in 0..h.mask /\ n \in Nat /\ IsFirst(hash, t, R(n), e)
      <4> HIDE DEF R
      <4> QED  BY <1>2, <2>3
    <3> QED  BY <2>3, <3>1
  <2>5. History(g) /\ Here(g) = n /\ g.tmask = s.tmask /\ \A x : Passes(g, x) <=> Passes(s, x)
    <3>1. n \in 0 .. s.tmask  BY <2>4
    <3>2. g = Placed(s, n)  OBVIOUS
    <3> HIDE DEF g, e, found, R
    <3> QED  BY <3>1, <3>2, Arrived
  <2> HIDE DEF g, e, found
  <2>6. e \in R(n) /\ e \in B /\ \A y \in R(n) \ {e} : Before(hash, t, e, y)
    <3> HIDE DEF R
    <3>1. e \in R(n)  BY <1>1, <1>3, <2>3, <2>4, FirstNull
    <3> QED  BY <1>1, <1>3, <2>3, <2>4, <3>1, FirstNull DEF IsFirst
  <2>7. And(hash[Key(e)], s.tmask) = n /\ Coming(hash, s, e, from) /\ Passes(s, hash[Key(e)])
    <3>1. And(hash[Key(e)], s.tmask) = n /\ Coming(hash, s, e, from)
      <4> HIDE DEF R
      <4> QED  BY <1>4, <2>3, <2>6
    <3> QED  BY <3>1 DEF Coming
  <2>8. Standing(hash, g, e)  BY <2>4, <2>5, <2>7 DEF Standing
  <2>9. ASSUME NEW y \in B \ {e}, Coming(hash, s, y, from)  PROVE Ahead(hash, g, e, t, y)
    <3> DEFINE m == And(hash[Key(y)], s.tmask)
    <3>1. m \in found /\ m \in 0..h.mask /\ m \in Nat  BY <1>4, <1>5, <2>9
    <3>2. n <= m  BY <2>1, <3>1
    <3>3. CASE m = n
      <4>1. y \in R(n)
        <5> HIDE DEF R
        <5> QED  BY <1>4, <2>3, <2>9, <3>3
      <4>2. Before(hash, t, e, y)
        <5> HIDE DEF R
        <5> QED  BY <2>6, <2>9, <4>1
      <4> QED  BY <2>5, <3>3, <4>2 DEF Ahead
    <3>4. CASE m # n
      <4>1. m >= n + 1  BY <2>4, <3>1, <3>2, <3>4
      <4>2. Passes(g, hash[Key(y)])  BY <2>5, <2>9 DEF Coming
      <4>3. And(hash[Key(y)], g.tmask) >= Here(g) + 1  BY <2>5, <4>1
      <4> QED  BY <4>2, <4>3 DEF Ahead, Coming
    <3> QED  BY <3>3, <3>4
  <2>10. ASSUME NEW y \in B, Ahead(hash, g, e, t, y)  PROVE Coming(hash, s, y, from)
    <3> DEFINE m == And(hash[Key(y)], s.tmask)
    <3>1. m \in 0..h.mask /\ m \in Nat  BY <1>4
    <3>2. CASE m = n /\ Before(hash, t, e, y)
      <4>1. hash[Key(e)] \in Nat /\ hash[Key(y)] \in Nat  BY <1>1, <2>6, BlockFacts
      <4>2. hash[Key(e)] <= hash[Key(y)]  BY <3>2, <4>1 DEF Before
      <4>3. ASSUME NEW i \in Segs, s.sgmask[i] # 0  PROVE Beyond(s, i, hash[Key(y)])
        <5>1. And(hash[Key(y)], s.sgmask[i]) = And(hash[Key(e)], s.sgmask[i])
          BY <2>7, <3>2, <4>1, <4>3, NotedMask
        <5>2. Beyond(s, i, hash[Key(e)])  BY <2>7, <4>3 DEF Passes
        <5>3. s.sghash[i] \in Nat  BY HistoryParts
        <5> QED  BY <4>1, <4>2, <5>1, <5>2, <5>3 DEF Beyond
      <4>4. Passes(s, hash[Key(y)])  BY <4>3 DEF Passes
      <4>5. m >= from  BY <2>4, <3>1, <3>2
      <4> QED  BY <4>4, <4>5 DEF Coming
    <3>3. CASE Coming(hash, g, y, n + 1)
      <4>1. m >= n + 1 /\ Passes(s, hash[Key(y)])  BY <2>5, <3>3 DEF Coming
      <4>2. m >= from
        <5> HIDE DEF m
        <5> QED  BY <2>4, <3>1, <4>1
      <4> QED  BY <4>1, <4>2 DEF Coming
    <3>4. (And(hash[Key(y)], g.tmask) = Here(g) /\ Before(hash, t, e, y)) \/ Coming(hash, g, y, Here(g) + 1)
      BY <2>10 DEF Ahead
    <3> QED  BY <2>5, <3>2, <3>3, <3>4
  <2>11. r.ep = e /\ r.s = g  BY <2>2
  <2> HIDE DEF R
  <2> QED  BY <2>3, <2>5, <2>6, <2>7, <2>8, <2>9, <2>10, <2>11
<1> QED  BY <1>6, <1>7

\* What comes after e in its slot was ahead at each split, as e was.
LEMMA PassesLater ==
    ASSUME NEW f, NEW s, NEW e, Standing(f, s, e), f[Key(e)] \in Nat,
           NEW x \in Nat, And(x, s.tmask) = Here(s), x >= f[Key(e)]
    PROVE  Passes(s, x)
<1> DEFINE z == f[Key(e)]
<1>1. History(s) /\ And(z, s.tmask) = Here(s) /\ Passes(s, z) /\ z \in Nat /\ x >= z
  BY DEF Standing
<1> HIDE DEF z
<1>2. ASSUME NEW i \in Segs, s.sgmask[i] # 0  PROVE Beyond(s, i, x)
  <2>1. And(x, s.sgmask[i]) = And(z, s.sgmask[i])  BY <1>1, <1>2, NotedMask
  <2>2. Beyond(s, i, z)  BY <1>1, <1>2 DEF Passes
  <2>3. s.sghash[i] \in Nat  BY <1>1, HistoryParts
  <2> QED  BY <1>1, <2>1, <2>2, <2>3 DEF Beyond
<1> QED  BY <1>2 DEF Passes

LEMMA NewSegments ==
    ASSUME NEW low \in Segs, NEW i \in Segs
    PROVE  (i >= 1 /\ segsize[i] > Total[low] - 1) <=> i > low
<1>1. i \in Nat /\ low \in Nat /\ (i <= low <=> Total[i] - 1 <= Total[low] - 1)  BY TotalsGrow
<1>2. Total[i] = Base[i] + segsize[i] /\ segsize[i] \in Nat \ {0} /\ Total[low] \in Nat /\ Base[i] \in Nat
  BY Totals
<1>3. i # 0 => Base[i] = segsize[i]  BY DEF Base
<1>4. i > low => Total[low] <= Base[i]  BY <1>1, SegmentsApart
<1>5. i > low => i >= 1 /\ segsize[i] > Total[low] - 1  BY <1>1, <1>2, <1>3, <1>4
<1>6. i <= low /\ i >= 1 => ~(segsize[i] > Total[low] - 1)
  <2>1. i <= low /\ i >= 1 => segsize[i] + segsize[i] <= Total[low]  BY <1>1, <1>2, <1>3
  <2> QED  BY <1>2, <2>1
<1> QED  BY <1>1, <1>5, <1>6

\* A split is remembered: what was ahead of e at it is what its new segments
\* let pass, and the older splits count as before.
LEMMA NotedHistory ==
    ASSUME NEW h, NEW top \in Segs, h.mask = Total[top] - 1, NEW s, NEW e, Standing(hash, s, e),
           hash[Key(e)] \in Nat, s.tmask < h.mask, NEW g, g = Noted(h, s, e)
    PROVE  /\ History(g) /\ Here(g) = Here(s) /\ g.tmask = h.mask
           /\ \A x \in Nat : Passes(g, x) <=>
                 /\ Passes(s, x)
                 /\ \/ And(x, s.tmask) > Here(s)
                    \/ And(x, s.tmask) = Here(s) /\ x > hash[Key(e)]
           /\ \A i \in Segs : g.sgmask[i] # 0 => Then(g, i) <= Here(s)
<1> DEFINE z == hash[Key(e)]
<1>1. PICK low \in Segs : s.tmask = Total[low] - 1  BY DEF Standing, History
<1>2. low < top /\ low \in Nat /\ top \in Nat  BY <1>1, TotalsGrow
<1>3. History(s) /\ s \in States /\ z \in Nat /\ And(z, s.tmask) = Here(s)  BY DEF Standing, History
<1>4. s.tmask \in Nat \ {0} /\ h.mask \in Nat  BY <1>1, MaskOf
<1>5. /\ s.sgmask \in [Segs -> Nat] /\ s.sghash \in [Segs -> Nat] /\ Here(s) \in Nat
  BY <1>3, HistoryParts
<1>6. \A i \in Segs : i \in Nat /\ ((i >= 1 /\ segsize[i] > s.tmask) <=> i > low)
  BY <1>1, NewSegments, TotalsGrow
<1> DEFINE mask == [i \in Segs |-> IF i > low THEN s.tmask ELSE s.sgmask[i]]
           num == [i \in Segs |-> IF i > low THEN z ELSE s.sghash[i]]
<1>7. /\ mask = [i \in Segs |-> IF i >= 1 /\ segsize[i] > s.tmask THEN s.tmask ELSE s.sgmask[i]]
      /\ num = [i \in Segs |-> IF i >= 1 /\ segsize[i] > s.tmask THEN z ELSE s.sghash[i]]
  BY <1>6
<1>8. mask \in [Segs -> Nat] /\ num \in [Segs -> Nat]  BY <1>3, <1>4, <1>5
<1> HIDE DEF mask, num, z
<1>9. g = [s EXCEPT !.tmask = h.mask, !.sgmask = mask, !.sghash = num]
  BY <1>7 DEF Noted, HashNum, z
<1>10. /\ g \in States /\ g.segnum = s.segnum /\ g.slotnum = s.slotnum /\ g.tmask = h.mask
       /\ g.sgmask = mask /\ g.sghash = num
  BY <1>3, <1>4, <1>8, <1>9 DEF States
<1>11. \A i \in Segs : i > low => g.sgmask[i] = s.tmask /\ g.sghash[i] = z
  BY <1>10 DEF mask, num
<1>12. \A i \in Segs : ~(i > low) => g.sgmask[i] = s.sgmask[i] /\ g.sghash[i] = s.sghash[i]
  BY <1>10 DEF mask, num
<1>13. History(g)
  <2>1. ASSUME NEW i \in Segs, NEW j \in Segs, i <= j, g.sgmask[i] # 0  PROVE g.sgmask[j] # 0
    <3>1. CASE j > low  BY <1>4, <1>11, <3>1
    <3>2. CASE ~(j > low)
      <4>1. ~(i > low)  BY <1>2, <1>6, <2>1, <3>2
      <4>2. s.sgmask[i] # 0  BY <1>12, <2>1, <4>1
      <4>3. s.sgmask[j] # 0  BY <1>3, <2>1, <4>2 DEF History
      <4> QED  BY <1>12, <3>2, <4>3
    <3> QED  BY <3>1, <3>2
  <2>2. ASSUME NEW i \in Segs, g.sgmask[i] # 0
        PROVE  \E k \in Segs :
                 /\ k < i /\ g.sgmask[i] = Total[k] - 1 /\ g.sgmask[i] < g.tmask
                 /\ \A j \in Segs : k < j /\ j <= i =>
                       g.sgmask[j] = g.sgmask[i] /\ g.sghash[j] = g.sghash[i]
    <3>1. CASE i > low
      <4>1. g.sgmask[i] = Total[low] - 1 /\ g.sgmask[i] < g.tmask  BY <1>1, <1>10, <1>11, <3>1
      <4>2. \A j \in Segs : low < j => g.sgmask[j] = g.sgmask[i] /\ g.sghash[j] = g.sghash[i]
        BY <1>2, <1>6, <1>11, <3>1
      <4> QED  BY <1>2, <1>6, <3>1, <4>1, <4>2
    <3>2. CASE ~(i > low)
      <4>1. s.sgmask[i] # 0 /\ g.sgmask[i] = s.sgmask[i] /\ g.sghash[i] = s.sghash[i]
        BY <1>12, <2>2, <3>2
      <4>2. PICK k \in Segs :
               /\ k < i /\ s.sgmask[i] = Total[k] - 1 /\ s.sgmask[i] < s.tmask
               /\ \A j \in Segs : k < j /\ j <= i =>
                     s.sgmask[j] = s.sgmask[i] /\ s.sghash[j] = s.sghash[i]
        BY <1>3, <4>1 DEF History
      <4>3. g.sgmask[i] < g.tmask
        <5>1. s.sgmask[i] \in Nat  BY <1>5
        <5> QED  BY <1>4, <1>10, <4>1, <4>2, <5>1
      <4>4. ASSUME NEW j \in Segs, k < j, j <= i
            PROVE  g.sgmask[j] = g.sgmask[i] /\ g.sghash[j] = g.sghash[i]
        <5>1. ~(j > low)  BY <1>2, <1>6, <3>2, <4>4
        <5> QED  BY <1>12, <4>1, <4>2, <4>4, <5>1
      <4> QED  BY <4>1, <4>2, <4>3, <4>4
    <3> QED  BY <3>1, <3>2
  <2>3. \E q \in Segs : g.tmask = Total[q] - 1  BY <1>10
  <2>4. \A i, j \in Segs : i <= j /\ g.sgmask[i] # 0 => g.sgmask[j] # 0  BY <2>1
  <2>5. \A i \in Segs : g.sgmask[i] # 0 =>
          \E k \in Segs :
             /\ k < i /\ g.sgmask[i] = Total[k] - 1 /\ g.sgmask[i] < g.tmask
             /\ \A j \in Segs : k < j /\ j <= i =>
                   g.sgmask[j] = g.sgmask[i] /\ g.sghash[j] = g.sghash[i]
    BY <2>2
  <2> QED  BY ONLY <1>10, <2>3, <2>4, <2>5 DEF History
<1>14. Here(g) = Here(s)  BY <1>10 DEF Here
<1>15. ASSUME NEW i \in Segs, i > low, NEW x \in Nat
       PROVE  /\ g.sgmask[i] # 0 /\ Then(g, i) = Here(s)
              /\ Beyond(g, i, x) <=> \/ And(x, s.tmask) > Here(s)
                                     \/ And(x, s.tmask) = Here(s) /\ x > z
  <2>1. g.sgmask[i] = s.tmask /\ g.sghash[i] = z  BY <1>11, <1>15
  <2>2. Then(g, i) = Here(s)  BY <1>3, <2>1 DEF Then
  <2> QED  BY <1>4, <2>1, <2>2 DEF Beyond
<1>16. ASSUME NEW i \in Segs, ~(i > low), NEW x
       PROVE  /\ g.sgmask[i] = s.sgmask[i] /\ Then(g, i) = Then(s, i)
              /\ Beyond(g, i, x) <=> Beyond(s, i, x)
  BY <1>12, <1>16 DEF Beyond, Then
<1>17. ASSUME NEW x \in Nat, Passes(g, x)  PROVE Passes(s, x)
  <2> SUFFICES ASSUME NEW i \in Segs, s.sgmask[i] # 0  PROVE Beyond(s, i, x)
    BY DEF Passes
  <2>1. CASE ~(i > low)  BY <1>16, <1>17, <2>1 DEF Passes
  <2>2. CASE i > low
    <3>1. PICK k \in Segs :
             /\ k < i /\ s.sgmask[i] = Total[k] - 1 /\ s.sgmask[i] < s.tmask
             /\ \A j \in Segs : k < j /\ j <= i =>
                   s.sgmask[j] = s.sgmask[i] /\ s.sghash[j] = s.sghash[i]
      BY <1>3 DEF History
    <3>2. k < low  BY <1>1, <3>1, TotalsGrow
    <3>3. low <= i  BY <1>2, <1>6, <2>2
    <3>4. s.sgmask[low] = s.sgmask[i] /\ s.sghash[low] = s.sghash[i]  BY <3>1, <3>2, <3>3
    <3>5. Beyond(s, low, x) <=> Beyond(s, i, x)  BY <3>4 DEF Beyond, Then
    <3>6. ~(low > low)  BY <1>2
    <3>7. Beyond(g, low, x)  BY <1>16, <1>17, <3>4, <3>6 DEF Passes
    <3> QED  BY <1>16, <3>5, <3>6, <3>7
  <2> QED  BY <2>1, <2>2
<1>18. ASSUME NEW x \in Nat
       PROVE  Passes(g, x) <=>
                 /\ Passes(s, x)
                 /\ \/ And(x, s.tmask) > Here(s)
                    \/ And(x, s.tmask) = Here(s) /\ x > z
  <2>1. ASSUME Passes(g, x)
        PROVE  \/ And(x, s.tmask) > Here(s)
               \/ And(x, s.tmask) = Here(s) /\ x > z
    <3>1. top > low  BY <1>2
    <3>2. g.sgmask[top] # 0  BY <1>15, <3>1
    <3>3. Beyond(g, top, x)  BY <2>1, <3>2 DEF Passes
    <3> QED  BY <1>15, <3>1, <3>3
  <2>2. ASSUME Passes(s, x),
               \/ And(x, s.tmask) > Here(s)
               \/ And(x, s.tmask) = Here(s) /\ x > z
        PROVE  Passes(g, x)
    <3> SUFFICES ASSUME NEW i \in Segs, g.sgmask[i] # 0  PROVE Beyond(g, i, x)
      BY DEF Passes
    <3>1. CASE i > low  BY <1>15, <2>2, <3>1
    <3>2. CASE ~(i > low)  BY <1>16, <2>2, <3>2 DEF Passes
    <3> QED  BY <3>1, <3>2
  <2> QED  BY <1>17, <2>1, <2>2
<1>19. ASSUME NEW i \in Segs, g.sgmask[i] # 0  PROVE Then(g, i) <= Here(s)
  <2>1. CASE i > low  BY <1>5, <1>15, <2>1
  <2>2. CASE ~(i > low)
    <3>1. s.sgmask[i] # 0 /\ Then(g, i) = Then(s, i)  BY <1>16, <1>19, <2>2
    <3>2. Then(s, i) <= Here(s)  BY <3>1, ThenHere
    <3> QED  BY <3>1, <3>2
  <2> QED  BY <2>1, <2>2
<1> QED  BY <1>10, <1>13, <1>14, <1>18, <1>19 DEF z

\* After a split, what was ahead of e is met in the slot of e past its hash
\* number, or in a later slot.
LEMMA SplitAhead ==
    ASSUME NEW h, NEW t, NEW B, Good(hash, h, t, B), NEW s, NEW e, Standing(hash, s, e),
           hash[Key(e)] \in Nat, s.tmask < h.mask, NEW g, g = Noted(h, s, e),
           NEW y \in B
    PROVE  LET here == And(hash[Key(y)], h.mask) = Here(s) /\ hash[Key(y)] > hash[Key(e)]
               later == Coming(hash, g, y, Here(s) + 1)
           IN  /\ here \/ later => Ahead(hash, s, e, t, y)
               /\ Ahead(hash, s, e, t, y) /\ ~(Before(hash, t, e, y) /\ hash[Key(y)] = hash[Key(e)])
                    => here \/ later
<1> DEFINE x == hash[Key(y)]
           z == hash[Key(e)]
           u == And(x, h.mask)
           l == And(x, s.tmask)
           p == Here(s)
<1>1. PICK top \in Segs : Shaped(h, top)  BY GoodFacts
<1>2. PICK low \in Segs : s.tmask = Total[low] - 1  BY DEF Standing, History
<1>3. h.mask = Total[top] - 1  BY <1>1 DEF Shaped
<1>4. low < top /\ low <= top  BY <1>2, <1>3, TotalsGrow
<1>5. x \in Nat  BY GoodFacts, BlockFacts
<1>6. History(s) /\ p \in 0 .. s.tmask /\ p \in Nat /\ s.tmask \in Nat /\ And(z, s.tmask) = p
  BY HistoryParts DEF Standing
<1>7. u \in 0..h.mask /\ u \in Nat /\ l \in 0 .. s.tmask /\ l \in Nat
  BY <1>2, <1>3, <1>5, MaskOf
<1>8. l = And(u, s.tmask)  BY <1>2, <1>3, <1>4, <1>5, MaskMask
<1>9. l <= u
  <2> HIDE DEF x, l
  <2>1. s.tmask + 1 \in Nat \ {0}  BY <1>6
  <2>2. u % (s.tmask + 1) <= u  BY <1>7, <2>1
  <2> QED  BY <1>8, <2>2 DEF And
<1>10. u <= s.tmask => l = u
  <2> HIDE DEF x, l, u
  <2>1. ASSUME u <= s.tmask  PROVE And(u, s.tmask) = u
    <3>1. u \in 0 .. s.tmask  BY <1>6, <1>7, <2>1
    <3> QED  BY <1>6, <3>1, SlotMask
  <2> QED  BY <1>8, <2>1
<1>11. /\ g.tmask = h.mask
       /\ Passes(g, x) <=> Passes(s, x) /\ (l > p \/ (l = p /\ x > z))
  <2>1. /\ g.tmask = h.mask
        /\ Passes(g, x) <=>
                 /\ Passes(s, x)
                 /\ \/ And(x, s.tmask) > Here(s)
                    \/ And(x, s.tmask) = Here(s) /\ x > hash[Key(e)]
    <3> HIDE DEF x
    <3> QED  BY <1>3, <1>5, NotedHistory
  <2> QED  BY <2>1
<1>12. /\ Before(hash, t, e, y) => x >= z
       /\ x > z => Before(hash, t, e, y)
  <2>1. z \in Nat  OBVIOUS
  <2> QED  BY <1>5, <2>1 DEF Before
<1>13. l = p /\ x >= z => Passes(s, x)
  <2> HIDE DEF x, p
  <2> QED  BY <1>5, PassesLater DEF p
<1> DEFINE here == u = p /\ x > z
           later == u >= p + 1 /\ Passes(g, x)
           ahead == (l >= p + 1 /\ Passes(s, x)) \/ (l = p /\ Before(hash, t, e, y))
<1>14. /\ Coming(hash, g, y, Here(s) + 1) <=> later
       /\ Ahead(hash, s, e, t, y) <=> ahead
  BY <1>11 DEF Coming, Ahead
<1> HIDE DEF x, z, u, l, p
<1>15. here => ahead
  <2> SUFFICES ASSUME u = p, x > z  PROVE l = p
    BY <1>12
  <2> QED  BY <1>6, <1>10
<1>16. later => ahead
  <2>1. l > p => l >= p + 1  BY <1>6, <1>7
  <2> QED  BY <1>11, <1>12, <2>1
<1>17. ahead /\ ~(Before(hash, t, e, y) /\ x = z) => here \/ later
  <2>1. l >= p + 1 => l > p /\ u >= p + 1  BY <1>6, <1>7, <1>9
  <2>2. CASE l >= p + 1 /\ Passes(s, x)  BY <1>11, <2>1, <2>2
  <2>3. CASE l = p /\ Before(hash, t, e, y) /\ x # z
    <3>1. x > z
      <4>1. z \in Nat  BY DEF z
      <4> QED  BY <1>5, <1>12, <2>3, <4>1
    <3>2. CASE u = p  BY <3>1, <3>2
    <3>3. CASE u # p
      <4>1. u >= p + 1  BY <1>6, <1>7, <1>10, <2>3, <3>3
      <4>2. Passes(s, x)
        <5>1. x >= z  BY <1>12, <2>3
        <5> QED  BY <1>13, <2>3, <5>1
      <4> QED  BY <1>11, <2>3, <3>1, <4>1, <4>2
    <3> QED  BY <3>2, <3>3
  <2> QED  BY <2>2, <2>3
<1> HIDE DEF here, later, ahead
<1>18. /\ here \/ later => Ahead(hash, s, e, t, y)
       /\ Ahead(hash, s, e, t, y) /\ ~(Before(hash, t, e, y) /\ x = z) => here \/ later
  BY <1>14, <1>15, <1>16, <1>17
<1> QED  BY <1>14, <1>18 DEF here, later, x, z, u, p

\* The link of d misses no owed block behind d: none of its hash number, and
\* while the chains are as they were, none of its slot.
Leads(f, h, s, d, t, O) ==
    /\ h.clink[d] # Null =>
          /\ h.clink[d] \in DOMAIN h.clink /\ Before(f, t, d, h.clink[d])
          /\ And(f[Key(h.clink[d])], s.tmask) = Here(s)
    /\ \A y \in Blocks(h) :
          /\ Key(y) \in O /\ Before(f, t, d, y)
          /\ f[Key(y)] = f[Key(d)] \/ (h.mask = s.tmask /\ And(f[Key(y)], s.tmask) = Here(s))
          => h.clink[d] # Null /\ (h.clink[d] = y \/ Before(f, t, h.clink[d], y))

\* A block that was deleted is in the slot of the generation, which leaves it
\* by the link it had.
Stale(f, h, s, d, t, O, Z) ==
    /\ And(f[Key(d)], s.tmask) = Here(s)
    /\ Key(d) \notin O /\ Key(d) \notin Z
    /\ Leads(f, h, s, d, t, O)

\* A generation stands at e; it has the elements O ahead of it, and the
\* elements Z behind.
Suspended(f, h, s, e, t, O, Z) ==
    /\ Good(f, h, t, Blocks(h)) /\ Ordered(f, t, DOMAIN h.clink)
    /\ e \in DOMAIN h.clink /\ Standing(f, s, e) /\ s.tmask <= h.mask
    /\ \A y \in Blocks(h) : /\ Key(y) \in O => Ahead(f, s, e, t, y)
                            /\ Key(y) \in Z => ~ Ahead(f, s, e, t, y)
    /\ \A d \in DOMAIN h.clink \ Blocks(h) : Stale(f, h, s, d, t, O, Z)

LEMMA MaskDown ==
    ASSUME NEW s, History(s), NEW top \in Segs, s.tmask <= Total[top] - 1,
           NEW x \in Nat
    PROVE  And(x, s.tmask) = And(And(x, Total[top] - 1), s.tmask)
<1>1. PICK low \in Segs : s.tmask = Total[low] - 1  BY DEF History
<1>2. low <= top  BY <1>1, TotalsGrow
<1> QED  BY <1>1, <1>2, MaskMask

LEMMA LiveLeads ==
    ASSUME NEW f, NEW h, NEW t, NEW B, Good(f, h, t, B), NEW s, History(s), s.tmask <= h.mask,
           NEW d \in B, And(f[Key(d)], s.tmask) = Here(s), NEW O
    PROVE  /\ Leads(f, h, s, d, t, O)
           /\ h.clink[d] # Null => h.clink[d] \in B
<1> DEFINE n == h.clink[d]
           S == Rest(f, t, B, h.mask, d)
<1>1. PICK top \in Segs : Shaped(h, top)  BY GoodFacts
<1>2. h.mask = Total[top] - 1 /\ Ordered(f, t, B) /\ B \subseteq DOMAIN h.clink /\ Blocks(h) = B
  BY <1>1, GoodFacts, GoodBlocks DEF Shaped
<1>3. S \in SUBSET B /\ IsFirst(f, t, S, n)  BY DEF Rest, Later, InSlot, Good, Linked
<1>4. \A y \in B : f[Key(y)] \in Nat  BY <1>2, BlockFacts
<1>5. \A y \in B : y \in S <=> And(f[Key(y)], h.mask) = And(f[Key(d)], h.mask) /\ Before(f, t, d, y)
  BY DEF Rest, Later, InSlot
<1> HIDE DEF S
<1>6. ASSUME n # Null
      PROVE  n \in B /\ Before(f, t, d, n) /\ And(f[Key(n)], s.tmask) = Here(s)
  <2> HIDE DEF n
  <2>1. n \in S  BY <1>2, <1>3, <1>6, FirstNull
  <2>2. n \in B /\ Before(f, t, d, n) /\ And(f[Key(n)], h.mask) = And(f[Key(d)], h.mask)
    BY <1>3, <1>5, <2>1
  <2>3. /\ And(f[Key(n)], s.tmask) = And(And(f[Key(n)], h.mask), s.tmask)
        /\ And(f[Key(d)], s.tmask) = And(And(f[Key(d)], h.mask), s.tmask)
    BY <1>2, <1>4, <2>2, MaskDown
  <2> QED  BY <2>2, <2>3
<1>7. ASSUME NEW y \in B, Before(f, t, d, y),
             f[Key(y)] = f[Key(d)] \/ (h.mask = s.tmask /\ And(f[Key(y)], s.tmask) = Here(s))
      PROVE  n # Null /\ (n = y \/ Before(f, t, n, y))
  <2>1. And(f[Key(y)], h.mask) = And(f[Key(d)], h.mask)  BY <1>7
  <2>2. y \in S  BY <1>5, <1>7, <2>1
  <2> HIDE DEF n
  <2>3. n # Null  BY <1>2, <1>3, <2>2, FirstNull
  <2> QED  BY <1>3, <2>2, <2>3 DEF IsFirst
<1> QED  BY <1>2, <1>6, <1>7 DEF Leads

\* Both a block in use and a deleted one lead on.
LEMMA LinkLeads ==
    ASSUME NEW f, NEW h, NEW s, NEW e, NEW t, NEW O, NEW Z, Suspended(f, h, s, e, t, O, Z)
    PROVE  /\ Leads(f, h, s, e, t, O)
           /\ e \in Blocks(h) /\ h.clink[e] # Null => h.clink[e] \in Blocks(h)
<1>1. CASE e \in Blocks(h)
  <2>1. /\ Good(f, h, t, Blocks(h)) /\ History(s) /\ s.tmask <= h.mask
        /\ And(f[Key(e)], s.tmask) = Here(s)
    BY DEF Suspended, Standing
  <2> QED  BY <1>1, <2>1, LiveLeads
<1>2. CASE e \notin Blocks(h)  BY <1>2 DEF Suspended, Stale
<1> QED  BY <1>1, <1>2

\* From e the generation moves to the first block ahead, which it had not met,
\* and only that one is not ahead afterwards; it ends when nothing is owed.
Moves(f, h, s, e, t, O, Z, r) ==
    /\ r.ep = Null => \A y \in Blocks(h) : Key(y) \notin O
    /\ r.ep # Null =>
          /\ r.ep \in DOMAIN h.clink /\ Standing(f, r.s, r.ep) /\ r.s.tmask <= h.mask
          /\ Key(r.ep) \notin Z
          /\ \A y \in Blocks(h) : Key(y) \in O /\ y # r.ep => Ahead(f, r.s, r.ep, t, y)
          /\ \A y \in Blocks(h) : Key(y) \in Z \/ y = r.ep => ~ Ahead(f, r.s, r.ep, t, y)
          /\ r.ep \in Blocks(h) \/ (r.s = s /\ r.ep = h.clink[e] /\ e \notin Blocks(h))

\* Along the link, in the slot it is in.
LEMMA LinkMoves ==
    ASSUME NEW f, NEW h, NEW s, NEW e, NEW t, NEW O, NEW Z, Suspended(f, h, s, e, t, O, Z),
           NEW n, n = h.clink[e], n # Null, h.mask = s.tmask \/ f[Key(n)] = f[Key(e)],
           NEW r, r = [s |-> s, ep |-> n]
    PROVE  Moves(f, h, s, e, t, O, Z, r)
<1> DEFINE B == Blocks(h)
           D == DOMAIN h.clink
<1>1. /\ Good(f, h, t, B) /\ Ordered(f, t, D) /\ e \in D /\ B \subseteq D
      /\ Standing(f, s, e) /\ s.tmask <= h.mask
  BY GoodFacts DEF Suspended
<1>2. Leads(f, h, s, e, t, O) /\ (e \in B => n \in B)  BY LinkLeads
<1>3. n \in D /\ Before(f, t, e, n) /\ And(f[Key(n)], s.tmask) = Here(s)
  BY <1>2 DEF Leads
<1> HIDE DEF B, D
<1>4. \A y \in D : f[Key(y)] \in Nat /\ t[y] \in Nat  BY <1>1, BlockFacts
<1>5. History(s) /\ Here(s) \in Nat  BY <1>1, HistoryParts DEF Standing
<1>6. Standing(f, s, n)
  <2>1. f[Key(n)] >= f[Key(e)] /\ f[Key(n)] \in Nat /\ f[Key(e)] \in Nat
    BY <1>1, <1>3, <1>4 DEF Before
  <2>2. Passes(s, f[Key(n)])  BY <1>1, <1>3, <2>1, PassesLater
  <2> QED  BY <1>1, <1>3, <2>2 DEF Standing
<1>7. ASSUME NEW y \in B, Ahead(f, s, e, t, y), Key(y) \in O, y # n
      PROVE  Ahead(f, s, n, t, y)
  <2>1. CASE Coming(f, s, y, Here(s) + 1)  BY <2>1 DEF Ahead
  <2>2. CASE And(f[Key(y)], s.tmask) = Here(s) /\ Before(f, t, e, y)
    <3>1. y \in D  BY <1>1
    <3>2. CASE f[Key(y)] = f[Key(e)] \/ h.mask = s.tmask
      <4>1. y \in Blocks(h)  BY DEF B
      <4>2. n # Null /\ (n = y \/ Before(f, t, n, y))  BY <1>2, <1>7, <2>2, <3>2, <4>1 DEF Leads
      <4> QED  BY <1>7, <2>2, <4>2 DEF Ahead
    <3>3. CASE ~(f[Key(y)] = f[Key(e)] \/ h.mask = s.tmask)
      <4>1. f[Key(n)] = f[Key(e)]  BY <3>3
      <4>2. Before(f, t, n, y)  BY <2>2, <3>3, <4>1 DEF Before
      <4> QED  BY <2>2, <4>2 DEF Ahead
    <3> QED  BY <3>2, <3>3
  <2> QED  BY <1>7, <2>1, <2>2 DEF Ahead
<1>8. ASSUME NEW y \in B, Ahead(f, s, n, t, y)  PROVE Ahead(f, s, e, t, y)
  <2>1. y \in D  BY <1>1
  <2>2. Before(f, t, n, y) => Before(f, t, e, y)  BY <1>1, <1>3, <2>1, TotalOrder
  <2> QED  BY <1>8, <2>2 DEF Ahead
<1>9. ~ Ahead(f, s, n, t, n)
  <2>1. ~ Before(f, t, n, n)  BY <1>1, <1>3, TotalOrder
  <2> DEFINE k == Here(s)
  <2>2. ~(k >= k + 1)
    <3>1. k \in Nat  BY <1>5
    <3> HIDE DEF k
    <3> QED  BY <3>1
  <2> QED  BY <1>3, <2>1, <2>2 DEF Ahead, Coming
<1>10. \A y \in B : /\ Key(y) \in O => Ahead(f, s, e, t, y)
                    /\ Key(y) \in Z => ~ Ahead(f, s, e, t, y)
  BY DEF Suspended, B
<1>11. Key(n) \notin Z
  <2>1. CASE n \in B
    <3>1. Ahead(f, s, e, t, n)  BY <1>3 DEF Ahead
    <3> QED  BY <1>10, <2>1, <3>1
  <2>2. CASE n \notin B
    <3>1. n \in DOMAIN h.clink \ Blocks(h)  BY <1>3, <2>2 DEF B, D
    <3> QED  BY <3>1 DEF Suspended, Stale
  <2> QED  BY <2>1, <2>2
<1>12. r.ep = n /\ r.s = s  OBVIOUS
<1>13. \A y \in B : Key(y) \in O /\ y # n => Ahead(f, s, n, t, y)  BY <1>7, <1>10
<1>14. \A y \in B : Key(y) \in Z \/ y = n => ~ Ahead(f, s, n, t, y)  BY <1>8, <1>9, <1>10
<1>15. n \in B \/ e \notin B  BY <1>2
<1> QED  BY <1>1, <1>3, <1>6, <1>11, <1>12, <1>13, <1>14, <1>15 DEF Moves, B, D

\* To the first block in its slot past the hash number, after a split.
LEMMA PastMoves ==
    ASSUME NEW h, NEW s, NEW e, NEW t, NEW O, NEW Z, Suspended(hash, h, s, e, t, O, Z),
           Split(h, s, e), NEW n, n = Past(h, Slot(h, Here(s)), {hash[Key(e)]}),
           NEW g, g = Noted(h, s, e), NEW B, B = Blocks(h)
    PROVE  /\ s.tmask < h.mask /\ hash[Key(e)] \in Nat
           /\ n # Null => Moves(hash, h, s, e, t, O, Z, [s |-> g, ep |-> n])
           /\ n = Null => \A y \in B : /\ Key(y) \in O => Coming(hash, g, y, Here(s) + 1)
                                       /\ Key(y) \in Z => ~ Coming(hash, g, y, Here(s) + 1)
<1> DEFINE D == DOMAIN h.clink
           p == Here(s)
           z == hash[Key(e)]
           X == {y \in InSlot(hash, B, h.mask, p) : \A k \in {z} : hash[Key(y)] > k}
<1>1. /\ Good(hash, h, t, B) /\ Ordered(hash, t, D) /\ e \in D /\ B \subseteq D
      /\ Standing(hash, s, e) /\ s.tmask <= h.mask /\ h.mask # s.tmask
  BY GoodFacts DEF Suspended, Split
<1>2. PICK top \in Segs : Shaped(h, top)  BY <1>1, GoodFacts
<1>3. h.mask = Total[top] - 1 /\ h.mask \in Nat  BY <1>2, MaskOf DEF Shaped
<1>4. History(s) /\ p \in 0 .. s.tmask /\ p \in Nat /\ s.tmask \in Nat /\ And(z, s.tmask) = p
  BY <1>1, HistoryParts DEF Standing
<1>5. s.tmask < h.mask /\ p \in 0..h.mask  BY <1>1, <1>3, <1>4
<1>6. z \in Nat /\ \A y \in D : hash[Key(y)] \in Nat /\ t[y] \in Nat  BY <1>1, BlockFacts
<1>7. IsFirst(hash, t, X, n)  BY <1>1, <1>5, PastFirst
<1>8. X \in SUBSET B /\ \A y \in B : y \in X <=> And(hash[Key(y)], h.mask) = p /\ hash[Key(y)] > z
  BY DEF InSlot
<1>9. Ordered(hash, t, B)  BY <1>1, GoodFacts
<1> DEFINE here(y) == And(hash[Key(y)], h.mask) = p /\ hash[Key(y)] > z
           later(y) == Coming(hash, g, y, p + 1)
<1>10. ASSUME NEW y \in B
       PROVE  /\ here(y) \/ later(y) => Ahead(hash, s, e, t, y)
              /\ Ahead(hash, s, e, t, y) /\ ~(Before(hash, t, e, y) /\ hash[Key(y)] = z)
                    => here(y) \/ later(y)
  BY <1>1, <1>5, <1>6, SplitAhead
<1>11. ASSUME NEW y \in B, Key(y) \in O  PROVE here(y) \/ later(y)
  <2>1. Ahead(hash, s, e, t, y) /\ y \in D  BY <1>1, <1>11 DEF Suspended
  <2>2. ASSUME Before(hash, t, e, y), hash[Key(y)] = z  PROVE FALSE
    <3> DEFINE m == h.clink[e]
    <3>1. Leads(hash, h, s, e, t, O)  BY LinkLeads
    <3>2. m # Null /\ (m = y \/ Before(hash, t, m, y))  BY <1>11, <2>2, <3>1 DEF Leads
    <3>3. m \in D /\ Before(hash, t, e, m)  BY <3>1, <3>2 DEF Leads
    <3>4. hash[Key(m)] # z  BY <3>2 DEF Split, HashNum
    <3> HIDE DEF m
    <3>5. hash[Key(m)] \in Nat  BY <1>6, <3>3
    <3> QED  BY <1>6, <2>2, <3>2, <3>3, <3>4, <3>5 DEF Before
  <2> QED  BY <1>10, <2>1, <2>2
<1>12. ASSUME NEW y \in B, Key(y) \in Z  PROVE ~ here(y) /\ ~ later(y)
  <2>1. ~ Ahead(hash, s, e, t, y)  BY <1>12 DEF Suspended
  <2> QED  BY <1>10, <2>1
<1>13. History(g) /\ Here(g) = p /\ g.tmask = h.mask
       /\ \A x \in Nat : Passes(g, x) <=>
             /\ Passes(s, x)
             /\ \/ And(x, s.tmask) > p
                \/ And(x, s.tmask) = p /\ x > z
  BY <1>1, <1>3, <1>5, <1>6, NotedHistory
<1> HIDE DEF z, p, D
<1>14. CASE n = Null
  <2>1. X = {}
    <3> HIDE DEF X
    <3> QED  BY <1>7, <1>8, <1>9, <1>14, FirstNull
  <2>2. \A y \in B : ~ here(y)
    <3> HIDE DEF X
    <3> QED  BY <1>8, <2>1
  <2>3. \A y \in B : (Key(y) \in O => later(y)) /\ (Key(y) \in Z => ~ later(y))
    <3> HIDE DEF here, later
    <3> QED  BY <1>11, <1>12, <2>2
  <2> QED  BY <1>5, <1>6, <1>14, <2>3 DEF z, p
<1>15. CASE n # Null
  <2>1. n \in X /\ \A y \in X \ {n} : Before(hash, t, n, y)
    <3> HIDE DEF X
    <3>1. n \in X  BY <1>7, <1>8, <1>9, <1>15, FirstNull
    <3> QED  BY <1>7, <1>8, <1>9, <1>15, <3>1, FirstNull DEF IsFirst
  <2>2. n \in B /\ n \in D /\ here(n)
    <3> HIDE DEF X
    <3> QED  BY <1>1, <1>8, <2>1
  <2>3. hash[Key(n)] \in Nat /\ hash[Key(n)] > z /\ And(hash[Key(n)], h.mask) = p
    BY <1>6, <2>2
  <2>4. And(hash[Key(n)], s.tmask) = p
    <3>1. And(hash[Key(n)], s.tmask) = And(And(hash[Key(n)], h.mask), s.tmask)
      BY <1>1, <1>3, <1>4, <2>3, MaskDown
    <3>2. And(p, s.tmask) = p  BY <1>4, SlotMask
    <3> QED  BY <2>3, <3>1, <3>2
  <2>5. Passes(s, hash[Key(n)])
    <3>1. hash[Key(n)] >= z /\ And(hash[Key(n)], s.tmask) = Here(s)  BY <1>6, <2>3, <2>4 DEF p
    <3> QED  BY <1>1, <1>6, <2>3, <3>1, PassesLater DEF z
  <2>6. Standing(hash, g, n)
    <3>1. Passes(g, hash[Key(n)])  BY <1>13, <2>3, <2>4, <2>5
    <3>2. Here(g) \in 0 .. g.tmask  BY <1>5, <1>13
    <3> QED  BY <1>13, <2>3, <3>1, <3>2 DEF Standing
  <2>7. \A y : Ahead(hash, g, n, t, y) <=> later(y) \/ (And(hash[Key(y)], h.mask) = p /\ Before(hash, t, n, y))
    BY <1>13 DEF Ahead
  <2>8. ASSUME NEW y \in B, Key(y) \in O, y # n  PROVE Ahead(hash, g, n, t, y)
    <3>1. CASE later(y)  BY <2>7, <3>1
    <3>2. CASE here(y)
      <4>1. y \in X \ {n}
        <5> HIDE DEF X
        <5> QED  BY <1>8, <2>8, <3>2
      <4>2. Before(hash, t, n, y)
        <5> HIDE DEF X
        <5> QED  BY <2>1, <4>1
      <4> QED  BY <2>7, <3>2, <4>2
    <3> QED  BY <1>11, <2>8, <3>1, <3>2
  <2>9. ASSUME NEW y \in B, Key(y) \in Z  PROVE ~ Ahead(hash, g, n, t, y)
    <3>1. y \in D /\ hash[Key(y)] \in Nat  BY <1>1, <1>6
    <3>2. Before(hash, t, n, y) => hash[Key(y)] > z  BY <1>6, <2>3, <3>1 DEF Before
    <3> QED  BY <1>12, <2>7, <2>9, <3>2
  <2>10. ~ Ahead(hash, g, n, t, n)
    <3>1. ~ Before(hash, t, n, n)  BY <1>9, <2>2, TotalOrder
    <3>2. ~(p >= p + 1)  BY <1>4
    <3>3. ~ later(n)  BY <1>13, <2>3, <3>2 DEF Coming
    <3> QED  BY <2>7, <3>1, <3>3
  <2>11. Key(n) \notin Z  BY <1>12, <2>2
  <2> DEFINE r == [s |-> g, ep |-> n]
  <2>12. r.ep = n /\ r.s = g /\ g.tmask <= h.mask  BY <1>3, <1>13
  <2>13. Moves(hash, h, s, e, t, O, Z, r)
    <3> HIDE DEF r, X, here, later
    <3> QED  BY <1>15, <2>2, <2>6, <2>8, <2>9, <2>10, <2>11, <2>12 DEF Moves, D
  <2> QED  BY <1>5, <1>6, <1>15, <2>13 DEF z
<1> QED  BY <1>14, <1>15

\* To the next slot with a block ahead.
LEMMA SearchMoves ==
    ASSUME NEW h, NEW t, NEW B, B = Blocks(h), Good(hash, h, t, B),
           NEW g, History(g), g.tmask = h.mask,
           NEW from \in Nat, \A i \in Segs : g.sgmask[i] # 0 => Then(g, i) < from,
           NEW O, NEW Z, \A y \in B : /\ Key(y) \in O => Coming(hash, g, y, from)
                                      /\ Key(y) \in Z => ~ Coming(hash, g, y, from),
           NEW s, NEW e
    PROVE  /\ Moves(hash, h, s, e, t, O, Z, Search(h, g, from))
           /\ Search(h, g, from).ep # Null => Search(h, g, from).ep \in B
<1> DEFINE r == Search(h, g, from)
           n == r.ep
<1>1. /\ n = Null => \A y \in B : ~ Coming(hash, g, y, from)
      /\ n # Null =>
           /\ n \in B /\ Coming(hash, g, n, from)
           /\ Standing(hash, r.s, n) /\ r.s.tmask = h.mask
           /\ \A y \in B \ {n} :
                 Coming(hash, g, y, from) => Ahead(hash, r.s, n, t, y)
           /\ \A y \in B : Ahead(hash, r.s, n, t, y) => Coming(hash, g, y, from)
  BY SearchFinds
<1>2. Ordered(hash, t, B) /\ B \subseteq DOMAIN h.clink /\ h.mask \in Nat
  BY GoodFacts, StructureParts
<1> HIDE DEF r
<1>3. ASSUME n # Null  PROVE ~ Ahead(hash, r.s, n, t, n)
  <2>1. n \in B /\ Standing(hash, r.s, n)  BY <1>1, <1>3
  <2>2. ~ Before(hash, t, n, n)  BY <1>2, <2>1, TotalOrder
  <2>3. History(r.s) /\ And(hash[Key(n)], r.s.tmask) = Here(r.s)  BY <2>1 DEF Standing
  <2>4. Here(r.s) \in Nat  BY <2>3, HistoryParts
  <2> DEFINE k == Here(r.s)
  <2>5. ~(k >= k + 1)
    <3>1. k \in Nat  BY <2>4
    <3> HIDE DEF k
    <3> QED  BY <3>1
  <2> QED  BY <2>2, <2>3, <2>5 DEF Ahead, Coming
<1>4. n = Null => \A y \in B : Key(y) \notin O  BY <1>1
<1>5. ASSUME n # Null
      PROVE  /\ n \in DOMAIN h.clink /\ Standing(hash, r.s, n) /\ r.s.tmask <= h.mask
             /\ Key(n) \notin Z
             /\ \A y \in B : Key(y) \in O /\ y # n => Ahead(hash, r.s, n, t, y)
             /\ \A y \in B : Key(y) \in Z \/ y = n => ~ Ahead(hash, r.s, n, t, y)
             /\ n \in B
  <2>1. n \in B /\ n \in DOMAIN h.clink /\ Standing(hash, r.s, n) /\ r.s.tmask <= h.mask
    BY <1>1, <1>2, <1>5
  <2>2. Key(n) \notin Z  BY <1>1, <1>5
  <2>3. \A y \in B : Key(y) \in O /\ y # n => Ahead(hash, r.s, n, t, y)  BY <1>1, <1>5
  <2>4. \A y \in B : Key(y) \in Z \/ y = n => ~ Ahead(hash, r.s, n, t, y)  BY <1>1, <1>3, <1>5
  <2> QED  BY <2>1, <2>2, <2>3, <2>4
<1>6. Moves(hash, h, s, e, t, O, Z, r)  BY <1>4, <1>5 DEF Moves
<1> QED  BY <1>5, <1>6 DEF r

\* hgnext() moves the generation on (rstruct.r:417).
LEMMA HgnextMoves ==
    ASSUME NEW h, NEW s, NEW e, NEW t, NEW O, NEW Z, Suspended(hash, h, s, e, t, O, Z)
    PROVE  Moves(hash, h, s, e, t, O, Z, hgnext(h, s, e))
<1> DEFINE B == Blocks(h)
           g == IF Split(h, s, e) THEN Noted(h, s, e) ELSE s
           n == IF Split(h, s, e) THEN Past(h, Slot(h, Here(s)), {HashNum(e)}) ELSE h.clink[e]
           from == Here(s) + 1
<1>1. /\ Good(hash, h, t, B) /\ Ordered(hash, t, DOMAIN h.clink) /\ e \in DOMAIN h.clink
      /\ Standing(hash, s, e) /\ s.tmask <= h.mask
  BY DEF Suspended
<1>2. hgnext(h, s, e) = IF n # Null THEN [s |-> g, ep |-> n] ELSE Search(h, g, from)
  BY DEF hgnext, Here
<1>3. History(s) /\ Here(s) \in Nat /\ from \in Nat /\ s.tmask \in Nat
      /\ And(hash[Key(e)], s.tmask) = Here(s)
  <2>1. History(s) /\ Here(s) \in Nat /\ And(hash[Key(e)], s.tmask) = Here(s) /\ s.tmask \in Nat
    BY <1>1, HistoryParts DEF Standing
  <2> DEFINE k == Here(s)
  <2>2. k + 1 \in Nat
    <3>1. k \in Nat  BY <2>1
    <3> HIDE DEF k
    <3> QED  BY <3>1
  <2> QED  BY <2>1, <2>2
<1>4. h.mask \in Nat /\ \E top \in Segs : h.mask = Total[top] - 1
  BY <1>1, GoodFacts, StructureParts DEF Shaped
<1>5. hash[Key(e)] \in Nat  BY <1>1, BlockFacts
<1>6. ASSUME n = Null, History(g), g.tmask = h.mask,
             \A i \in Segs : g.sgmask[i] # 0 => Then(g, i) <= Here(s),
             \A y \in B : /\ Key(y) \in O => Coming(hash, g, y, from)
                          /\ Key(y) \in Z => ~ Coming(hash, g, y, from)
      PROVE  Moves(hash, h, s, e, t, O, Z, hgnext(h, s, e))
  <2>1. ASSUME NEW i \in Segs, g.sgmask[i] # 0  PROVE Then(g, i) < from
    <3> DEFINE a == Then(g, i)
               k == Here(s)
    <3>1. a \in Nat /\ a <= k /\ k \in Nat  BY <1>3, <1>6, <2>1, HistoryParts
    <3> HIDE DEF a, k
    <3>2. a < k + 1  BY <3>1
    <3> QED  BY <3>2 DEF a, k
  <2>2. B = Blocks(h)  OBVIOUS
  <2>3. hgnext(h, s, e) = Search(h, g, from)  BY <1>2, <1>6
  <2> HIDE DEF B, g, n, from
  <2>4. Moves(hash, h, s, e, t, O, Z, Search(h, g, from))
    BY <1>1, <1>3, <1>6, <2>1, <2>2, SearchMoves
  <2> QED  BY <2>3, <2>4
<1>7. CASE Split(h, s, e)
  <2>1. g = Noted(h, s, e) /\ n = Past(h, Slot(h, Here(s)), {hash[Key(e)]})
    BY <1>7 DEF HashNum
  <2>2. B = Blocks(h)  OBVIOUS
  <2> HIDE DEF g, n, B
  <2>3. /\ s.tmask < h.mask
        /\ n # Null => Moves(hash, h, s, e, t, O, Z, [s |-> g, ep |-> n])
        /\ n = Null => \A y \in B : /\ Key(y) \in O => Coming(hash, g, y, Here(s) + 1)
                                    /\ Key(y) \in Z => ~ Coming(hash, g, y, Here(s) + 1)
    BY <1>7, <2>1, <2>2, PastMoves
  <2>4. CASE n # Null
    <3>1. hgnext(h, s, e) = [s |-> g, ep |-> n]  BY <1>2, <2>4
    <3> QED  BY <2>3, <2>4, <3>1
  <2>5. CASE n = Null
    <3>1. /\ History(g) /\ g.tmask = h.mask
          /\ \A i \in Segs : g.sgmask[i] # 0 => Then(g, i) <= Here(s)
      BY <1>1, <1>4, <1>5, <2>1, <2>3, NotedHistory
    <3>2. \A y \in B : /\ Key(y) \in O => Coming(hash, g, y, from)
                       /\ Key(y) \in Z => ~ Coming(hash, g, y, from)
      BY <2>3, <2>5
    <3> HIDE DEF from
    <3> QED  BY <1>6, <2>5, <3>1, <3>2
  <2> QED  BY <2>4, <2>5
<1>8. CASE ~ Split(h, s, e)
  <2>1. g = s /\ n = h.clink[e]  BY <1>8
  <2>2. h.mask = s.tmask \/ (n # Null /\ hash[Key(n)] = hash[Key(e)])
    BY <1>8, <2>1 DEF Split, HashNum
  <2> HIDE DEF g, n
  <2>3. CASE n # Null
    <3>1. h.mask = s.tmask \/ hash[Key(n)] = hash[Key(e)]  BY <2>2
    <3>2. Moves(hash, h, s, e, t, O, Z, [s |-> s, ep |-> n])  BY <2>1, <2>3, <3>1, LinkMoves
    <3>3. hgnext(h, s, e) = [s |-> s, ep |-> n]  BY <1>2, <2>1, <2>3
    <3> QED  BY <3>2, <3>3
  <2>4. CASE n = Null
    <3>1. s.tmask = h.mask  BY <2>2, <2>4
    <3>2. \A i \in Segs : s.sgmask[i] # 0 => Then(s, i) <= Here(s)  BY <1>1, <1>5, ThenHere
    <3>3. ASSUME NEW y \in B, Key(y) \in O  PROVE Coming(hash, s, y, from)
      <4>1. Ahead(hash, s, e, t, y)  BY <3>3 DEF Suspended
      <4>2. ASSUME And(hash[Key(y)], s.tmask) = Here(s), Before(hash, t, e, y)  PROVE FALSE
        <5>1. Leads(hash, h, s, e, t, O)  BY LinkLeads
        <5> QED  BY <2>1, <2>4, <3>1, <3>3, <4>2, <5>1 DEF Leads
      <4> QED  BY <4>1, <4>2 DEF Ahead
    <3>4. ASSUME NEW y \in B, Key(y) \in Z  PROVE ~ Coming(hash, s, y, from)
      BY <3>4 DEF Suspended, Ahead
    <3>5. \A y \in B : /\ Key(y) \in O => Coming(hash, g, y, from)
                       /\ Key(y) \in Z => ~ Coming(hash, g, y, from)
      BY <2>1, <3>3, <3>4
    <3>6. /\ History(g) /\ g.tmask = h.mask
          /\ \A i \in Segs : g.sgmask[i] # 0 => Then(g, i) <= Here(s)
      BY <1>3, <2>1, <3>1, <3>2
    <3> HIDE DEF from, B
    <3> QED  BY <1>6, <2>4, <3>5, <3>6
  <2> QED  BY <2>3, <2>4
<1> QED  BY <1>7, <1>8

\* hgfirst() starts with all elements ahead (rstruct.r:384).
LEMMA HgfirstMoves ==
    ASSUME NEW h, NEW t, NEW B, B = Blocks(h), Good(hash, h, t, B), NEW O, NEW s, NEW e
    PROVE  /\ Moves(hash, h, s, e, t, O, {}, hgfirst(h))
           /\ hgfirst(h).ep # Null => hgfirst(h).ep \in B
<1> DEFINE g == [NoState EXCEPT !.tmask = h.mask]
<1>1. PICK top \in Segs : h.mask = Total[top] - 1 /\ h.mask \in Nat
  BY GoodFacts, StructureParts DEF Shaped
<1>2. 0 \in Segs  BY HashAssumption DEF Segs
<1>3. /\ g \in States /\ g.tmask = h.mask /\ \A i \in Segs : g.sgmask[i] = 0
  BY <1>1, <1>2 DEF States, NoState
<1>4. hgfirst(h) = Search(h, g, 0)  BY DEF hgfirst
<1> HIDE DEF g
<1>5. History(g)  BY <1>1, <1>3 DEF History
<1>6. \A x : Passes(g, x)  BY <1>3 DEF Passes
<1>7. ASSUME NEW y \in B  PROVE Coming(hash, g, y, 0)
  <2>1. And(hash[Key(y)], h.mask) \in 0..h.mask  BY GoodFacts
  <2> DEFINE k == And(hash[Key(y)], h.mask)
  <2>2. k >= 0
    <3>1. k \in 0..h.mask  BY <2>1
    <3> HIDE DEF k
    <3> QED  BY <1>1, <3>1
  <2> QED  BY <1>3, <1>6, <2>2 DEF Coming
<1>8. \A y \in B : /\ Key(y) \in O => Coming(hash, g, y, 0)
                   /\ Key(y) \in {} => ~ Coming(hash, g, y, 0)
  BY <1>7
<1>9. 0 \in Nat /\ \A i \in Segs : g.sgmask[i] # 0 => Then(g, i) < 0  BY <1>3
<1> DEFINE Z == {}
<1>10. \A y \in B : /\ Key(y) \in O => Coming(hash, g, y, 0)
                    /\ Key(y) \in Z => ~ Coming(hash, g, y, 0)
  BY <1>8
<1> HIDE DEF Z
<1>11. /\ Moves(hash, h, s, e, t, O, Z, Search(h, g, 0))
       /\ Search(h, g, 0).ep # Null => Search(h, g, 0).ep \in B
  BY <1>3, <1>5, <1>9, <1>10, SearchMoves
<1> QED  BY <1>4, <1>11 DEF Z
-----------------------------------------------------------------------------
(* A walk from any block, in use or not. *)

\* S has e and what the links lead to from its blocks.
Closed(clink, S, e) == e \in S /\ \A d \in S : clink[d] # Null => clink[d] \in S

Reached(clink, C, e) == {x \in C : \A S \in SUBSET C : Closed(clink, S, e) => x \in S}

LEMMA ReachedClosed ==
    ASSUME NEW clink, NEW C, NEW e, Closed(clink, C, e)
    PROVE  /\ Closed(clink, Reached(clink, C, e), e) /\ Reached(clink, C, e) \subseteq C
           /\ \A S \in SUBSET Reached(clink, C, e) :
                 Closed(clink, S, e) => S = Reached(clink, C, e)
<1> DEFINE R == Reached(clink, C, e)
<1>1. R \subseteq C /\ \A x \in C : x \in R <=> \A S \in SUBSET C : Closed(clink, S, e) => x \in S
  BY DEF Reached
<1>2. e \in R  BY <1>1 DEF Closed
<1>3. ASSUME NEW d \in R, clink[d] # Null  PROVE clink[d] \in R
  <2>1. clink[d] \in C  BY <1>1, <1>3 DEF Closed
  <2>2. ASSUME NEW S \in SUBSET C, Closed(clink, S, e)  PROVE clink[d] \in S
    <3>1. d \in S  BY <1>1, <2>2
    <3> QED  BY <1>3, <2>2, <3>1 DEF Closed
  <2> QED  BY <1>1, <2>1, <2>2
<1>4. ASSUME NEW S \in SUBSET R, Closed(clink, S, e)  PROVE S = R
  <2>1. S \in SUBSET C  BY <1>1
  <2> QED  BY <1>1, <1>4, <2>1
<1> QED  BY <1>1, <1>2, <1>3, <1>4 DEF Closed

LEMMA ReachedOrder ==
    ASSUME NEW f, NEW t, NEW C, Ordered(f, t, C), NEW clink, NEW e, Closed(clink, C, e),
           \A d \in C : clink[d] # Null => Before(f, t, d, clink[d])
    PROVE  /\ IsFirst(f, t, Reached(clink, C, e), e)
           /\ \A x \in Reached(clink, C, e) :
                 IsFirst(f, t, Later(f, t, Reached(clink, C, e), x), clink[x])
<1> DEFINE R == Reached(clink, C, e)
           AtMost(x, y) == x = y \/ Before(f, t, x, y)
           LeadsTo(x) == \A y \in R : Before(f, t, y, x) => clink[y] # Null /\ AtMost(clink[y], x)
<1>1. /\ R \subseteq C /\ e \in R
      /\ \A d \in R : clink[d] # Null => clink[d] \in R /\ Before(f, t, d, clink[d])
      /\ \A S \in SUBSET R : Closed(clink, S, e) => S = R
  <2>1. /\ Closed(clink, R, e) /\ R \subseteq C
        /\ \A S \in SUBSET R : Closed(clink, S, e) => S = R
    BY ReachedClosed
  <2> HIDE DEF R
  <2> QED  BY <2>1 DEF Closed
<1> HIDE DEF R
<1>2. \A x, y, z \in R : /\ ~ Before(f, t, x, x)
                         /\ x # y => Before(f, t, x, y) \/ Before(f, t, y, x)
                         /\ ~(Before(f, t, x, y) /\ Before(f, t, y, x))
                         /\ Before(f, t, x, y) /\ Before(f, t, y, z) => Before(f, t, x, z)
  BY <1>1, TotalOrder
<1>3. \A y \in R : AtMost(e, y)
  <2> DEFINE S == {y \in R : AtMost(e, y)}
  <2>1. Closed(clink, S, e)
    <3>1. e \in S  BY <1>1
    <3>2. ASSUME NEW d \in S, clink[d] # Null  PROVE clink[d] \in S  BY <1>1, <1>2, <3>2
    <3> HIDE DEF S
    <3> QED  BY <3>1, <3>2 DEF Closed
  <2>2. S \in SUBSET R  OBVIOUS
  <2>3. S = R
    <3> HIDE DEF S
    <3> QED  BY <1>1, <2>1, <2>2
  <2> QED  BY <2>3
<1>4. ASSUME NEW x \in R, LeadsTo(x), NEW y \in R
      PROVE  AtMost(y, x) \/ (clink[x] # Null /\ AtMost(clink[x], y))
  <2> DEFINE S == {v \in R : AtMost(v, x) \/ (clink[x] # Null /\ AtMost(clink[x], v))}
  <2>1. e \in S  BY <1>1, <1>3
  <2>2. ASSUME NEW d \in S, clink[d] # Null  PROVE clink[d] \in S
    <3>1. d \in R /\ clink[d] \in R /\ Before(f, t, d, clink[d])  BY <1>1, <2>2
    <3>2. CASE d = x  BY <3>1, <3>2, <2>2
    <3>3. CASE Before(f, t, d, x)
      <4>1. AtMost(clink[d], x)  BY <1>4, <3>1, <3>3
      <4> QED  BY <3>1, <4>1
    <3>4. CASE clink[x] # Null /\ AtMost(clink[x], d)
      <4>1. clink[x] \in R  BY <1>1, <3>4
      <4>2. Before(f, t, clink[x], clink[d])  BY <1>2, <3>1, <3>4, <4>1
      <4> QED  BY <3>1, <3>4, <4>2
    <3>5. AtMost(d, x) \/ (clink[x] # Null /\ AtMost(clink[x], d))  OBVIOUS
    <3> QED  BY <3>2, <3>3, <3>4, <3>5
  <2>3. S \in SUBSET R  OBVIOUS
  <2>4. S = R
    <3> HIDE DEF S
    <3>1. Closed(clink, S, e)  BY <2>1, <2>2 DEF Closed
    <3> QED  BY <1>1, <2>3, <3>1
  <2> QED  BY <2>4
<1>5. ASSUME NEW x \in R  PROVE LeadsTo(x)
  <2> DEFINE S == {v \in R : LeadsTo(v)}
  <2>1. e \in S
    <3>1. ASSUME NEW y \in R, Before(f, t, y, e)  PROVE FALSE  BY <1>1, <1>2, <1>3, <3>1
    <3> QED  BY <1>1, <3>1
  <2>2. ASSUME NEW d \in S, clink[d] # Null  PROVE clink[d] \in S
    <3>1. d \in R /\ LeadsTo(d) /\ clink[d] \in R /\ Before(f, t, d, clink[d])  BY <1>1, <2>2
    <3>2. ASSUME NEW y \in R, Before(f, t, y, clink[d])
          PROVE  clink[y] # Null /\ AtMost(clink[y], clink[d])
      <4>1. AtMost(y, d) \/ (clink[d] # Null /\ AtMost(clink[d], y))
        <5> HIDE DEF LeadsTo, AtMost
        <5> QED  BY <1>4, <3>1
      <4>2. CASE y = d  BY <2>2, <4>2
      <4>3. CASE Before(f, t, y, d)
        <5>1. clink[y] # Null /\ AtMost(clink[y], d)  BY <3>1, <4>3
        <5>2. clink[y] \in R  BY <1>1, <5>1
        <5> QED  BY <1>2, <3>1, <5>1, <5>2
      <4>4. CASE AtMost(clink[d], y)  BY <1>2, <3>1, <3>2, <4>4
      <4> QED  BY <4>1, <4>2, <4>3, <4>4
    <3> QED  BY <3>1, <3>2
  <2>3. S \in SUBSET R  OBVIOUS
  <2>4. S = R
    <3> HIDE DEF S
    <3>1. Closed(clink, S, e)  BY <2>1, <2>2 DEF Closed
    <3> QED  BY <1>1, <2>3, <3>1
  <2> HIDE DEF LeadsTo
  <2> QED  BY <2>4
<1>6. IsFirst(f, t, R, e)  BY <1>1, <1>3 DEF IsFirst
<1>7. ASSUME NEW x \in R  PROVE IsFirst(f, t, Later(f, t, R, x), clink[x])
  <2>1. \A y \in R : AtMost(y, x) \/ (clink[x] # Null /\ AtMost(clink[x], y))
    <3>1. LeadsTo(x)
      <4> HIDE DEF LeadsTo
      <4> QED  BY <1>5
    <3> HIDE DEF LeadsTo, AtMost
    <3> QED  BY <1>4, <3>1
  <2>2. \A y \in Later(f, t, R, x) : y \in R /\ clink[x] # Null /\ AtMost(clink[x], y)
    BY <1>2, <2>1 DEF Later
  <2>3. CASE clink[x] = Null
    <3>1. Later(f, t, R, x) = {}  BY <2>2, <2>3
    <3> QED  BY <2>3, <3>1 DEF IsFirst
  <2>4. CASE clink[x] # Null
    <3>1. clink[x] \in Later(f, t, R, x)  BY <1>1, <2>4 DEF Later
    <3> QED  BY <2>2, <3>1 DEF IsFirst
  <2> QED  BY <2>3, <2>4
<1> QED  BY <1>6, <1>7 DEF R

\* A walk stays where the links stay, and leaves out no block it comes to.
LEMMA FromCloses ==
    ASSUME NEW f, NEW t, NEW C, Ordered(f, t, C), NEW h, IsFiniteSet(DOMAIN h.clink),
           C \subseteq DOMAIN h.clink, NEW e \in C,
           \A d \in C : h.clink[d] # Null => h.clink[d] \in C /\ Before(f, t, d, h.clink[d])
    PROVE  ToSet(From(h, e)) \subseteq C /\ Closed(h.clink, ToSet(From(h, e)), e)
<1> DEFINE R == Reached(h.clink, C, e)
           c == From(h, e)
<1>1. Closed(h.clink, C, e)  BY DEF Closed
<1>2. Closed(h.clink, R, e) /\ R \subseteq C  BY <1>1, ReachedClosed
<1>3. /\ IsFirst(f, t, R, e)
      /\ \A x \in R : IsFirst(f, t, Later(f, t, R, x), h.clink[x])
  BY <1>1, ReachedOrder
<1> HIDE DEF R
<1>4. R \in SUBSET C  BY <1>2
<1>5. Enumerates(f, t, R, c)  BY <1>3, <1>4, FromEnumerates
<1> HIDE DEF c
<1>6. c \in Seq(R) /\ DOMAIN c = 1..Len(c) /\ \A i \in 1..Len(c) : c[i] \in R  BY <1>5 DEF Enumerates
<1>7. ToSet(c) = R  BY <1>5, <1>6 DEF Enumerates, ToSet
<1> QED  BY <1>2, <1>7 DEF c
-----------------------------------------------------------------------------
(* A suspended generation stays one. *)

LEMMA OrderedSubset ==
    ASSUME NEW f, NEW t, NEW D, Ordered(f, t, D), NEW C \in SUBSET D
    PROVE  Ordered(f, t, C)
<1>1. PICK k \in Nat : \A x \in D : t[x] < k  BY DEF Ordered
<1>2. \A x \in C : t[x] < k  BY <1>1
<1> QED  BY <1>2 DEF Ordered

LEMMA KeptParts ==
    ASSUME NEW h \in Structures, NEW e
    PROVE  /\ Kept(h, e).mask = h.mask /\ Kept(h, e).hdir = h.hdir /\ Kept(h, e).size = h.size
           /\ DOMAIN Kept(h, e).clink = DOMAIN h.clink \cap (Blocks(h) \cup ToSet(From(h, e)))
           /\ \A b \in DOMAIN Kept(h, e).clink : Kept(h, e).clink[b] = h.clink[b]
<1> DEFINE K == Blocks(h) \cup ToSet(From(h, e))
           clink == [b \in DOMAIN h.clink \cap K |-> h.clink[b]]
           g == [h EXCEPT !.clink = clink]
<1>1. Kept(h, e) = g  BY DEF Kept
<1> HIDE DEF K, clink
<1>2. g.mask = h.mask /\ g.hdir = h.hdir /\ g.size = h.size /\ g.clink = clink  BY DEF Structures
<1>3. DOMAIN clink = DOMAIN h.clink \cap K /\ \A b \in DOMAIN clink : clink[b] = h.clink[b]
  BY DEF clink
<1> HIDE DEF g
<1> QED  BY <1>1, <1>2, <1>3 DEF K

\* From a block in use a walk meets blocks in use only.
LEMMA LiveWalk ==
    ASSUME NEW f, NEW h, NEW t, NEW B, Good(f, h, t, B), NEW e \in B
    PROVE  ToSet(From(h, e)) \subseteq B
<1>1. Ordered(f, t, B) /\ IsFiniteSet(DOMAIN h.clink) /\ B \subseteq DOMAIN h.clink  BY GoodFacts
<1>2. ASSUME NEW d \in B, h.clink[d] # Null
      PROVE  h.clink[d] \in B /\ Before(f, t, d, h.clink[d])
  <2> DEFINE S == Rest(f, t, B, h.mask, d)
  <2>1. IsFirst(f, t, S, h.clink[d])  BY DEF Good, Linked
  <2>2. S \in SUBSET B /\ \A y \in S : Before(f, t, d, y)  BY DEF Rest, Later, InSlot
  <2> HIDE DEF S
  <2>3. h.clink[d] \in S  BY <1>1, <1>2, <2>1, <2>2, FirstNull
  <2> QED  BY <2>2, <2>3
<1> QED  BY <1>1, <1>2, FromCloses

\* From where the generation stands a walk stays in its slot.
LEMMA SuspendedWalk ==
    ASSUME NEW f, NEW h, NEW s, NEW e, NEW t, NEW O, NEW Z, Suspended(f, h, s, e, t, O, Z),
           NEW d \in DOMAIN h.clink, And(f[Key(d)], s.tmask) = Here(s)
    PROVE  /\ Closed(h.clink, ToSet(From(h, d)), d)
           /\ \A x \in ToSet(From(h, d)) :
                 x \in DOMAIN h.clink /\ And(f[Key(x)], s.tmask) = Here(s)
<1> DEFINE C == {x \in DOMAIN h.clink : And(f[Key(x)], s.tmask) = Here(s)}
<1>1. /\ Good(f, h, t, Blocks(h)) /\ Ordered(f, t, DOMAIN h.clink)
      /\ History(s) /\ s.tmask <= h.mask
  BY DEF Suspended, Standing
<1>2. IsFiniteSet(DOMAIN h.clink) /\ Ordered(f, t, C) /\ C \subseteq DOMAIN h.clink /\ d \in C
  BY <1>1, GoodFacts, OrderedSubset
<1>3. ASSUME NEW x \in C, h.clink[x] # Null
      PROVE  h.clink[x] \in C /\ Before(f, t, x, h.clink[x])
  <2>1. Leads(f, h, s, x, t, O)
    <3>1. CASE x \in Blocks(h)  BY <1>1, <3>1, LiveLeads
    <3>2. CASE x \notin Blocks(h)  BY <3>2 DEF Suspended, Stale
    <3> QED  BY <3>1, <3>2
  <2> QED  BY <1>3, <2>1 DEF Leads
<1> HIDE DEF C
<1>4. ToSet(From(h, d)) \subseteq C /\ Closed(h.clink, ToSet(From(h, d)), d)
  BY <1>2, <1>3, FromCloses
<1> QED  BY <1>4 DEF C

\* The generation that moved is suspended again.
LEMMA MovedSuspended ==
    ASSUME NEW f, NEW h, NEW s, NEW e, NEW t, NEW O, NEW Z, Good(f, h, t, Blocks(h)),
           NEW r, Moves(f, h, s, e, t, O, Z, r), r.ep # Null,
           r.ep \in Blocks(h) \/ Suspended(f, h, s, e, t, O, Z)
    PROVE  Suspended(f, Kept(h, r.ep), r.s, r.ep, t, O \ {Key(r.ep)}, Z \cup ({Key(r.ep)} \cap O))
<1> DEFINE B == Blocks(h)
           n == r.ep
           g == Kept(h, n)
           O2 == O \ {Key(n)}
           Z2 == Z \cup ({Key(n)} \cap O)
<1>1. h \in Structures /\ Ordered(f, t, B) /\ B \subseteq DOMAIN h.clink
      /\ \A x, y \in B : Key(x) = Key(y) => x = y
  BY GoodFacts DEF Good
<1>2. Good(f, g, t, B) /\ Blocks(g) = B  BY GoodKept, GoodBlocks
<1>3. /\ g.mask = h.mask
      /\ DOMAIN g.clink = DOMAIN h.clink \cap (B \cup ToSet(From(h, n)))
      /\ \A b \in DOMAIN g.clink : g.clink[b] = h.clink[b]
  BY <1>1, KeptParts
<1>4. /\ n \in DOMAIN h.clink /\ Standing(f, r.s, n) /\ r.s.tmask <= h.mask
      /\ Key(n) \notin Z
      /\ \A y \in B : Key(y) \in O /\ y # n => Ahead(f, r.s, n, t, y)
      /\ \A y \in B : Key(y) \in Z \/ y = n => ~ Ahead(f, r.s, n, t, y)
      /\ n \in B \/ (r.s = s /\ n = h.clink[e] /\ e \notin B)
  BY DEF Moves
<1> HIDE DEF n, g, B
<1>5. CASE n \in B
  <2>1. ToSet(From(h, n)) \subseteq B  BY <1>5, LiveWalk DEF B
  <2>2. DOMAIN g.clink = B  BY <1>1, <1>3, <2>1
  <2>3. \A y \in B : /\ Key(y) \in O2 => Ahead(f, r.s, n, t, y)
                     /\ Key(y) \in Z2 => ~ Ahead(f, r.s, n, t, y)
    BY <1>1, <1>4, <1>5
  <2> HIDE DEF O2, Z2
  <2>4. Suspended(f, g, r.s, n, t, O2, Z2)
    BY <1>1, <1>2, <1>3, <1>4, <1>5, <2>2, <2>3 DEF Suspended
  <2> QED  BY <2>4 DEF g, n, O2, Z2
<1>6. CASE n \notin B
  <2>1. r.s = s /\ Suspended(f, h, s, e, t, O, Z) /\ n \in DOMAIN h.clink \ B
    BY <1>4, <1>6 DEF n, B
  <2>2. Key(n) \notin O /\ Key(n) \notin Z /\ And(f[Key(n)], s.tmask) = Here(s)
    BY <2>1 DEF Suspended, Stale, B
  <2>3. O2 = O /\ Z2 = Z  BY <2>2
  <2>4. Closed(h.clink, ToSet(From(h, n)), n)
        /\ \A x \in ToSet(From(h, n)) : x \in DOMAIN h.clink
    BY <1>4, <2>1, <2>2, SuspendedWalk
  <2>5. n \in DOMAIN g.clink  BY <1>3, <1>4, <2>4 DEF Closed
  <2>6. Ordered(f, t, DOMAIN g.clink)
    <3>1. Ordered(f, t, DOMAIN h.clink) /\ DOMAIN g.clink \subseteq DOMAIN h.clink
      BY <1>3, <2>1 DEF Suspended
    <3> QED  BY <3>1, OrderedSubset
  <2>7. ASSUME NEW d \in DOMAIN g.clink \ B  PROVE Stale(f, g, s, d, t, O, Z)
    <3>1. d \in DOMAIN h.clink \ B /\ d \in ToSet(From(h, n)) /\ g.clink[d] = h.clink[d]
      BY <1>3, <2>7
    <3>2. Stale(f, h, s, d, t, O, Z)  BY <2>1, <3>1 DEF Suspended, B
    <3>3. h.clink[d] # Null => h.clink[d] \in DOMAIN g.clink
      BY <1>3, <2>4, <3>1 DEF Closed
    <3>4. Leads(f, g, s, d, t, O)
      BY <1>2, <1>3, <3>1, <3>2, <3>3 DEF Stale, Leads, B
    <3> QED  BY <3>2, <3>4 DEF Stale
  <2>8. \A y \in B : /\ Key(y) \in O => Ahead(f, s, n, t, y)
                     /\ Key(y) \in Z => ~ Ahead(f, s, n, t, y)
    BY <1>4, <1>6, <2>1
  <2>9. Suspended(f, g, s, n, t, O, Z)
    BY <1>2, <1>3, <1>4, <2>1, <2>5, <2>6, <2>7, <2>8 DEF Suspended
  <2> QED  BY <2>1, <2>3, <2>9 DEF g, n
<1> QED  BY <1>5, <1>6

\* Blocks that come and chains that split do not disturb a generation.
LEMMA GrownSuspended ==
    ASSUME NEW f, NEW h, NEW s, NEW e, NEW t, NEW O, NEW Z, Suspended(f, h, s, e, t, O, Z),
           NEW g, NEW u, NEW E, Good(f, g, u, Blocks(h) \cup E),
           Keeps(g, h, DOMAIN h.clink \ (Blocks(h) \cup E), E), h.mask <= g.mask,
           \A y \in E : y \notin DOMAIN h.clink /\ Key(y) \notin O \cup Z,
           Ordered(f, u, DOMAIN h.clink \cup E), \A y \in DOMAIN h.clink : u[y] = t[y]
    PROVE  Suspended(f, g, s, e, u, O, Z)
<1> DEFINE B == Blocks(h)
           D == DOMAIN h.clink
<1>1. /\ Good(f, h, t, B) /\ e \in D /\ Standing(f, s, e) /\ s.tmask <= h.mask
      /\ \A y \in B : /\ Key(y) \in O => Ahead(f, s, e, t, y)
                      /\ Key(y) \in Z => ~ Ahead(f, s, e, t, y)
      /\ \A d \in D \ B : Stale(f, h, s, d, t, O, Z)
  BY DEF Suspended
<1>2. B \subseteq D /\ h.mask \in Nat /\ g.mask \in Nat /\ s.tmask \in Nat
  BY <1>1, GoodFacts, StructureParts DEF Standing, History, States
<1>3. Blocks(g) = B \cup E  BY GoodBlocks
<1>4. DOMAIN g.clink = D \cup E /\ \A d \in D \ (B \cup E) : g.clink[d] = h.clink[d]
  BY DEF Keeps
<1>5. \A y \in E : y \notin D /\ Key(y) \notin O /\ Key(y) \notin Z  OBVIOUS
<1>6. \A y \in D : u[y] = t[y]  OBVIOUS
<1>7. h.mask <= g.mask  OBVIOUS
<1>8. Good(f, g, u, Blocks(g)) /\ Ordered(f, u, DOMAIN g.clink)  BY <1>3, <1>4
<1> HIDE DEF B, D
<1>9. \A x, y \in D : Before(f, u, x, y) <=> Before(f, t, x, y)  BY <1>6 DEF Before
<1>10. \A y \in Blocks(g) : /\ Key(y) \in O => Ahead(f, s, e, u, y)
                            /\ Key(y) \in Z => ~ Ahead(f, s, e, u, y)
  BY <1>1, <1>2, <1>3, <1>5, <1>9 DEF Ahead
<1>11. ASSUME NEW d \in DOMAIN g.clink \ Blocks(g)  PROVE Stale(f, g, s, d, u, O, Z)
  <2>1. d \in D \ B /\ g.clink[d] = h.clink[d]  BY <1>3, <1>4, <1>11
  <2>2. /\ And(f[Key(d)], s.tmask) = Here(s) /\ Key(d) \notin O /\ Key(d) \notin Z
        /\ Leads(f, h, s, d, t, O)
    BY <1>1, <2>1 DEF Stale
  <2>3. g.mask = s.tmask => h.mask = s.tmask  BY <1>1, <1>2, <1>7
  <2>4. Leads(f, g, s, d, u, O)
    BY <1>2, <1>3, <1>4, <1>5, <1>9, <2>1, <2>2, <2>3 DEF Leads, B, D
  <2> QED  BY <2>2, <2>4 DEF Stale
<1>12. e \in DOMAIN g.clink /\ s.tmask <= g.mask  BY <1>1, <1>2, <1>4, <1>7
<1> QED  BY <1>1, <1>8, <1>10, <1>11, <1>12 DEF Suspended

\* insert() of a new key: its block is not met again.
LEMMA AddedSuspended ==
    ASSUME NEW h, NEW s, NEW e, NEW t, NEW O, NEW Z, Suspended(hash, h, s, e, t, O, Z),
           NEW x \in Keys, \A y \in Blocks(h) : Key(y) # x, x \notin O \cup Z,
           NEW b \in AllBlocks, Key(b) = x, b \notin DOMAIN h.clink
    PROVE  \E u : Suspended(hash, Enlarged(addmem(h, b, memb(h, x))), s, e, u, O, Z)
<1> DEFINE B == Blocks(h)
           D == DOMAIN h.clink
           a == addmem(h, b, memb(h, x))
           g == hgrow(a)
<1>1. Good(hash, h, t, B) /\ Ordered(hash, t, D) /\ h \in Structures /\ B \subseteq D /\ h.mask \in Nat
  BY GoodFacts, StructureParts DEF Suspended
<1>2. PICK k \in Nat : \A y \in D : t[y] < k  BY <1>1 DEF Ordered
<1> DEFINE u == Stamped(t, b, k)
<1>3. \A y \in B : t[y] < k  BY <1>1, <1>2
<1>4. /\ Good(hash, a, u, B \cup {b}) /\ a.mask = h.mask
      /\ Keeps(a, h, D \ (B \cup {b}), {b})
  <2>1. Good(hash, h, t, B) /\ \A y \in B : Key(y) # x  BY <1>1
  <2> HIDE DEF B
  <2> QED  BY <1>3, <2>1, GoodAddmem
<1>5. u[b] = k /\ \A y \in D : u[y] = t[y]
  <2>1. D \subseteq AllBlocks /\ b \notin D  BY <1>1 DEF Ordered
  <2> HIDE DEF D
  <2> QED  BY <2>1 DEF Stamped
<1> HIDE DEF u
<1>6. Ordered(hash, u, D \cup {b})
  <2>1. /\ hash \in [Keys -> Nat] /\ D \subseteq AllBlocks /\ \A y \in D : t[y] \in Nat
        /\ \A y, z \in D : t[y] = t[z] => y = z
    BY <1>1 DEF Ordered
  <2> HIDE DEF D
  <2>2. /\ \A y \in D \cup {b} : u[y] \in Nat /\ u[y] < k + 1
        /\ \A y, z \in D \cup {b} : u[y] = u[z] => y = z
    BY <1>2, <1>5, <2>1
  <2>3. k + 1 \in Nat /\ D \cup {b} \subseteq AllBlocks  BY <2>1
  <2> QED  BY <2>1, <2>2, <2>3 DEF Ordered
<1>7. Suspended(hash, a, s, e, u, O, Z)
  <2> DEFINE E == {b}
  <2>1. h.mask <= a.mask  BY <1>1, <1>4
  <2>2. \A y \in E : y \notin D /\ Key(y) \notin O \cup Z  OBVIOUS
  <2>3. /\ Good(hash, a, u, B \cup E) /\ Keeps(a, h, D \ (B \cup E), E)
        /\ Ordered(hash, u, D \cup E)
    BY <1>4, <1>6
  <2> HIDE DEF E, a
  <2> QED  BY <1>5, <2>1, <2>2, <2>3, GrownSuspended
<1> HIDE DEF a
<1>8. Suspended(hash, g, s, e, u, O, Z)
  <2> DEFINE A == Blocks(a)
             N == {}
  <2>1. Good(hash, a, u, A) /\ Ordered(hash, u, DOMAIN a.clink)  BY <1>7 DEF Suspended
  <2> HIDE DEF A
  <2>2. Good(hash, g, u, A) /\ a.mask <= g.mask /\ Keeps(g, a, DOMAIN a.clink \ A, {})
    BY <2>1, GoodGrown
  <2>3. /\ Good(hash, g, u, A \cup N) /\ Keeps(g, a, DOMAIN a.clink \ (A \cup N), N)
        /\ Ordered(hash, u, DOMAIN a.clink \cup N)
    BY <2>1, <2>2
  <2>4. \A y \in N : y \notin DOMAIN a.clink /\ Key(y) \notin O \cup Z  OBVIOUS
  <2> HIDE DEF g, N
  <2> QED  BY <1>7, <2>2, <2>3, <2>4, GrownSuspended DEF A
<1>9. Suspended(hash, Enlarged(a), s, e, u, O, Z)  BY <1>7, <1>8 DEF Enlarged
<1> QED  BY <1>9 DEF a

\* The block b is unlinked: a generation that stands at it, or at one unlinked
\* before, goes on.
LEMMA UnlinkedSuspended ==
    ASSUME NEW f, NEW h, NEW s, NEW e, NEW t, NEW O, NEW Z, Suspended(f, h, s, e, t, O, Z),
           NEW b \in Blocks(h), NEW r, Good(f, r, t, Blocks(h) \ {b}), r.mask = h.mask,
           Keeps(r, h, (DOMAIN h.clink \ Blocks(h)) \cup {b}, {})
    PROVE  Suspended(f, Kept(r, e), s, e, t, O \ {Key(b)}, Z \ {Key(b)})
<1> DEFINE B == Blocks(h)
           D == DOMAIN h.clink
           A == B \ {b}
           g == Kept(r, e)
           C == {y \in D : And(f[Key(y)], s.tmask) = Here(s)}
           W == ToSet(From(r, e))
           O2 == O \ {Key(b)}
           Z2 == Z \ {Key(b)}
<1>1. /\ Good(f, h, t, B) /\ Ordered(f, t, D) /\ e \in D
      /\ Standing(f, s, e) /\ s.tmask <= h.mask
      /\ \A y \in B : /\ Key(y) \in O => Ahead(f, s, e, t, y)
                      /\ Key(y) \in Z => ~ Ahead(f, s, e, t, y)
      /\ \A d \in D \ B : Stale(f, h, s, d, t, O, Z)
  BY DEF Suspended
<1>2. History(s) /\ And(f[Key(e)], s.tmask) = Here(s) /\ B \subseteq D
  BY <1>1, GoodFacts DEF Standing
<1>3. b \in B /\ Good(f, r, t, A) /\ r.mask = h.mask  OBVIOUS
<1>4. DOMAIN r.clink = D /\ \A d \in (D \ B) \cup {b} : r.clink[d] = h.clink[d]
  BY DEF Keeps
<1> HIDE DEF B
<1>5. Blocks(r) = A /\ r \in Structures /\ IsFiniteSet(D)
  BY <1>3, <1>4, GoodBlocks, GoodFacts
<1>6. Good(f, g, t, A) /\ Blocks(g) = A
  <2>1. Good(f, g, t, A)  BY <1>3, GoodKept
  <2> HIDE DEF A, g
  <2> QED  BY <2>1, GoodBlocks
<1>7. /\ g.mask = h.mask /\ DOMAIN g.clink = D \cap (A \cup W)
      /\ \A y \in DOMAIN g.clink : g.clink[y] = r.clink[y]
  <2> HIDE DEF A
  <2>1. /\ g.mask = r.mask /\ DOMAIN g.clink = DOMAIN r.clink \cap (Blocks(r) \cup W)
        /\ \A y \in DOMAIN g.clink : g.clink[y] = r.clink[y]
    BY <1>5, KeptParts
  <2> HIDE DEF g, W, D
  <2> QED  BY <1>3, <1>4, <1>5, <2>1
<1> HIDE DEF g, W
<1>8. ASSUME NEW d \in C, d \notin A
      PROVE  Leads(f, h, s, d, t, O) /\ r.clink[d] = h.clink[d]
  <2>1. d \in D /\ And(f[Key(d)], s.tmask) = Here(s) /\ (d \in D \ B \/ d = b)  BY <1>8
  <2> HIDE DEF A, C, D
  <2>2. CASE d \in D \ B  BY <1>1, <1>4, <2>2 DEF Stale
  <2>3. CASE d = b
    <3>1. Leads(f, h, s, d, t, O)
      <4>1. d \in B  BY <1>3, <2>3
      <4> QED  BY <1>1, <1>2, <2>1, <4>1, LiveLeads
    <3> QED  BY <1>4, <2>3, <3>1
  <2> QED  BY <2>1, <2>2, <2>3
<1>9. ASSUME NEW d \in C, r.clink[d] # Null
      PROVE  r.clink[d] \in C /\ Before(f, t, d, r.clink[d])
  <2>1. CASE d \in A
    <3>1. And(f[Key(d)], s.tmask) = Here(s)  OBVIOUS
    <3> HIDE DEF A
    <3>2. s.tmask <= r.mask  BY <1>1, <1>3
    <3>3. Leads(f, r, s, d, t, O)  BY <1>2, <1>3, <2>1, <3>1, <3>2, LiveLeads
    <3> QED  BY <1>4, <1>9, <3>3 DEF Leads
  <2>2. CASE d \notin A  BY <1>8, <1>9, <2>2 DEF Leads
  <2> QED  BY <2>1, <2>2
<1>10. W \subseteq C /\ Closed(r.clink, W, e)
  <2>1. C \in SUBSET D /\ e \in C  BY <1>1, <1>2
  <2> HIDE DEF C
  <2>2. Ordered(f, t, C) /\ C \subseteq DOMAIN r.clink /\ IsFiniteSet(DOMAIN r.clink)
    BY <1>1, <1>4, <1>5, <2>1, OrderedSubset
  <2>3. \A d \in C : r.clink[d] # Null => r.clink[d] \in C /\ Before(f, t, d, r.clink[d])
    BY <1>9
  <2> QED  BY <2>1, <2>2, <2>3, FromCloses DEF W
<1> HIDE DEF A
<1>11. e \in DOMAIN g.clink  BY <1>1, <1>7, <1>10 DEF Closed
<1>12. Ordered(f, t, DOMAIN g.clink)
  <2>1. DOMAIN g.clink \in SUBSET D  BY <1>7
  <2> QED  BY <1>1, <2>1, OrderedSubset
<1>13. ASSUME NEW d \in DOMAIN g.clink \ Blocks(g)  PROVE Stale(f, g, s, d, t, O2, Z2)
  <2>1. d \in W /\ d \in C /\ d \notin A /\ g.clink[d] = r.clink[d]  BY <1>6, <1>7, <1>10, <1>13
  <2>2. Leads(f, h, s, d, t, O) /\ g.clink[d] = h.clink[d]  BY <1>8, <2>1
  <2>3. g.clink[d] # Null => g.clink[d] \in DOMAIN g.clink
    <3>1. g.clink[d] # Null => g.clink[d] \in W  BY <1>10, <2>1 DEF Closed
    <3> QED  BY <1>7, <1>10, <3>1
  <2>4. Key(d) \notin O2 /\ Key(d) \notin Z2  BY <1>1, <2>1 DEF A, Stale
  <2>5. \A y \in Blocks(g) : y \in Blocks(h)  BY <1>6 DEF A, B
  <2>6. Leads(f, g, s, d, t, O2)  BY <1>7, <2>2, <2>3, <2>5 DEF Leads
  <2> QED  BY <2>1, <2>4, <2>6 DEF Stale
<1>14. \A y \in Blocks(g) : /\ Key(y) \in O2 => Ahead(f, s, e, t, y)
                            /\ Key(y) \in Z2 => ~ Ahead(f, s, e, t, y)
  BY <1>1, <1>6 DEF A
<1> HIDE DEF O2, Z2
<1>15. Suspended(f, g, s, e, t, O2, Z2)
  BY <1>1, <1>6, <1>7, <1>11, <1>12, <1>13, <1>14 DEF Suspended
<1> QED  BY <1>15 DEF g, O2, Z2

\* delete(), whatever block it unlinks.
LEMMA RemovedSuspended ==
    ASSUME NEW h, NEW s, NEW e, NEW t, NEW O, NEW Z, Suspended(hash, h, s, e, t, O, Z),
           NEW x \in Keys, NEW w, w = memb(h, x), w.res,
           NEW r, r = [Store(h, w, h.clink[At(w)]) EXCEPT !.size = @ - 1]
    PROVE  Suspended(hash, Kept(r, e), s, e, t, O \ {x}, Z \ {x})
<1> DEFINE B == Blocks(h)
           b == At(w)
<1>1. Good(hash, h, t, B)  BY DEF Suspended
<1> HIDE DEF B
<1>2. /\ b \in B /\ Key(b) = x /\ Good(hash, r, t, B \ {b}) /\ r.mask = h.mask
      /\ Keeps(r, h, (DOMAIN h.clink \ B) \cup {b}, {})
  BY <1>1, GoodRemoved
<1> HIDE DEF b
<1> QED  BY <1>2, UnlinkedSuspended DEF B
-----------------------------------------------------------------------------
(* The generation of a structure keeps its promise. *)

\* The generation has ahead of it what it owes and behind it what it has done.
GInv ==
    /\ HInv
    /\ owed \cup done \subseteq members
    /\ ep = Null => owed = {} /\ done = {}
    /\ ep # Null => \E t : Suspended(hash, ps, state, ep, t, owed, done)

LEMMA HeldBlocks ==
    ASSUME NEW h, NEW X, Holds(hash, h, X)
    PROVE  X = {Key(b) : b \in Blocks(h)} /\ \E t : Good(hash, h, t, Blocks(h))
<1>1. PICK B, t : Good(hash, h, t, B) /\ X = {Key(b) : b \in B}  BY DEF Holds
<1>2. Blocks(h) = B  BY <1>1, GoodBlocks
<1> QED  BY <1>1, <1>2

LEMMA GenerationInsert ==
    ASSUME GInv, NEW x \in Keys, Insert(x)
    PROVE  GInv'
<1> DEFINE w == memb(ps, x)
           b == CHOOSE b \in Fresh(x) : \A c \in Fresh(x) : b[2] <= c[2]
<1>1. /\ w.res \/ Fresh(x) # {}
      /\ ps' = IF w.res THEN ps ELSE Enlarged(addmem(ps, b, w))
      /\ members' = members \cup {x}
      /\ hash' = hash /\ state' = state /\ ep' = ep /\ owed' = owed /\ done' = done
  BY DEF Insert
<1>2. HInv'  BY InsertStep DEF GInv
<1>3. Holds(hash, ps, members) /\ owed \cup done \subseteq members  BY DEF GInv, HInv
<1>4. w.res \in BOOLEAN /\ (w.res <=> x \in members)  BY <1>3, MembHolds
<1>5. ASSUME ep # Null  PROVE \E u : Suspended(hash, ps', state, ep, u, owed, done)
  <2>1. PICK t : Suspended(hash, ps, state, ep, t, owed, done)  BY <1>5 DEF GInv
  <2>2. CASE w.res
    <3>1. ps' = ps  BY <1>1, <2>2
    <3> QED  BY <2>1, <3>1
  <2>3. CASE ~ w.res
    <3>1. Fresh(x) # {} /\ x \notin members /\ ps' = Enlarged(addmem(ps, b, memb(ps, x)))
      BY <1>1, <1>4, <2>3
    <3>2. b \in AllBlocks /\ Key(b) = x /\ b \notin DOMAIN ps.clink  BY <3>1, FreshBlock
    <3> HIDE DEF b, w
    <3>3. x \notin owed \cup done /\ \A y \in Blocks(ps) : Key(y) # x
      BY <1>3, <3>1, HeldBlocks
    <3> QED  BY <2>1, <3>1, <3>2, <3>3, AddedSuspended
  <2> QED  BY <2>2, <2>3
<1> HIDE DEF b, w
<1>6. owed' \cup done' \subseteq members'  BY <1>1, <1>3
<1> QED  BY <1>1, <1>2, <1>5, <1>6 DEF GInv

LEMMA GenerationDelete ==
    ASSUME GInv, NEW x \in Keys, Delete(x)
    PROVE  GInv'
<1> DEFINE w == memb(ps, x)
           r == [Store(ps, w, ps.clink[At(w)]) EXCEPT !.size = @ - 1]
<1>1. /\ ps' = IF w.res THEN Kept(r, ep) ELSE ps
      /\ members' = members \ {x} /\ owed' = owed \ {x} /\ done' = done \ {x}
      /\ hash' = hash /\ state' = state /\ ep' = ep
  BY DEF Delete
<1>2. HInv'  BY DeleteStep DEF GInv
<1>3. Holds(hash, ps, members) /\ owed \cup done \subseteq members  BY DEF GInv, HInv
<1>4. w.res \in BOOLEAN /\ (w.res <=> x \in members)  BY <1>3, MembHolds
<1>5. ASSUME ep # Null  PROVE \E u : Suspended(hash, ps', state, ep, u, owed \ {x}, done \ {x})
  <2>1. PICK t : Suspended(hash, ps, state, ep, t, owed, done)  BY <1>5 DEF GInv
  <2>2. CASE w.res
    <3>1. ps' = Kept(r, ep)  BY <1>1, <2>2
    <3>2. Suspended(hash, Kept(r, ep), state, ep, t, owed \ {x}, done \ {x})
      <4>1. r = [Store(ps, w, ps.clink[At(w)]) EXCEPT !.size = @ - 1] /\ w = memb(ps, x)
        OBVIOUS
      <4> HIDE DEF r, w
      <4> QED  BY <2>1, <2>2, <4>1, RemovedSuspended
    <3> QED  BY <3>1, <3>2
  <2>3. CASE ~ w.res
    <3>1. ps' = ps /\ x \notin members  BY <1>1, <1>4, <2>3
    <3>2. owed \ {x} = owed /\ done \ {x} = done  BY <1>3, <3>1
    <3> QED  BY <2>1, <3>1, <3>2
  <2> QED  BY <2>2, <2>3
<1> HIDE DEF r, w
<1>6. owed' \cup done' \subseteq members'  BY <1>1, <1>3
<1>7. ep' = Null => owed' = {} /\ done' = {}  BY <1>1 DEF GInv
<1> QED  BY <1>1, <1>2, <1>5, <1>6, <1>7 DEF GInv

\* What a new generation and a resumed one do.
LEMMA StartMoves ==
    ASSUME GInv, NEW r, r = hgfirst(ps)
    PROVE  /\ r.ep # Null => Key(r.ep) \in members
           /\ r.ep # Null =>
                \E t : Suspended(hash, Kept(ps, r.ep), r.s, r.ep, t, members \ {Key(r.ep)}, {Key(r.ep)})
<1>1. Holds(hash, ps, members)  BY DEF GInv, HInv
<1>2. PICK t : Good(hash, ps, t, Blocks(ps))  BY <1>1, HeldBlocks
<1>3. members = {Key(b) : b \in Blocks(ps)}  BY <1>1, HeldBlocks
<1> DEFINE B == Blocks(ps)
<1>4. /\ Moves(hash, ps, state, ep, t, members, {}, r)
      /\ r.ep # Null => r.ep \in B
  <2>1. B = Blocks(ps) /\ Good(hash, ps, t, B)  BY <1>2
  <2> HIDE DEF B
  <2> QED  BY <2>1, HgfirstMoves
<1>5. ASSUME r.ep # Null
      PROVE  /\ Key(r.ep) \in members
             /\ Suspended(hash, Kept(ps, r.ep), r.s, r.ep, t, members \ {Key(r.ep)}, {Key(r.ep)})
  <2> DEFINE O == members \ {Key(r.ep)}
             N == {}
             Z == {Key(r.ep)}
  <2>1. r.ep \in Blocks(ps)  BY <1>4, <1>5
  <2>2. Key(r.ep) \in members  BY <1>3, <2>1
  <2>3. N \cup ({Key(r.ep)} \cap members) = Z  BY <2>2
  <2>4. Moves(hash, ps, state, ep, t, members, N, r)  BY <1>4
  <2> HIDE DEF N
  <2>5. Suspended(hash, Kept(ps, r.ep), r.s, r.ep, t, O, N \cup ({Key(r.ep)} \cap members))
    BY <1>2, <1>5, <2>1, <2>4, MovedSuspended
  <2> QED  BY <2>2, <2>3, <2>5
<1> QED  BY <1>5

LEMMA ResumeMoves ==
    ASSUME GInv, ep # Null, NEW r, r = hgnext(ps, state, ep)
    PROVE  /\ r.ep = Null => owed = {}
           /\ r.ep # Null => Key(r.ep) \in Keys \ done
           /\ r.ep # Null =>
                \E t : Suspended(hash, Kept(ps, r.ep), r.s, r.ep, t,
                                 owed \ {Key(r.ep)}, done \cup ({Key(r.ep)} \cap owed))
<1>1. PICK t : Suspended(hash, ps, state, ep, t, owed, done)  BY DEF GInv
<1>2. Moves(hash, ps, state, ep, t, owed, done, r)  BY <1>1, HgnextMoves
<1>3. members = {Key(b) : b \in Blocks(ps)} /\ owed \subseteq members
  <2>1. Holds(hash, ps, members) /\ owed \subseteq members  BY DEF GInv, HInv
  <2> QED  BY <2>1, HeldBlocks
<1>4. r.ep = Null => owed = {}  BY <1>2, <1>3 DEF Moves
<1>5. ASSUME r.ep # Null
      PROVE  /\ Key(r.ep) \in Keys \ done
             /\ Suspended(hash, Kept(ps, r.ep), r.s, r.ep, t,
                          owed \ {Key(r.ep)}, done \cup ({Key(r.ep)} \cap owed))
  <2>1. Good(hash, ps, t, Blocks(ps)) /\ Ordered(hash, t, DOMAIN ps.clink)  BY <1>1 DEF Suspended
  <2>2. r.ep \in DOMAIN ps.clink /\ Key(r.ep) \notin done  BY <1>2, <1>5 DEF Moves
  <2>3. Key(r.ep) \in Keys  BY <2>1, <2>2, BlockFacts
  <2>4. Suspended(hash, Kept(ps, r.ep), r.s, r.ep, t,
                  owed \ {Key(r.ep)}, done \cup ({Key(r.ep)} \cap owed))
    BY <1>1, <1>2, <1>5, <2>1, MovedSuspended
  <2> QED  BY <2>2, <2>3, <2>4
<1> QED  BY <1>4, <1>5

LEMMA GenerationStart ==
    ASSUME GInv, Start
    PROVE  GInv'
<1> DEFINE r == hgfirst(ps)
<1>1. /\ Move(r)
      /\ owed' = IF r.ep = Null THEN {} ELSE members \ {Key(r.ep)}
      /\ done' = IF r.ep = Null THEN {} ELSE {Key(r.ep)}
  BY DEF Start
<1>2. /\ r.ep # Null => Key(r.ep) \in members
      /\ r.ep # Null =>
           \E t : Suspended(hash, Kept(ps, r.ep), r.s, r.ep, t, members \ {Key(r.ep)}, {Key(r.ep)})
  BY StartMoves
<1> HIDE DEF r
<1>3. /\ ep' = r.ep /\ state' = IF r.ep = Null THEN NoState ELSE r.s
      /\ ps' = Kept(ps, r.ep) /\ hash' = hash /\ members' = members
  BY <1>1 DEF Move
<1>4. HInv'  BY <1>1, MoveStep DEF GInv
<1>5. CASE r.ep = Null  BY <1>1, <1>3, <1>4, <1>5 DEF GInv
<1>6. CASE r.ep # Null
  <2>1. state' = r.s /\ owed' = members \ {Key(r.ep)} /\ done' = {Key(r.ep)}
    BY <1>1, <1>3, <1>6
  <2>2. \E t : Suspended(hash', ps', state', ep', t, owed', done')
    BY <1>2, <1>3, <1>6, <2>1
  <2>3. owed' \cup done' \subseteq members'  BY <1>2, <1>3, <1>6, <2>1
  <2> QED  BY <1>3, <1>4, <1>6, <2>2, <2>3 DEF GInv
<1> QED  BY <1>5, <1>6

LEMMA GenerationResume ==
    ASSUME GInv, Resume
    PROVE  GInv'
<1> DEFINE r == hgnext(ps, state, ep)
<1>1. /\ ep # Null /\ Move(r)
      /\ owed' = IF r.ep = Null THEN {} ELSE owed \ {Key(r.ep)}
      /\ done' = IF r.ep = Null THEN {} ELSE done \cup ({Key(r.ep)} \cap owed)
  BY DEF Resume
<1>2. r.ep # Null =>
         \E t : Suspended(hash, Kept(ps, r.ep), r.s, r.ep, t,
                          owed \ {Key(r.ep)}, done \cup ({Key(r.ep)} \cap owed))
  BY <1>1, ResumeMoves
<1> HIDE DEF r
<1>3. /\ ep' = r.ep /\ state' = IF r.ep = Null THEN NoState ELSE r.s
      /\ ps' = Kept(ps, r.ep) /\ hash' = hash /\ members' = members
  BY <1>1 DEF Move
<1>4. HInv'  BY <1>1, MoveStep DEF GInv
<1>5. CASE r.ep = Null  BY <1>1, <1>3, <1>4, <1>5 DEF GInv
<1>6. CASE r.ep # Null
  <2>1. /\ state' = r.s /\ owed' = owed \ {Key(r.ep)}
        /\ done' = done \cup ({Key(r.ep)} \cap owed)
    BY <1>1, <1>3, <1>6
  <2>2. \E t : Suspended(hash', ps', state', ep', t, owed', done')
    BY <1>2, <1>3, <1>6, <2>1
  <2>3. owed' \cup done' \subseteq members'  BY <1>3, <2>1 DEF GInv
  <2> QED  BY <1>3, <1>4, <1>6, <2>2, <2>3 DEF GInv
<1> QED  BY <1>5, <1>6

\* A new structure takes the place of the old one while nothing is generated.
Replaced ==
    /\ ep = Null /\ UNCHANGED <<ep, owed, done>>
    /\ members' \subseteq members \/ members \subseteq members'

LEMMA Steps ==
    ASSUME Next
    PROVE  (\E x \in Keys : Insert(x) \/ Delete(x)) \/ Start \/ Resume \/ Replaced
<1>1. CASE Copy  BY <1>1 DEF Copy, Replace, Replaced
<1>2. CASE \E Y \in SUBSET members : Difference(Y)
  BY <1>2 DEF Difference, Replace, Replaced
<1>3. CASE \E I \in SUBSET members, n \in 0 .. ps.size : Cardinality(I) <= n /\ Intersection(I, n)
  BY <1>3 DEF Intersection, Replace, Replaced
<1>4. CASE \E y \in Orders : Union(y)
  BY <1>4 DEF Union, Replace, Replaced
<1> QED  BY <1>1, <1>2, <1>3, <1>4 DEF Next

LEMMA GInvInit == Init => GInv
<1> SUFFICES ASSUME Init  PROVE GInv  OBVIOUS
<1>1. ep = Null /\ owed = {} /\ done = {} /\ members = {}  BY DEF Init
<1>2. HInv  BY HInvInit
<1> QED  BY <1>1, <1>2 DEF GInv

LEMMA GInvNext == GInv /\ [Next]_vars => GInv'
<1> SUFFICES ASSUME GInv, [Next]_vars  PROVE GInv'  OBVIOUS
<1>1. CASE \E x \in Keys : Insert(x) \/ Delete(x)
  BY <1>1, GenerationInsert, GenerationDelete
<1>2. CASE Start  BY <1>2, GenerationStart
<1>3. CASE Resume  BY <1>3, GenerationResume
<1>4. CASE Next /\ Replaced
  <2>1. HInv'  BY <1>4, HInvNext DEF GInv
  <2>2. ep' = Null /\ owed' = {} /\ done' = {}  BY <1>4 DEF Replaced, GInv
  <2> QED  BY <2>1, <2>2 DEF GInv
<1>5. CASE UNCHANGED vars
  <2>1. HInv'  BY HInvNext DEF GInv
  <2>2. /\ hash' = hash /\ ps' = ps /\ state' = state /\ ep' = ep
        /\ members' = members /\ owed' = owed /\ done' = done
    BY <1>5 DEF vars
  <2> QED  BY <2>1, <2>2 DEF GInv
<1> QED  BY <1>1, <1>2, <1>3, <1>4, <1>5, Steps
-----------------------------------------------------------------------------
(* Every step is a step of the promise, or changes nothing that it speaks of. *)

LEMMA StandsAtKey ==
    ASSUME GInv, ep # Null
    PROVE  Key(ep) \in Keys /\ Key(ep) # Null
<1>1. PICK t : Suspended(hash, ps, state, ep, t, owed, done)  BY DEF GInv
<1>2. Ordered(hash, t, DOMAIN ps.clink) /\ ep \in DOMAIN ps.clink  BY <1>1 DEF Suspended
<1>3. Key(ep) \in Keys  BY <1>2, BlockFacts
<1> QED  BY <1>3, HashAssumption

LEMMA IterationStart ==
    ASSUME GInv, GInv', Start
    PROVE  Iteration!Start \/ UNCHANGED Iteration!vars
<1> DEFINE r == hgfirst(ps)
<1>1. /\ ep = Null /\ ep' = r.ep /\ members' = members
      /\ owed' = IF r.ep = Null THEN {} ELSE members \ {Key(r.ep)}
      /\ done' = IF r.ep = Null THEN {} ELSE {Key(r.ep)}
  BY DEF Start, Move
<1>2. r.ep # Null => Key(r.ep) \in members  BY StartMoves
<1> HIDE DEF r
<1>3. CASE r.ep = Null
  <2>1. owed = {} /\ done = {}  BY <1>1 DEF GInv
  <2>2. UNCHANGED <<members, ep, owed, done>>  BY <1>1, <1>3, <2>1
  <2> QED  BY <2>2 DEF Iteration!vars
<1>4. CASE r.ep # Null
  <2>1. Key(r.ep) \in members  BY <1>2, <1>4
  <2>2. ep' # Null  BY <1>1, <1>4
  <2> QED  BY <1>1, <1>4, <2>1, <2>2 DEF Iteration!Start, Iteration!Generating
<1> QED  BY <1>3, <1>4

LEMMA IterationResume ==
    ASSUME GInv, GInv', Resume
    PROVE  Iteration!Resume \/ Iteration!End
<1> DEFINE r == hgnext(ps, state, ep)
<1>1. /\ ep # Null /\ ep' = r.ep /\ members' = members
      /\ owed' = IF r.ep = Null THEN {} ELSE owed \ {Key(r.ep)}
      /\ done' = IF r.ep = Null THEN {} ELSE done \cup ({Key(r.ep)} \cap owed)
  BY DEF Resume, Move
<1>2. /\ r.ep = Null => owed = {}
      /\ r.ep # Null => Key(r.ep) \in Keys \ done
  BY <1>1, ResumeMoves
<1> HIDE DEF r
<1>3. Key(ep) # Null  BY <1>1, StandsAtKey
<1>4. CASE r.ep = Null
  BY <1>1, <1>2, <1>3, <1>4 DEF Iteration!End, Iteration!Generating
<1>5. CASE r.ep # Null
  <2>1. Key(r.ep) \in Keys \ done  BY <1>2, <1>5
  <2> QED  BY <1>1, <1>3, <1>5, <2>1 DEF Iteration!Resume, Iteration!Generating
<1> QED  BY <1>4, <1>5

LEMMA IterationNext == GInv /\ GInv' /\ [Next]_vars => [Iteration!Next]_Iteration!vars
<1> SUFFICES ASSUME GInv, GInv', [Next]_vars  PROVE [Iteration!Next]_Iteration!vars
  OBVIOUS
<1>1. ASSUME NEW x \in Keys, Insert(x)  PROVE Iteration!Insert(x)
  BY <1>1 DEF Insert, Iteration!Insert
<1>2. ASSUME NEW x \in Keys, Delete(x)  PROVE Iteration!Delete(x)
  BY <1>2 DEF Delete, Iteration!Delete
<1>3. CASE Start  BY <1>3, IterationStart DEF Iteration!Next
<1>4. CASE Resume  BY <1>4, IterationResume DEF Iteration!Next
<1>5. CASE Replaced
  <2>1. Iteration!Replace  BY <1>5 DEF Replaced, Iteration!Replace, Iteration!Generating
  <2> QED  BY <2>1 DEF Iteration!Next
<1>6. CASE UNCHANGED vars  BY <1>6 DEF vars, Iteration!vars
<1> QED  BY <1>1, <1>2, <1>3, <1>4, <1>5, <1>6, Steps DEF Iteration!Next

\* A suspended generation keeps the promise of hgnext() (rstruct.r:417) whatever
\* is inserted, deleted and split in between: it generates every element that
\* stays exactly once, and ends only when none is left, for every set of keys,
\* hash function, number of slots and segments and load limits.
THEOREM IterationKept == Spec => ImplementsIteration
<1>1. Init => GInv  BY GInvInit
<1>2. GInv /\ [Next]_vars => GInv'  BY GInvNext
<1>3. Init => Iteration!Init  BY DEF Init, Iteration!Init
<1>4. GInv /\ GInv' /\ [Next]_vars => [Iteration!Next]_Iteration!vars  BY IterationNext
<1> QED  BY <1>1, <1>2, <1>3, <1>4, PTL DEF Spec, ImplementsIteration, Iteration!Spec
=============================================================================
