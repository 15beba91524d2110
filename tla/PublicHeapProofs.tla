-------------------------- MODULE PublicHeapProofs --------------------------
(***************************************************************************)
(* Proofs about PublicHeap, for any finite sets of threads and regions and *)
(* any sizes: the chain is well linked, a region has one owner, and the    *)
(* chain with the private regions implements the pool of regions.          *)
(***************************************************************************)
EXTENDS PublicHeap, FiniteSetTheorems, WellFoundedInduction, TLAPS

-----------------------------------------------------------------------------
(* Least numbers *)

\* A set of natural numbers with an element has a least one: the form in which
\* the proofs use induction, as the least counterexample.
LEMMA LeastNat ==
    ASSUME NEW T \in SUBSET Nat, T # {}
    PROVE  \E x \in T : \A y \in T : x <= y
<1>1. \E x \in T : \A y \in T : ~ (<<y, x>> \in OpToRel(<, Nat))
  BY WFMin, NatLessThanWellFounded
<1>2. PICK x \in T : \A y \in T : ~ (<<y, x>> \in OpToRel(<, Nat))  BY <1>1
<1>3. \A y \in T : ~(y < x)  BY <1>2 DEF OpToRel
<1> QED  BY <1>3

-----------------------------------------------------------------------------
Regs == Cardinality(Regions)

\* The n regions of s, in this order, are linked into the public chain.
ChainOf(n, s) ==
    /\ n \in Nat
    /\ s \in [1..n -> Regions]
    /\ \A i, j \in 1..n : s[i] = s[j] => i = j
    /\ public_blockregion = IF n = 0 THEN Null ELSE s[1]
    /\ \A i \in 1..n : Tnext[s[i]] = IF i = n THEN Null ELSE s[i + 1]
    /\ \A i \in 1..n : Tprev[s[i]] = IF i = 1 THEN Null ELSE s[i - 1]
    /\ \A r \in Regions : (\A i \in 1..n : s[i] # r) => Tnext[r] = Null /\ Tprev[r] = Null

Chained == \E n, s : ChainOf(n, s)

-----------------------------------------------------------------------------
(* The chain and its walk *)

\* A sequence of different regions is not longer than there are regions.
LEMMA InjectionLength ==
    ASSUME NEW n \in Nat, NEW s \in [1..n -> Regions],
           \A i, j \in 1..n : s[i] = s[j] => i = j
    PROVE  n <= Regs /\ Regs \in Nat
<1>1. IsFiniteSet(Regions)  BY HeapAssumption
<1>2. IsFiniteSet(1..n) /\ Cardinality(1..n) = n  BY FS_Interval
<1>3. IsInjective(s)  BY DEF IsInjective
<1>4. s \in Injection(1..n, Regions)  BY <1>3 DEF Injection
<1>5. Cardinality(1..n) <= Cardinality(Regions)  BY <1>1, <1>4, FS_Injection
<1> QED  BY <1>1, <1>2, <1>5, FS_CardinalityType DEF Regs

\* The walk visits the regions of the chain in their order.
LEMMA WalkOfChain ==
    \A n, s : ChainOf(n, s) =>
        /\ n <= Regs /\ Regs \in Nat
        /\ Walk = [i \in 0..Regs |-> IF i < n THEN s[i + 1] ELSE Null]
<1> SUFFICES ASSUME NEW n, NEW s, ChainOf(n, s)
             PROVE  /\ n <= Regs /\ Regs \in Nat
                    /\ Walk = [i \in 0..Regs |-> IF i < n THEN s[i + 1] ELSE Null]
  OBVIOUS
<1> USE DEF ChainOf
<1> DEFINE w == [i \in 0..Regs |-> IF i < n THEN s[i + 1] ELSE Null]
<1>1. n <= Regs /\ Regs \in Nat  BY InjectionLength
<1>2. w = [i \in 0..Regs |-> IF i = 0 THEN public_blockregion
                             ELSE IF w[i - 1] = Null THEN Null ELSE Tnext[w[i - 1]]]
  <2> SUFFICES ASSUME NEW i \in 0..Regs
               PROVE  w[i] = IF i = 0 THEN public_blockregion
                             ELSE IF w[i - 1] = Null THEN Null ELSE Tnext[w[i - 1]]
    OBVIOUS
  <2>1. CASE i = 0  BY <1>1, <2>1
  <2>2. CASE i > 0 /\ i - 1 >= n  BY <1>1, <2>2
  <2>3. CASE i > 0 /\ i - 1 < n
    <3>1. i \in 1..n /\ i - 1 \in 0..Regs  BY <1>1, <2>3
    <3>2. w[i - 1] = s[i] /\ s[i] \in Regions  BY <2>3, <3>1
    <3>3. w[i - 1] # Null  BY <3>2, HeapAssumption
    <3>4. Tnext[s[i]] = w[i]  BY <1>1, <3>1
    <3> QED  BY <2>3, <3>2, <3>3, <3>4
  <2> QED  BY <1>1, <2>1, <2>2, <2>3
<1> HIDE DEF w
<1>3. Walk = [i \in 0..Regs |-> IF i = 0 THEN public_blockregion
                ELSE IF Walk[i - 1] = Null THEN Null ELSE Tnext[Walk[i - 1]]]
  BY <1>2 DEF Walk, Regs
<1>4. ASSUME NEW k \in 0..Regs, Walk[k] # w[k]  PROVE FALSE
  <2> DEFINE T == {i \in 0..Regs : Walk[i] # w[i]}
  <2>1. T \in SUBSET Nat /\ T # {}  BY <1>1, <1>4
  <2>2. PICK x \in T : \A y \in T : x <= y  BY <2>1, LeastNat
  <2>3. x # 0  BY <1>1, <1>2, <1>3, <2>2
  <2>4. x - 1 \in 0..Regs /\ x - 1 \notin T  BY <1>1, <2>2, <2>3
  <2>5. Walk[x - 1] = w[x - 1]  BY <2>4
  <2>6. x \in 0..Regs /\ Walk[x] # w[x]  OBVIOUS
  <2>7. Walk[x] = IF Walk[x - 1] = Null THEN Null ELSE Tnext[Walk[x - 1]]
    BY ONLY <1>3, <2>3, <2>6
  <2>8. w[x] = IF w[x - 1] = Null THEN Null ELSE Tnext[w[x - 1]]
    BY ONLY <1>2, <2>3, <2>6
  <2> QED  BY ONLY <2>5, <2>6, <2>7, <2>8
<1>5. Walk = w
  <2>1. \A k \in 0..Regs : Walk[k] = w[k]  BY <1>4
  <2>2. w = [i \in 0..Regs |-> w[i]]  BY DEF w
  <2>3. Walk = [i \in 0..Regs |-> Walk[i]]  BY <1>3
  <2> QED  BY <2>1, <2>2, <2>3
<1> QED  BY <1>1, <1>5 DEF w

\* The public regions are those of the chain.
LEMMA PublicOfChain ==
    \A n, s : ChainOf(n, s) => Public = {s[i] : i \in 1..n}
<1> SUFFICES ASSUME NEW n, NEW s, ChainOf(n, s)
             PROVE  Public = {s[i] : i \in 1..n}
  OBVIOUS
<1>1. /\ n <= Regs /\ Regs \in Nat
      /\ Walk = [i \in 0..Regs |-> IF i < n THEN s[i + 1] ELSE Null]
  BY WalkOfChain
<1> n \in Nat  BY DEF ChainOf
<1>2. Null \notin Regions /\ s \in [1..n -> Regions]  BY HeapAssumption DEF ChainOf
<1>3. Public = {Walk[i] : i \in 0..Regs} \ {Null}  BY DEF Public, Regs
<1>4. ASSUME NEW r \in Public  PROVE r \in {s[i] : i \in 1..n}
  <2>1. PICK i \in 0..Regs : r = Walk[i] /\ r # Null  BY <1>3
  <2>2. i < n /\ r = s[i + 1] /\ i + 1 \in 1..n  BY <1>1, <2>1
  <2> QED  BY <2>2
<1>5. ASSUME NEW i \in 1..n  PROVE s[i] \in Public
  <2>1. i - 1 \in 0..Regs /\ i - 1 < n /\ (i - 1) + 1 = i  BY <1>1
  <2>2. Walk[i - 1] = s[i]  BY <1>1, <2>1
  <2>3. s[i] # Null  BY <1>2
  <2> QED  BY <1>3, <2>1, <2>2, <2>3
<1> QED  BY <1>4, <1>5

\* A chain of regions is a sound one.
LEMMA SoundOfChain == Chained => ChainSound /\ Public \subseteq Regions
<1> SUFFICES ASSUME Chained PROVE ChainSound /\ Public \subseteq Regions
  OBVIOUS
<1>1. PICK n, s : ChainOf(n, s)  BY DEF Chained
<1>2. Public = {s[i] : i \in 1..n}  BY <1>1, PublicOfChain
<1>3. /\ n <= Regs /\ Regs \in Nat
      /\ Walk = [i \in 0..Regs |-> IF i < n THEN s[i + 1] ELSE Null]
  BY <1>1, WalkOfChain
<1>4. Null \notin Regions  BY HeapAssumption
<1> USE <1>1 DEF ChainOf
<1>5. Walk[Cardinality(Regions)] = Null  BY <1>3 DEF Regs
<1>6. ASSUME NEW r \in Public
      PROVE  /\ Tprev[r] = Null <=> r = public_blockregion
             /\ Tnext[r] # Null => Tprev[Tnext[r]] = r
  <2>1. PICK i \in 1..n : r = s[i]  BY <1>2
  <2>2. Tprev[r] = Null <=> i = 1  BY <1>4, <2>1
  <2>3. r = public_blockregion <=> i = 1  BY <2>1
  <2>4. ASSUME Tnext[r] # Null  PROVE Tprev[Tnext[r]] = r
    <3>1. i # n /\ Tnext[r] = s[i + 1] /\ i + 1 \in 1..n  BY <2>1, <2>4
    <3> QED  BY <2>1, <3>1
  <2> QED  BY <2>2, <2>3, <2>4
<1>7. \A r \in Regions \ Public : Tnext[r] = Null /\ Tprev[r] = Null
  BY <1>2
<1>8. Public \subseteq Regions  BY <1>2
<1> QED  BY <1>5, <1>6, <1>7, <1>8 DEF ChainSound

-----------------------------------------------------------------------------
(* What the operations do to the chain *)

\* PublicOfChain, of the next state.
LEMMA PublicOfNextChain ==
    (\A n, s : ChainOf(n, s) => Public = {s[i] : i \in 1..n})'
BY PublicOfChain, PTL

\* A region outside the chain becomes its head.
LEMMA PutPublicChain ==
    ASSUME TypeOK, Chained, NEW p \in Regions \ Public, PutPublic(p)
    PROVE  Chained' /\ Public' = Public \cup {p}
<1>1. PICK n, s : ChainOf(n, s)  BY DEF Chained
<1>2. Public = {s[i] : i \in 1..n}  BY <1>1, PublicOfChain
<1>a. n \in Nat /\ s \in [1..n -> Regions] /\ Null \notin Regions
  BY <1>1, HeapAssumption DEF ChainOf
<1>3. /\ n \in Nat /\ s \in [1..n -> Regions] /\ Null \notin Regions
      /\ \A i \in 1..n : s[i] # p /\ s[i] # Null
  BY <1>2, <1>a
<1>4. /\ Tnext' = [Tnext EXCEPT ![p] = public_blockregion]
      /\ Tprev' = [r \in Regions |-> IF r = p THEN Null
                                     ELSE IF r = public_blockregion THEN p
                                     ELSE Tprev[r]]
      /\ public_blockregion' = p
      /\ Tnext \in [Regions -> Regions \cup {Null}]
  BY DEF PutPublic, TypeOK
<1> DEFINE q == [i \in 1..(n + 1) |-> IF i = 1 THEN p ELSE s[i - 1]]
<1>5. /\ q \in [1..(n + 1) -> Regions] /\ q[1] = p
      /\ \A i \in 1..n : q[i + 1] = s[i]
      /\ \A i \in 2..(n + 1) : q[i] = s[i - 1] /\ i - 1 \in 1..n
  BY <1>3
<1> HIDE DEF q
<1>6. ASSUME NEW i \in 1..(n + 1), NEW j \in 1..(n + 1), q[i] = q[j]  PROVE i = j
  <2>1. CASE i = 1 \/ j = 1  BY <1>3, <1>5, <1>6, <2>1
  <2>2. CASE i \in 2..(n + 1) /\ j \in 2..(n + 1)
    <3>1. i - 1 = j - 1  BY <1>1, <1>5, <1>6, <2>2 DEF ChainOf
    <3> QED  BY <3>1
  <2> QED  BY <1>3, <2>1, <2>2
<1>7. public_blockregion' = IF n + 1 = 0 THEN Null ELSE q[1]
  BY <1>3, <1>4, <1>5
<1>8. ASSUME NEW i \in 1..(n + 1)
      PROVE  /\ Tnext'[q[i]] = IF i = n + 1 THEN Null ELSE q[i + 1]
             /\ Tprev'[q[i]] = IF i = 1 THEN Null ELSE q[i - 1]
  <2>1. public_blockregion = IF n = 0 THEN Null ELSE s[1]  BY <1>1 DEF ChainOf
  <2>2. CASE i = 1
    <3>1. Tnext'[p] = public_blockregion /\ Tprev'[p] = Null  BY <1>4
    <3>2. CASE n = 0  BY <1>5, <2>1, <2>2, <3>1, <3>2
    <3>3. CASE n # 0  BY <1>3, <1>5, <2>1, <2>2, <3>1, <3>3
    <3> QED  BY <3>2, <3>3
  <2>3. CASE i \in 2..(n + 1)
    <3>1. q[i] = s[i - 1] /\ i - 1 \in 1..n /\ s[i - 1] \in Regions /\ s[i - 1] # p
      BY <1>3, <1>5, <2>3
    <3>2. /\ Tnext[s[i - 1]] = IF i - 1 = n THEN Null ELSE s[i]
          /\ Tprev[s[i - 1]] = IF i - 1 = 1 THEN Null ELSE s[i - 2]
      BY <1>1, <1>3, <2>3, <3>1 DEF ChainOf
    <3>3. Tnext'[q[i]] = IF i = n + 1 THEN Null ELSE q[i + 1]
      <4>1. Tnext'[q[i]] = Tnext[s[i - 1]]  BY <1>4, <3>1
      <4>2. i # n + 1 => i \in 1..n /\ q[i + 1] = s[i]  BY <1>3, <1>5
      <4> QED  BY <1>3, <3>2, <4>1, <4>2
    <3>4. Tprev'[q[i]] = q[i - 1]
      <4>1. CASE i = 2
        <5>1. s[i - 1] = public_blockregion  BY <1>3, <2>1, <3>1, <4>1
        <5> QED  BY <1>4, <1>5, <3>1, <4>1, <5>1
      <4>2. CASE i > 2
        <5>1. s[i - 1] # public_blockregion /\ i - 2 \in 1..n
          BY <1>1, <1>3, <2>1, <3>1, <4>2 DEF ChainOf
        <5>2. Tprev'[q[i]] = s[i - 2]  BY <1>4, <3>1, <3>2, <4>2, <5>1
        <5>3. q[i - 1] = s[i - 2]
          <6>1. i - 1 \in 2..(n + 1) /\ (i - 1) - 1 = i - 2  BY <1>3, <4>2
          <6> QED  BY <1>5, <6>1
        <5> QED  BY <5>2, <5>3
      <4> QED  BY <2>3, <4>1, <4>2
    <3> QED  BY <2>3, <3>3, <3>4
  <2> QED  BY <1>3, <2>2, <2>3
<1>9. ASSUME NEW r \in Regions, \A i \in 1..(n + 1) : q[i] # r
      PROVE  Tnext'[r] = Null /\ Tprev'[r] = Null
  <2>1. r # p /\ \A i \in 1..n : s[i] # r
    <3>1. 1 \in 1..(n + 1) /\ \A i \in 1..n : i + 1 \in 1..(n + 1)  BY <1>3
    <3> QED  BY <1>5, <1>9, <3>1
  <2>2. Tnext[r] = Null /\ Tprev[r] = Null  BY <1>1, <2>1 DEF ChainOf
  <2>3. r # public_blockregion
    BY <1>1, <1>3, <2>1, HeapAssumption DEF ChainOf
  <2> QED  BY <1>4, <2>1, <2>2, <2>3
<1>10. ChainOf(n + 1, q)'
  BY <1>3, <1>5, <1>6, <1>7, <1>8, <1>9 DEF ChainOf
<1>11. Public' = {q[i] : i \in 1..(n + 1)} /\ Chained'
  BY <1>10, PublicOfNextChain DEF Chained
<1>12. {q[i] : i \in 1..(n + 1)} = {s[i] : i \in 1..n} \cup {p}
  <2>1. ASSUME NEW i \in 1..(n + 1)  PROVE q[i] \in {s[j] : j \in 1..n} \cup {p}
    <3>1. i = 1 \/ i \in 2..(n + 1)  BY <1>3
    <3> QED  BY <1>5, <3>1
  <2>2. ASSUME NEW i \in 1..n  PROVE s[i] \in {q[j] : j \in 1..(n + 1)}
    <3>1. i + 1 \in 1..(n + 1)  BY <1>3
    <3> QED  BY <1>5, <3>1
  <2>3. p \in {q[j] : j \in 1..(n + 1)}
    <3>1. 1 \in 1..(n + 1)  BY <1>3
    <3> QED  BY <1>5, <3>1
  <2> QED  BY <2>1, <2>2, <2>3
<1> QED  BY <1>2, <1>11, <1>12

\* A region outside the chain takes the place of one in it.
LEMMA SwapPublicChain ==
    ASSUME TypeOK, Chained, NEW p \in Regions \ Public, NEW r \in Public, SwapPublic(p, r)
    PROVE  Chained' /\ Public' = (Public \ {r}) \cup {p}
<1>1. PICK n, s : ChainOf(n, s)  BY DEF Chained
<1>2. Public = {s[i] : i \in 1..n}  BY <1>1, PublicOfChain
<1>3. n \in Nat /\ s \in [1..n -> Regions] /\ Null \notin Regions
  BY <1>1, HeapAssumption DEF ChainOf
<1>4. \A i \in 1..n : s[i] # p /\ s[i] # Null  BY <1>2, <1>3
<1>5. PICK k \in 1..n : r = s[k]  BY <1>2
<1>6. \A i \in 1..n : s[i] = r <=> i = k  BY <1>1, <1>5 DEF ChainOf
<1>7. /\ \A i \in 1..n : Tnext[s[i]] = IF i = n THEN Null ELSE s[i + 1]
      /\ \A i \in 1..n : Tprev[s[i]] = IF i = 1 THEN Null ELSE s[i - 1]
  BY <1>1 DEF ChainOf
<1> DEFINE q == [s EXCEPT ![k] = p]
<1>8. /\ q \in [1..n -> Regions] /\ q[k] = p
      /\ \A i \in 1..n : i # k => q[i] = s[i]
  BY <1>3, <1>5
<1> HIDE DEF q
<1>9. ASSUME NEW i \in 1..n, NEW j \in 1..n, q[i] = q[j]  PROVE i = j
  <2>1. s[i] = s[j] => i = j  BY <1>1 DEF ChainOf
  <2> QED  BY <1>4, <1>8, <1>9, <2>1
<1>10. public_blockregion' = IF n = 0 THEN Null ELSE q[1]
  <2>1. n # 0 /\ 1 \in 1..n  BY <1>3, <1>5
  <2>2. public_blockregion = s[1]  BY <1>1, <2>1 DEF ChainOf
  <2>3. Tprev[r] = Null <=> k = 1
    <3>1. k # 1 => k - 1 \in 1..n  BY <1>3, <1>5
    <3> QED  BY <1>4, <1>5, <1>7, <3>1
  <2> QED  BY <1>8, <2>1, <2>2, <2>3 DEF SwapPublic
<1>11. ASSUME NEW i \in 1..n
       PROVE  /\ Tnext'[q[i]] = IF i = n THEN Null ELSE q[i + 1]
              /\ Tprev'[q[i]] = IF i = 1 THEN Null ELSE q[i - 1]
  <2>1. /\ i # n => i + 1 \in 1..n
        /\ i # 1 => i - 1 \in 1..n
        /\ k # n => k + 1 \in 1..n
        /\ k # 1 => k - 1 \in 1..n
    BY <1>3, <1>5
  <2>2. CASE i = k
    <3>1. Tnext'[p] = Tnext[r] /\ Tprev'[p] = Tprev[r]  BY DEF SwapPublic
    <3>2. i # n => i + 1 # k  BY <1>3, <1>5, <2>2
    <3>3. i # 1 => i - 1 # k  BY <1>3, <1>5, <2>2
    <3> QED  BY <1>5, <1>7, <1>8, <2>1, <2>2, <3>1, <3>2, <3>3
  <2>3. CASE i # k
    <3>1. q[i] = s[i] /\ s[i] # p /\ s[i] # r /\ s[i] \in Regions
      BY <1>3, <1>4, <1>6, <1>8, <2>3
    <3>2. Tnext'[s[i]] = IF s[i] = Tprev[r] THEN p ELSE Tnext[s[i]]
      BY <3>1 DEF SwapPublic
    <3>3. Tprev'[s[i]] = IF s[i] = Tnext[r] THEN p ELSE Tprev[s[i]]
      BY <3>1 DEF SwapPublic
    <3>4. s[i] = Tprev[r] <=> (i # n /\ i + 1 = k)
      <4>1. CASE k = 1  BY <1>3, <1>4, <1>5, <1>7, <4>1
      <4>2. CASE k # 1
        <5>1. Tprev[r] = s[k - 1]  BY <1>5, <1>7, <4>2
        <5>2. s[i] = s[k - 1] <=> i = k - 1  BY <1>1, <2>1, <4>2 DEF ChainOf
        <5> QED  BY <1>3, <1>5, <5>1, <5>2
      <4> QED  BY <4>1, <4>2
    <3>5. s[i] = Tnext[r] <=> (i # 1 /\ i - 1 = k)
      <4>1. CASE k = n  BY <1>3, <1>4, <1>5, <1>7, <4>1
      <4>2. CASE k # n
        <5>1. Tnext[r] = s[k + 1]  BY <1>5, <1>7, <4>2
        <5>2. s[i] = s[k + 1] <=> i = k + 1  BY <1>1, <2>1, <4>2 DEF ChainOf
        <5> QED  BY <1>3, <1>5, <5>1, <5>2
      <4> QED  BY <4>1, <4>2
    <3> QED  BY <1>7, <1>8, <2>1, <2>3, <3>1, <3>2, <3>3, <3>4, <3>5
  <2> QED  BY <2>2, <2>3
<1>12. ASSUME NEW x \in Regions, \A i \in 1..n : q[i] # x
       PROVE  Tnext'[x] = Null /\ Tprev'[x] = Null
  <2>1. x # p /\ \A i \in 1..n : i # k => s[i] # x  BY <1>8, <1>12
  <2>2. CASE x = r  BY <2>1, <2>2 DEF SwapPublic
  <2>3. CASE x # r
    <3>1. \A i \in 1..n : s[i] # x  BY <1>5, <2>1, <2>3
    <3>2. Tnext[x] = Null /\ Tprev[x] = Null  BY <1>1, <3>1 DEF ChainOf
    <3>3. x # Tprev[r] /\ x # Tnext[r]
      <4>1. k # n => k + 1 \in 1..n  BY <1>3, <1>5
      <4>2. k # 1 => k - 1 \in 1..n  BY <1>3, <1>5
      <4> QED  BY <1>3, <1>5, <1>7, <3>1, <4>1, <4>2
    <3> QED  BY <2>1, <2>3, <3>2, <3>3 DEF SwapPublic
  <2> QED  BY <2>2, <2>3
<1>13. ChainOf(n, q)'
  BY <1>3, <1>8, <1>9, <1>10, <1>11, <1>12 DEF ChainOf
<1>14. Public' = {q[i] : i \in 1..n} /\ Chained'  BY <1>13, PublicOfNextChain DEF Chained
<1>15. {q[i] : i \in 1..n} = (Public \ {r}) \cup {p}
  <2>1. ASSUME NEW i \in 1..n  PROVE q[i] \in (Public \ {r}) \cup {p}
    BY <1>2, <1>6, <1>8
  <2>2. ASSUME NEW i \in 1..n, s[i] # r  PROVE s[i] \in {q[j] : j \in 1..n}
    BY <1>6, <1>8, <2>2
  <2>3. p \in {q[j] : j \in 1..n}  BY <1>5, <1>8
  <2> QED  BY <1>2, <2>1, <2>2, <2>3
<1> QED  BY <1>14, <1>15

\* A region of the chain leaves it.
LEMMA TakePublicChain ==
    ASSUME TypeOK, Chained, NEW r \in Public, TakePublic(r)
    PROVE  Chained' /\ Public' = Public \ {r}
<1>1. PICK n, s : ChainOf(n, s)  BY DEF Chained
<1>2. Public = {s[i] : i \in 1..n}  BY <1>1, PublicOfChain
<1>3. n \in Nat /\ s \in [1..n -> Regions] /\ Null \notin Regions
  BY <1>1, HeapAssumption DEF ChainOf
<1>4. \A i \in 1..n : s[i] # Null  BY <1>3
<1>5. PICK k \in 1..n : r = s[k]  BY <1>2
<1>6. \A i \in 1..n : s[i] = r <=> i = k  BY <1>1, <1>5 DEF ChainOf
<1>7. /\ \A i \in 1..n : Tnext[s[i]] = IF i = n THEN Null ELSE s[i + 1]
      /\ \A i \in 1..n : Tprev[s[i]] = IF i = 1 THEN Null ELSE s[i - 1]
      /\ \A i, j \in 1..n : s[i] = s[j] => i = j
  BY <1>1 DEF ChainOf
<1> DEFINE m == n - 1
           q == [i \in 1..m |-> IF i < k THEN s[i] ELSE s[i + 1]]
           from(i) == IF i < k THEN i ELSE i + 1
<1>8. /\ m \in Nat /\ m + 1 = n
      /\ k # n => k + 1 \in 1..n
      /\ k # 1 => k - 1 \in 1..n
  BY <1>3, <1>5
<1>9. \A i \in 1..m : from(i) \in 1..n /\ from(i) # k /\ q[i] = s[from(i)]
  BY <1>3, <1>5
<1>10. /\ \A i, j \in 1..m : from(i) = from(j) => i = j
       /\ \A j \in 1..n : j # k => \E i \in 1..m : from(i) = j
  <2>1. \A i, j \in 1..m : from(i) = from(j) => i = j  BY <1>3, <1>5
  <2>2. ASSUME NEW j \in 1..n, j # k  PROVE \E i \in 1..m : from(i) = j
    <3>1. CASE j < k
      <4>1. j \in 1..m /\ from(j) = j  BY <1>3, <1>5, <3>1
      <4> QED  BY <4>1
    <3>2. CASE j > k
      <4>1. j - 1 \in 1..m /\ from(j - 1) = j  BY <1>3, <1>5, <3>2
      <4> QED  BY <4>1
    <3> QED  BY <1>3, <1>5, <2>2, <3>1, <3>2
  <2> QED  BY <2>1, <2>2
<1>11. \A i \in 1..m :
          /\ (i = m <=> (from(i) = n \/ (from(i) + 1 = k /\ k = n)))
          /\ (i # m => i + 1 \in 1..m /\ from(i + 1) = IF from(i) + 1 = k THEN from(i) + 2
                                                        ELSE from(i) + 1)
          /\ (i = 1 <=> (from(i) = 1 \/ (from(i) - 1 = k /\ k = 1)))
          /\ (i # 1 => i - 1 \in 1..m /\ from(i - 1) = IF from(i) - 1 = k THEN from(i) - 2
                                                        ELSE from(i) - 1)
  BY <1>3, <1>5
<1>12. q \in [1..m -> Regions]  BY <1>3, <1>9
<1> HIDE DEF q, from, m
<1>13. ASSUME NEW i \in 1..m, NEW j \in 1..m, q[i] = q[j]  PROVE i = j
  BY <1>7, <1>9, <1>10, <1>13
<1>14. public_blockregion' = IF m = 0 THEN Null ELSE q[1]
  <2>1. n # 0 /\ 1 \in 1..n  BY <1>3, <1>5
  <2>2. public_blockregion = s[1]  BY <1>1, <2>1 DEF ChainOf
  <2>3. Tprev[r] = Null <=> k = 1  BY <1>4, <1>5, <1>7, <1>8
  <2>4. CASE m = 0
    <3>1. n = 1 /\ k = 1  BY <1>3, <1>5, <1>8, <2>4
    <3> QED  BY <1>5, <1>7, <2>3, <2>4, <3>1 DEF TakePublic
  <2>5. CASE m # 0 /\ k = 1
    <3>1. 1 \in 1..m /\ k # n  BY <1>8, <2>5
    <3>2. q[1] = s[2]  BY <1>9, <2>5, <3>1 DEF from
    <3>3. Tnext[r] = s[2]  BY <1>5, <1>7, <2>5, <3>1
    <3> QED  BY <2>3, <2>5, <3>2, <3>3 DEF TakePublic
  <2>6. CASE m # 0 /\ k # 1
    <3>1. 1 \in 1..m /\ 1 < k  BY <1>3, <1>5, <1>8, <2>6
    <3>2. q[1] = s[1]  BY <1>9, <3>1 DEF from
    <3> QED  BY <2>2, <2>3, <2>6, <3>2 DEF TakePublic
  <2> QED  BY <2>4, <2>5, <2>6
<1>15. ASSUME NEW i \in 1..m
       PROVE  /\ Tnext'[q[i]] = IF i = m THEN Null ELSE q[i + 1]
              /\ Tprev'[q[i]] = IF i = 1 THEN Null ELSE q[i - 1]
  <2> DEFINE f == from(i)
  <2>1. f \in 1..n /\ f # k /\ q[i] = s[f] /\ s[f] \in Regions /\ s[f] # r
    BY <1>3, <1>6, <1>9
  <2>2. Tnext'[s[f]] = IF s[f] = Tprev[r] THEN Tnext[r] ELSE Tnext[s[f]]
    BY <2>1 DEF TakePublic
  <2>3. Tprev'[s[f]] = IF s[f] = Tnext[r] THEN Tprev[r] ELSE Tprev[s[f]]
    BY <2>1 DEF TakePublic
  <2>4. s[f] = Tprev[r] <=> f + 1 = k
    <3>1. CASE k = 1  BY <1>4, <1>5, <1>7, <2>1, <3>1
    <3>2. CASE k # 1
      <4>1. Tprev[r] = s[k - 1]  BY <1>5, <1>7, <3>2
      <4>2. s[f] = s[k - 1] <=> f = k - 1  BY <1>7, <1>8, <2>1, <3>2
      <4> QED  BY <1>3, <1>5, <2>1, <4>1, <4>2
    <3> QED  BY <3>1, <3>2
  <2>5. s[f] = Tnext[r] <=> f - 1 = k
    <3>1. CASE k = n  BY <1>3, <1>4, <1>5, <1>7, <2>1, <3>1
    <3>2. CASE k # n
      <4>1. Tnext[r] = s[k + 1]  BY <1>5, <1>7, <3>2
      <4>2. s[f] = s[k + 1] <=> f = k + 1  BY <1>7, <1>8, <2>1, <3>2
      <4> QED  BY <1>3, <1>5, <2>1, <4>1, <4>2
    <3> QED  BY <3>1, <3>2
  <2>6. Tnext'[q[i]] = IF i = m THEN Null ELSE q[i + 1]
    <3>1. CASE f + 1 = k
      <4>1. Tnext'[q[i]] = IF k = n THEN Null ELSE s[f + 2]
        <5>1. k + 1 = f + 2  BY <2>1, <3>1
        <5> QED  BY <1>5, <1>7, <2>1, <2>2, <2>4, <3>1, <5>1
      <4>2. i = m <=> k = n  BY <1>3, <1>5, <1>11, <2>1, <3>1
      <4>3. i # m => q[i + 1] = s[f + 2]  BY <1>9, <1>11, <3>1
      <4> QED  BY <4>1, <4>2, <4>3
    <3>2. CASE f + 1 # k
      <4>1. Tnext'[q[i]] = IF f = n THEN Null ELSE s[f + 1]
        BY <1>7, <2>1, <2>2, <2>4, <3>2
      <4>2. i = m <=> f = n  BY <1>11, <3>2
      <4>3. i # m => q[i + 1] = s[f + 1]  BY <1>9, <1>11, <3>2
      <4> QED  BY <4>1, <4>2, <4>3
    <3> QED  BY <3>1, <3>2
  <2>7. Tprev'[q[i]] = IF i = 1 THEN Null ELSE q[i - 1]
    <3>1. CASE f - 1 = k
      <4>1. Tprev'[q[i]] = IF k = 1 THEN Null ELSE s[f - 2]
        <5>1. k - 1 = f - 2  BY <2>1, <3>1
        <5> QED  BY <1>5, <1>7, <2>1, <2>3, <2>5, <3>1, <5>1
      <4>2. i = 1 <=> k = 1  BY <1>3, <1>5, <1>11, <2>1, <3>1
      <4>3. i # 1 => q[i - 1] = s[f - 2]  BY <1>9, <1>11, <3>1
      <4> QED  BY <4>1, <4>2, <4>3
    <3>2. CASE f - 1 # k
      <4>1. Tprev'[q[i]] = IF f = 1 THEN Null ELSE s[f - 1]
        BY <1>7, <2>1, <2>3, <2>5, <3>2
      <4>2. i = 1 <=> f = 1  BY <1>11, <3>2
      <4>3. i # 1 => q[i - 1] = s[f - 1]  BY <1>9, <1>11, <3>2
      <4> QED  BY <4>1, <4>2, <4>3
    <3> QED  BY <3>1, <3>2
  <2> QED  BY <2>6, <2>7
<1>16. ASSUME NEW x \in Regions, \A i \in 1..m : q[i] # x
       PROVE  Tnext'[x] = Null /\ Tprev'[x] = Null
  <2>1. \A j \in 1..n : j # k => s[j] # x
    <3> SUFFICES ASSUME NEW j \in 1..n, j # k  PROVE s[j] # x  OBVIOUS
    <3>1. PICK i \in 1..m : from(i) = j  BY <1>10
    <3> QED  BY <1>9, <1>16, <3>1
  <2>2. CASE x = r  BY <2>2 DEF TakePublic
  <2>3. CASE x # r
    <3>1. \A i \in 1..n : s[i] # x  BY <1>5, <2>1, <2>3
    <3>2. Tnext[x] = Null /\ Tprev[x] = Null  BY <1>1, <3>1 DEF ChainOf
    <3>3. x # Tprev[r] /\ x # Tnext[r]  BY <1>3, <1>5, <1>7, <1>8, <3>1
    <3> QED  BY <2>3, <3>2, <3>3 DEF TakePublic
  <2> QED  BY <2>2, <2>3
<1>17. ChainOf(m, q)'
  BY <1>8, <1>12, <1>13, <1>14, <1>15, <1>16 DEF ChainOf
<1>18. Public' = {q[i] : i \in 1..m} /\ Chained'  BY <1>17, PublicOfNextChain DEF Chained
<1>19. {q[i] : i \in 1..m} = Public \ {r}
  <2>1. ASSUME NEW i \in 1..m  PROVE q[i] \in Public \ {r}
    BY <1>2, <1>6, <1>9
  <2>2. ASSUME NEW j \in 1..n, s[j] # r  PROVE s[j] \in {q[i] : i \in 1..m}
    <3>1. j # k  BY <1>5, <2>2
    <3>2. PICK i \in 1..m : from(i) = j  BY <1>10, <3>1
    <3> QED  BY <1>9, <3>2
  <2> QED  BY <1>2, <2>1, <2>2
<1> QED  BY <1>18, <1>19

\* The chain is what it was when its variables are.
LEMMA SameChain ==
    ASSUME Chained, UNCHANGED chain
    PROVE  Chained' /\ Public' = Public
<1>1. PICK n, s : ChainOf(n, s)  BY DEF Chained
<1>2. ChainOf(n, s)'  BY <1>1 DEF ChainOf, chain
<1> QED  BY <1>1, <1>2, PublicOfChain, PublicOfNextChain DEF Chained

\* The operations keep the types of the links.
LEMMA ChainType ==
    ASSUME TypeOK, NEW p \in Regions, NEW r \in Regions,
           PutPublic(p) \/ SwapPublic(p, r) \/ TakePublic(r) \/ UNCHANGED chain
    PROVE  /\ public_blockregion' \in Regions \cup {Null}
           /\ Tnext' \in [Regions -> Regions \cup {Null}]
           /\ Tprev' \in [Regions -> Regions \cup {Null}]
<1> USE DEF TypeOK
<1>1. CASE PutPublic(p)  BY <1>1 DEF PutPublic
<1>2. CASE SwapPublic(p, r)
  <2>1. Tnext[r] \in Regions \cup {Null} /\ Tprev[r] \in Regions \cup {Null}  OBVIOUS
  <2> QED  BY <1>2, <2>1 DEF SwapPublic
<1>3. CASE TakePublic(r)
  <2>1. Tnext[r] \in Regions \cup {Null} /\ Tprev[r] \in Regions \cup {Null}  OBVIOUS
  <2> QED  BY <1>3, <2>1 DEF TakePublic
<1>4. CASE UNCHANGED chain  BY <1>4 DEF chain
<1> QED  BY <1>1, <1>2, <1>3, <1>4

-----------------------------------------------------------------------------
(* The inductive invariant *)

\* The region that is a thread's, or that it is about to make its own: a thread
\* between the two halves of reserve()'s last resort has given one up already.
Claim(t) == IF pc[t] = "grown" THEN rp[t] ELSE curtblock[t]

Exclusive ==
    \A t \in Threads : Claim(t) # Null =>
        Claim(t) \notin Public /\ \A u \in Threads \ {t} : Claim(u) # Claim(t)

OwnerInv ==
    /\ \A t \in Threads : Claim(t) = Null <=> pc[t] \in {"unborn", "exited"}
    /\ Exclusive
    /\ \A t \in Threads : control = t /\ pc[t] \in {"scan", "scan_last"} =>
           rp[t] \in Public \cup {Null}

IInv == TypeOK /\ Chained /\ OwnerInv

\* Claims stay exclusive when one thread changes its claim for a region that
\* nobody else claims, and nothing but its old claim enters the chain.
LEMMA ClaimMove ==
    ASSUME Exclusive, NEW t \in Threads,
           \A u \in Threads \ {t} : Claim(u)' = Claim(u),
           Public' \subseteq Public \cup {Claim(t)},
           Claim(t)' # Null =>
               /\ Claim(t)' \notin Public'
               /\ \A u \in Threads \ {t} : Claim(u) # Claim(t)'
    PROVE  Exclusive'
<1> SUFFICES ASSUME NEW u \in Threads, Claim(u)' # Null
             PROVE  /\ Claim(u)' \notin Public'
                    /\ \A v \in Threads \ {u} : Claim(v)' # Claim(u)'
  BY DEF Exclusive
<1> USE DEF Exclusive
<1>1. CASE u = t  BY <1>1
<1>2. CASE u # t
  <2>1. Claim(u) # Null /\ Claim(u)' = Claim(u)  BY <1>2
  <2>2. Claim(u) \notin Public \cup {Claim(t)}  BY <1>2, <2>1
  <2>3. \A v \in Threads \ {u, t} : Claim(v)' # Claim(u)'  BY <2>1
  <2>4. Claim(t)' # Claim(u)'  BY <1>2, <2>1
  <2> QED  BY <2>1, <2>2, <2>3, <2>4
<1> QED  BY <1>1, <1>2

\* A thread that may change the chain holds a region outside it.
LEMMA HoldsRegion ==
    ASSUME IInv, NEW t \in Threads, pc[t] \notin {"unborn", "exited", "grown"}
    PROVE  curtblock[t] \in Regions \ Public /\ Claim(t) = curtblock[t]
BY DEF IInv, OwnerInv, Exclusive, Claim, TypeOK

\* A region that is fresh is claimed by nobody.
LEMMA FreshUnclaimed ==
    ASSUME NEW r \in Fresh
    PROVE  r \in Regions \ Public /\ \A t \in Threads : Claim(t) # r
BY DEF Fresh, Claim

\* The public regions are regions, and the first one is among them.
LEMMA PublicRegions ==
    ASSUME Chained
    PROVE  /\ Public \subseteq Regions
           /\ public_blockregion \in Public \cup {Null}
           /\ \A r \in Public : Tnext[r] \in Public \cup {Null}
<1>1. PICK n, s : ChainOf(n, s)  BY DEF Chained
<1>2. Public = {s[i] : i \in 1..n}  BY <1>1, PublicOfChain
<1>3. n \in Nat /\ (n # 0 => 1 \in 1..n)  BY <1>1 DEF ChainOf
<1>4. Public \subseteq Regions  BY SoundOfChain
<1>5. public_blockregion \in Public \cup {Null}  BY <1>1, <1>2, <1>3 DEF ChainOf
<1>6. ASSUME NEW r \in Public  PROVE Tnext[r] \in Public \cup {Null}
  <2>1. PICK i \in 1..n : r = s[i]  BY <1>2
  <2>2. i # n => i + 1 \in 1..n  BY <1>3
  <2> QED  BY <1>1, <1>2, <2>1, <2>2 DEF ChainOf
<1> QED  BY <1>4, <1>5, <1>6

-----------------------------------------------------------------------------
(* Every step keeps the inductive invariant *)

LEMMA InitInductive == Init => IInv
<1> SUFFICES ASSUME Init PROVE IInv  OBVIOUS
<1> USE DEF Init
<1>1. TypeOK  BY HeapAssumption DEF TypeOK, Labels
<1>2. ChainOf(0, [i \in 1..0 |-> Null])  BY DEF ChainOf
<1>3. Chained  BY <1>2 DEF Chained
<1>4. Public = {}
  <2>1. Public = {[i \in 1..0 |-> Null][j] : j \in 1..0}  BY <1>2, PublicOfChain
  <2> QED  BY <2>1
<1>5. OwnerInv
  BY <1>4, HeapAssumption DEF OwnerInv, Exclusive, Claim
<1> QED  BY <1>1, <1>3, <1>5 DEF IInv

LEMMA TypeStep ==
    ASSUME IInv, [Next]_vars
    PROVE  TypeOK'
<1> USE DEF TypeOK, Labels
<1> TypeOK /\ Chained  BY DEF IInv
<1> Public \subseteq Regions  BY PublicRegions
<1>1. CASE UNCHANGED vars  BY <1>1 DEF vars, chain, locals
<1>2. CASE Next
  <2> PICK t \in Threads :
        \/ \E n \in Wants : InitThreadHeap(t, n) \/ Reserve(t, n)
        \/ CleanThread(t) \/ FindGap(t) \/ Suspend(t) \/ Succeed(t) \/ ScanRegion(t)
        \/ ScanEnd(t) \/ Resume(t) \/ GrowSwap(t) \/ GrowLink(t) \/ GrowFail(t) \/ SuspendLast(t)
    BY <1>2 DEF Next
  <2> USE DEF Goto, Return, locals
  <2>1. ASSUME NEW n \in Wants, InitThreadHeap(t, n)  PROVE TypeOK'
    <3>1. PICK r \in Regions : /\ TakePublic(r) \/ UNCHANGED chain
                               /\ curtblock' = [curtblock EXCEPT ![t] = r]
      BY <2>1 DEF InitThreadHeap, Fresh
    <3>2. /\ public_blockregion' \in Regions \cup {Null}
          /\ Tnext' \in [Regions -> Regions \cup {Null}]
          /\ Tprev' \in [Regions -> Regions \cup {Null}]
      BY <3>1, ChainType
    <3> QED  BY <2>1, <3>1, <3>2 DEF InitThreadHeap
  <2>2. ASSUME NEW n \in Wants, Reserve(t, n)  PROVE TypeOK'
    BY <2>2 DEF Reserve, chain
  <2>3. CASE CleanThread(t)
    <3>1. curtblock[t] \in Regions  BY <2>3, HoldsRegion DEF CleanThread
    <3>2. /\ public_blockregion' \in Regions \cup {Null}
          /\ Tnext' \in [Regions -> Regions \cup {Null}]
          /\ Tprev' \in [Regions -> Regions \cup {Null}]
      BY <2>3, <3>1, ChainType DEF CleanThread
    <3> QED  BY <2>3, <3>2 DEF CleanThread
  <2>4. CASE FindGap(t)
    <3>1. curtblock[t] \in Regions  BY <2>4, HoldsRegion DEF FindGap
    <3>2. \/ \E r \in Regions : /\ SwapPublic(curtblock[t], r)
                                /\ curtblock' = [curtblock EXCEPT ![t] = r]
                                /\ pc' = [pc EXCEPT ![t] = "run"]
                                /\ Return(t)
          \/ UNCHANGED <<chain, curtblock>> /\ (Return(t) \/ UNCHANGED locals)
             /\ \E l \in Labels : pc' = [pc EXCEPT ![t] = l]
      BY <2>4 DEF FindGap
    <3>3. /\ public_blockregion' \in Regions \cup {Null}
          /\ Tnext' \in [Regions -> Regions \cup {Null}]
          /\ Tprev' \in [Regions -> Regions \cup {Null}]
      BY <3>1, <3>2, ChainType
    <3>4. curtblock' \in [Threads -> Regions \cup {Null}]  BY <3>2
    <3>5. /\ want' \in [Threads -> Wants \cup {0}]
          /\ rp' \in [Threads -> Regions \cup {Null}]
          /\ pc' \in [Threads -> Labels]
      BY <3>2
    <3> QED  BY <2>4, <3>3, <3>4, <3>5 DEF FindGap
  <2>5. CASE Suspend(t)  BY <2>5 DEF Suspend, chain
  <2>6. CASE Succeed(t)  BY <2>6 DEF Succeed, chain
  <2>7. CASE ScanRegion(t)
    <3>1. rp[t] \in Regions /\ curtblock[t] \in Regions
      BY <2>7, HoldsRegion DEF ScanRegion
    <3>2. /\ public_blockregion' \in Regions \cup {Null}
          /\ Tnext' \in [Regions -> Regions \cup {Null}]
          /\ Tprev' \in [Regions -> Regions \cup {Null}]
      BY <2>7, <3>1, ChainType DEF ScanRegion
    <3>3. curtblock' \in [Threads -> Regions \cup {Null}]
      BY <2>7, <3>1 DEF ScanRegion
    <3>4. Tnext'[rp[t]] \in Regions \cup {Null}  BY <3>1, <3>2
    <3> QED  BY <2>7, <3>2, <3>3, <3>4 DEF ScanRegion
  <2>8. CASE ScanEnd(t)  BY <2>8 DEF ScanEnd, chain
  <2>9. CASE Resume(t)  BY <2>9 DEF Resume, chain
  <2>10. CASE GrowSwap(t)
    <3>1. curtblock[t] \in Regions  BY <2>10, HoldsRegion DEF GrowSwap
    <3>2. /\ public_blockregion' \in Regions \cup {Null}
          /\ Tnext' \in [Regions -> Regions \cup {Null}]
          /\ Tprev' \in [Regions -> Regions \cup {Null}]
      BY <2>10, <3>1, ChainType DEF GrowSwap
    <3> QED  BY <2>10, <3>2 DEF GrowSwap, Fresh
  <2>11. CASE GrowLink(t)  BY <2>11 DEF GrowLink, chain
  <2>12. CASE GrowFail(t)  BY <2>12 DEF GrowFail, chain
  <2>13. CASE SuspendLast(t)  BY <2>13 DEF SuspendLast, chain
  <2> QED  BY <2>1, <2>2, <2>3, <2>4, <2>5, <2>6, <2>7, <2>8, <2>9, <2>10, <2>11,
              <2>12, <2>13
<1> QED  BY <1>1, <1>2

\* A step of one thread keeps the invariant on owners when it does for that thread.
LEMMA OwnerMove ==
    ASSUME IInv, NEW t \in Threads,
           \A u \in Threads \ {t} :
               pc'[u] = pc[u] /\ curtblock'[u] = curtblock[u] /\ rp'[u] = rp[u],
           control' = Null \/ control' = t \/ (control' = control /\ Public' = Public),
           Public' \subseteq Public \cup {Claim(t)},
           Claim(t)' = Null <=> pc'[t] \in {"unborn", "exited"},
           Claim(t)' # Null =>
               Claim(t)' \notin Public' /\ \A u \in Threads \ {t} : Claim(u) # Claim(t)',
           control' = t /\ pc'[t] \in {"scan", "scan_last"} => rp'[t] \in Public' \cup {Null}
    PROVE  OwnerInv' /\ \A u \in Threads \ {t} : Owned(u)' = Owned(u)
<1>1. \A u \in Threads \ {t} : Claim(u)' = Claim(u) /\ Owned(u)' = Owned(u)
  BY DEF Claim, Owned
<1>2. Exclusive'  BY <1>1, ClaimMove DEF IInv, OwnerInv
<1>3. \A u \in Threads : Claim(u)' = Null <=> pc'[u] \in {"unborn", "exited"}
  BY <1>1 DEF IInv, OwnerInv
<1>4. ASSUME NEW u \in Threads, control' = u, pc'[u] \in {"scan", "scan_last"}
      PROVE  rp'[u] \in Public' \cup {Null}
  <2>1. CASE u = t  BY <1>4, <2>1
  <2>2. CASE u # t
    <3>1. control = u /\ Public' = Public /\ pc[u] \in {"scan", "scan_last"} /\ rp'[u] = rp[u]
      BY <1>4, <2>2, HeapAssumption
    <3> QED  BY <3>1 DEF IInv, OwnerInv
  <2> QED  BY <2>1, <2>2
<1> QED  BY <1>1, <1>2, <1>3, <1>4 DEF OwnerInv

\* A step that leaves the chain and the claim of its thread alone.
LEMMA QuietMove ==
    ASSUME IInv, UNCHANGED chain, NEW t \in Threads,
           \A u \in Threads \ {t} :
               pc'[u] = pc[u] /\ curtblock'[u] = curtblock[u] /\ rp'[u] = rp[u],
           control' \in {control, t, Null},
           Claim(t)' = Claim(t),
           pc'[t] \in {"unborn", "exited"} <=> pc[t] \in {"unborn", "exited"},
           control' = t /\ pc'[t] \in {"scan", "scan_last"} => rp'[t] \in Public \cup {Null}
    PROVE  /\ Chained' /\ OwnerInv' /\ Public' = Public
           /\ \A u \in Threads \ {t} : Owned(u)' = Owned(u)
<1>1. Chained' /\ Public' = Public  BY SameChain DEF IInv
<1>2. /\ Claim(t)' = Null <=> pc'[t] \in {"unborn", "exited"}
      /\ Claim(t)' # Null =>
             Claim(t)' \notin Public' /\ \A u \in Threads \ {t} : Claim(u) # Claim(t)'
  BY <1>1 DEF IInv, OwnerInv, Exclusive
<1>3. control' = Null \/ control' = t \/ (control' = control /\ Public' = Public)
  BY <1>1
<1>4. Public' \subseteq Public \cup {Claim(t)}  BY <1>1
<1>5. OwnerInv' /\ \A u \in Threads \ {t} : Owned(u)' = Owned(u)
  BY <1>1, <1>2, <1>3, <1>4, OwnerMove
<1> QED  BY <1>1, <1>5

-----------------------------------------------------------------------------
(* What a step does to the pool *)

OwnedMap == [t \in Threads |-> Owned(t)]

LEMMA OwnedMove ==
    ASSUME NEW t \in Threads, NEW c, Owned(t)' = c,
           \A u \in Threads \ {t} : Owned(u)' = Owned(u)
    PROVE  OwnedMap' = [OwnedMap EXCEPT ![t] = c]
BY DEF OwnedMap

LEMMA PoolTake ==
    ASSUME NEW t \in Threads, NEW r \in Public, Public \subseteq Regions, Owned(t) = Null,
           Public' = Public \ {r}, Owned(t)' = r,
           \A u \in Threads \ {t} : Owned(u)' = Owned(u)
    PROVE  Pool!Next
<1>1. OwnedMap' = [OwnedMap EXCEPT ![t] = r]  BY OwnedMove
<1>2. Pool!Take(t, r)  BY <1>1 DEF Pool!Take, OwnedMap
<1> QED  BY <1>2 DEF Pool!Next

LEMMA PoolGive ==
    ASSUME NEW t \in Threads, Owned(t) # Null,
           Public' = Public \cup {Owned(t)}, Owned(t)' = Null,
           \A u \in Threads \ {t} : Owned(u)' = Owned(u)
    PROVE  Pool!Next
<1>1. OwnedMap' = [OwnedMap EXCEPT ![t] = Null]  BY OwnedMove
<1>2. Pool!Give(t)  BY <1>1 DEF Pool!Give, OwnedMap
<1> QED  BY <1>2 DEF Pool!Next

LEMMA PoolExchange ==
    ASSUME NEW t \in Threads, NEW r \in Public, Public \subseteq Regions, Owned(t) # Null,
           Public' = (Public \ {r}) \cup {Owned(t)}, Owned(t)' = r,
           \A u \in Threads \ {t} : Owned(u)' = Owned(u)
    PROVE  Pool!Next
<1>1. OwnedMap' = [OwnedMap EXCEPT ![t] = r]  BY OwnedMove
<1>2. Pool!Exchange(t, r)  BY <1>1 DEF Pool!Exchange, OwnedMap
<1> QED  BY <1>2 DEF Pool!Next

LEMMA PoolAllocate ==
    ASSUME NEW t \in Threads, NEW r \in Regions \ Public, Owned(t) = Null,
           \A u \in Threads : Owned(u) # r,
           Public' = Public, Owned(t)' = r,
           \A u \in Threads \ {t} : Owned(u)' = Owned(u)
    PROVE  Pool!Next
<1>1. OwnedMap' = [OwnedMap EXCEPT ![t] = r]  BY OwnedMove
<1>2. Pool!Allocate(t, r)  BY <1>1 DEF Pool!Allocate, Pool!Unowned, OwnedMap
<1> QED  BY <1>2 DEF Pool!Next

LEMMA PoolStutter ==
    ASSUME Public' = Public, \A u \in Threads : Owned(u)' = Owned(u)
    PROVE  UNCHANGED Pool!vars
BY DEF Pool!vars

-----------------------------------------------------------------------------
(* One lemma per operation that changes the chain or the owner of a region *)

StepKept == Chained' /\ OwnerInv' /\ (Pool!Next \/ UNCHANGED Pool!vars)

LEMMA InitThreadHeapStep ==
    ASSUME IInv, NEW t \in Threads, NEW n \in Wants, InitThreadHeap(t, n)
    PROVE  StepKept
<1> USE DEF InitThreadHeap, Goto, locals
<1>1. TypeOK /\ Chained /\ Public \subseteq Regions  BY PublicRegions DEF IInv
<1>2. /\ \A u \in Threads \ {t} :
             pc'[u] = pc[u] /\ curtblock'[u] = curtblock[u] /\ rp'[u] = rp[u]
      /\ pc[t] = "unborn" /\ pc'[t] = "run" /\ control' = Null
  BY <1>1 DEF TypeOK
<1>3. Claim(t) = Null /\ Owned(t) = Null
  BY <1>2 DEF IInv, OwnerInv, Claim, Owned
<1>4. CASE \E r \in Public : TakePublic(r) /\ curtblock' = [curtblock EXCEPT ![t] = r]
  <2>1. PICK r \in Public : TakePublic(r) /\ curtblock' = [curtblock EXCEPT ![t] = r]
    BY <1>4
  <2>2. Chained' /\ Public' = Public \ {r}  BY <1>1, <2>1, TakePublicChain
  <2>3. Claim(t)' = r /\ Owned(t)' = r /\ r # Null
    BY <1>1, <1>2, <2>1, HeapAssumption DEF Claim, Owned, TypeOK
  <2>4. \A u \in Threads \ {t} : Claim(u) # r
    BY <1>1, HeapAssumption DEF IInv, OwnerInv, Exclusive
  <2>5. OwnerInv' /\ \A u \in Threads \ {t} : Owned(u)' = Owned(u)
    BY <1>2, <2>2, <2>3, <2>4, OwnerMove
  <2>6. Pool!Next  BY <1>1, <1>3, <2>2, <2>3, <2>5, PoolTake
  <2> QED  BY <2>2, <2>5, <2>6 DEF StepKept
<1>5. CASE /\ \E r \in Fresh : curtblock' = [curtblock EXCEPT ![t] = r]
           /\ UNCHANGED chain
  <2>1. PICK r \in Fresh : curtblock' = [curtblock EXCEPT ![t] = r]  BY <1>5
  <2>2. r \in Regions \ Public /\ \A u \in Threads : Claim(u) # r
    BY FreshUnclaimed
  <2>3. Chained' /\ Public' = Public  BY <1>1, <1>5, SameChain
  <2>4. Claim(t)' = r /\ Owned(t)' = r /\ r # Null
    BY <1>1, <1>2, <2>1, <2>2, HeapAssumption DEF Claim, Owned, TypeOK
  <2>5. OwnerInv' /\ \A u \in Threads \ {t} : Owned(u)' = Owned(u)
    BY <1>2, <2>2, <2>3, <2>4, OwnerMove
  <2>6. \A u \in Threads : Owned(u) # r
    BY <2>2, <2>4 DEF Claim, Owned
  <2>7. Pool!Next  BY <1>3, <2>2, <2>3, <2>4, <2>5, <2>6, PoolAllocate
  <2> QED  BY <2>3, <2>5, <2>7 DEF StepKept
<1> QED  BY <1>4, <1>5

LEMMA CleanThreadStep ==
    ASSUME IInv, NEW t \in Threads, CleanThread(t)
    PROVE  StepKept
<1> USE DEF CleanThread, Goto, locals
<1>1. TypeOK /\ Chained  BY DEF IInv
<1>2. /\ \A u \in Threads \ {t} :
             pc'[u] = pc[u] /\ curtblock'[u] = curtblock[u] /\ rp'[u] = rp[u]
      /\ pc[t] = "run" /\ pc'[t] = "exited" /\ control' = Null
  BY <1>1 DEF TypeOK
<1>3. curtblock[t] \in Regions \ Public /\ Claim(t) = curtblock[t]
  BY <1>2, HoldsRegion
<1>4. Owned(t) = curtblock[t] /\ Owned(t) # Null
  BY <1>2, <1>3, HeapAssumption DEF Owned
<1>5. Chained' /\ Public' = Public \cup {curtblock[t]}
  BY <1>1, <1>3, PutPublicChain
<1>6. Claim(t)' = Null /\ Owned(t)' = Null
  BY <1>1, <1>2 DEF Claim, Owned, TypeOK
<1>7. OwnerInv' /\ \A u \in Threads \ {t} : Owned(u)' = Owned(u)
  BY <1>2, <1>3, <1>5, <1>6, OwnerMove
<1>8. Pool!Next  BY <1>4, <1>5, <1>6, <1>7, PoolGive
<1> QED  BY <1>5, <1>7, <1>8 DEF StepKept

\* findgap() and the scans of reserve() exchange regions in the same way.
LEMMA ExchangeStep ==
    ASSUME IInv, NEW t \in Threads, NEW r \in Public,
           pc[t] \notin {"unborn", "exited", "grown"},
           pc'[t] \notin {"unborn", "exited", "grown"},
           \A u \in Threads \ {t} : pc'[u] = pc[u] /\ rp'[u] = rp[u],
           SwapPublic(curtblock[t], r), curtblock' = [curtblock EXCEPT ![t] = r],
           control' \in {Null, t}, control' = t => rp'[t] = Tnext'[r]
    PROVE  StepKept
<1>1. TypeOK /\ Chained /\ Public \subseteq Regions  BY PublicRegions DEF IInv
<1>2. curtblock[t] \in Regions \ Public /\ Claim(t) = curtblock[t]  BY HoldsRegion
<1>3. Owned(t) = curtblock[t] /\ Owned(t) # Null
  BY <1>2, HeapAssumption DEF Owned
<1>4. Chained' /\ Public' = (Public \ {r}) \cup {curtblock[t]}
  BY <1>1, <1>2, SwapPublicChain
<1>5. /\ \A u \in Threads \ {t} :
             pc'[u] = pc[u] /\ curtblock'[u] = curtblock[u] /\ rp'[u] = rp[u]
      /\ Claim(t)' = r /\ Owned(t)' = r /\ r # Null
  BY <1>1, HeapAssumption DEF Claim, Owned, TypeOK
<1>6. \A u \in Threads \ {t} : Claim(u) # r
  BY <1>1, HeapAssumption DEF IInv, OwnerInv, Exclusive
<1>7. r \notin Public' /\ Public' \subseteq Public \cup {Claim(t)}  BY <1>2, <1>4
<1>8. Tnext'[r] = Null  BY <1>1, <1>2 DEF SwapPublic
<1>9. control' = t => rp'[t] \in Public' \cup {Null}  BY <1>8
<1>10. OwnerInv' /\ \A u \in Threads \ {t} : Owned(u)' = Owned(u)
  BY <1>5, <1>6, <1>7, <1>9, OwnerMove
<1>11. Pool!Next  BY <1>1, <1>3, <1>4, <1>5, <1>10, PoolExchange
<1> QED  BY <1>4, <1>10, <1>11 DEF StepKept

\* A step that leaves chain, claim and owner alone is none of the pool.
LEMMA QuietStep ==
    ASSUME IInv, UNCHANGED chain, NEW t \in Threads,
           \A u \in Threads \ {t} :
               pc'[u] = pc[u] /\ curtblock'[u] = curtblock[u] /\ rp'[u] = rp[u],
           curtblock'[t] = curtblock[t], control' \in {control, t, Null},
           {pc[t], pc'[t]} \cap {"unborn", "exited", "grown"} = {},
           control' = t /\ pc'[t] \in {"scan", "scan_last"} => rp'[t] \in Public \cup {Null}
    PROVE  StepKept
<1>1. Claim(t)' = Claim(t) /\ Owned(t)' = Owned(t)  BY DEF Claim, Owned
<1>2. pc'[t] \in {"unborn", "exited"} <=> pc[t] \in {"unborn", "exited"}  OBVIOUS
<1>3. /\ Chained' /\ OwnerInv' /\ Public' = Public
      /\ \A u \in Threads \ {t} : Owned(u)' = Owned(u)
  BY <1>1, <1>2, QuietMove
<1>4. UNCHANGED Pool!vars  BY <1>1, <1>3, PoolStutter
<1> QED  BY <1>3, <1>4 DEF StepKept

LEMMA FindGapStep ==
    ASSUME IInv, NEW t \in Threads, FindGap(t)
    PROVE  StepKept
<1> USE DEF FindGap, Goto, Return
<1>1. TypeOK  BY DEF IInv
<1>2. CASE \E r \in Public : /\ SwapPublic(curtblock[t], r)
                             /\ curtblock' = [curtblock EXCEPT ![t] = r]
                             /\ pc' = [pc EXCEPT ![t] = "run"]
                             /\ Return(t)
  <2>1. PICK r \in Public : /\ SwapPublic(curtblock[t], r)
                            /\ curtblock' = [curtblock EXCEPT ![t] = r]
                            /\ pc' = [pc EXCEPT ![t] = "run"]
                            /\ Return(t)
    BY <1>2
  <2>2. /\ pc[t] \notin {"unborn", "exited", "grown"}
        /\ pc'[t] \notin {"unborn", "exited", "grown"}
        /\ \A u \in Threads \ {t} : pc'[u] = pc[u] /\ rp'[u] = rp[u]
        /\ control' = Null /\ t # Null
    BY <1>1, <2>1, HeapAssumption DEF TypeOK
  <2> QED  BY <2>1, <2>2, ExchangeStep
<1>3. CASE UNCHANGED <<chain, curtblock>>
           /\ ((Goto(t, "gap", "stop") /\ UNCHANGED locals)
               \/ (Goto(t, "gap_last", "run") /\ Return(t)))
  <2>1. /\ \A u \in Threads \ {t} :
               pc'[u] = pc[u] /\ curtblock'[u] = curtblock[u] /\ rp'[u] = rp[u]
        /\ curtblock'[t] = curtblock[t]
        /\ {pc[t], pc'[t]} \cap {"unborn", "exited", "grown"} = {}
        /\ control' = Null /\ t # Null
    BY <1>1, <1>3, HeapAssumption DEF TypeOK, locals
  <2> QED  BY <1>3, <2>1, QuietStep
<1> QED  BY <1>2, <1>3

LEMMA ScanRegionStep ==
    ASSUME IInv, NEW t \in Threads, ScanRegion(t)
    PROVE  StepKept
<1> USE DEF ScanRegion
<1>1. TypeOK /\ Chained  BY DEF IInv
<1>2. rp[t] \in Public  BY DEF IInv, OwnerInv
<1>3. /\ pc[t] \notin {"unborn", "exited", "grown"}
      /\ pc'[t] \notin {"unborn", "exited", "grown"}
      /\ \A u \in Threads \ {t} : pc'[u] = pc[u] /\ rp'[u] = rp[u]
      /\ control' = t /\ rp'[t] = Tnext'[rp[t]]
  BY <1>1 DEF TypeOK
<1>4. CASE SwapPublic(curtblock[t], rp[t]) /\ curtblock' = [curtblock EXCEPT ![t] = rp[t]]
  BY <1>2, <1>3, <1>4, ExchangeStep
<1>5. CASE UNCHANGED <<chain, curtblock>>
  <2>1. rp'[t] \in Public \cup {Null}
    BY <1>1, <1>2, <1>3, <1>5, PublicRegions DEF chain
  <2> QED  BY <1>3, <1>5, <2>1, QuietStep
<1> QED  BY <1>4, <1>5

\* newregion() succeeds: the thread gives its region up ...
LEMMA GrowSwapStep ==
    ASSUME IInv, NEW t \in Threads, GrowSwap(t)
    PROVE  StepKept
<1> USE DEF GrowSwap, Goto
<1>1. TypeOK /\ Chained  BY DEF IInv
<1>2. PICK r \in Fresh : rp' = [rp EXCEPT ![t] = r]  OBVIOUS
<1>3. /\ \A u \in Threads \ {t} :
             pc'[u] = pc[u] /\ curtblock'[u] = curtblock[u] /\ rp'[u] = rp[u]
      /\ pc[t] = "grow" /\ pc'[t] = "grown" /\ control' = Null
  BY <1>1, <1>2 DEF TypeOK
<1>4. curtblock[t] \in Regions \ Public /\ Claim(t) = curtblock[t]
  BY <1>3, HoldsRegion
<1>5. Owned(t) = curtblock[t] /\ Owned(t) # Null
  BY <1>3, <1>4, HeapAssumption DEF Owned
<1>6. Chained' /\ Public' = Public \cup {curtblock[t]}
  BY <1>1, <1>4, PutPublicChain
<1>7. r \in Regions \ Public /\ \A u \in Threads : Claim(u) # r  BY FreshUnclaimed
<1>8. Claim(t)' = r /\ r # Null /\ Owned(t)' = Null
  BY <1>1, <1>2, <1>3, <1>7, HeapAssumption DEF Claim, Owned, TypeOK
<1>9. r \notin Public'  BY <1>4, <1>6, <1>7
<1>10. OwnerInv' /\ \A u \in Threads \ {t} : Owned(u)' = Owned(u)
  BY <1>3, <1>4, <1>6, <1>7, <1>8, <1>9, OwnerMove
<1>11. Pool!Next  BY <1>5, <1>6, <1>8, <1>10, PoolGive
<1> QED  BY <1>6, <1>10, <1>11 DEF StepKept

\* ... and takes the new one as its own.
LEMMA GrowLinkStep ==
    ASSUME IInv, NEW t \in Threads, GrowLink(t)
    PROVE  StepKept
<1> USE DEF GrowLink, Goto, Return
<1>1. TypeOK  BY DEF IInv
<1>2. /\ \A u \in Threads \ {t} :
             pc'[u] = pc[u] /\ curtblock'[u] = curtblock[u] /\ rp'[u] = rp[u]
      /\ pc[t] = "grown" /\ pc'[t] = "run" /\ curtblock'[t] = rp[t]
  BY <1>1 DEF TypeOK
<1>3. /\ Claim(t) = rp[t] /\ Claim(t)' = rp[t] /\ Owned(t)' = rp[t] /\ Owned(t) = Null
  BY <1>2 DEF Claim, Owned
<1>4. /\ rp[t] \in Regions \ Public
      /\ \A u \in Threads \ {t} : Claim(u) # rp[t]
  BY <1>1, <1>2, <1>3 DEF IInv, OwnerInv, Exclusive, TypeOK
<1>5. /\ Chained' /\ OwnerInv' /\ Public' = Public
      /\ \A u \in Threads \ {t} : Owned(u)' = Owned(u)
  BY <1>2, <1>3, QuietMove
<1>6. \A u \in Threads : Owned(u) # rp[t]
  BY <1>3, <1>4, HeapAssumption DEF Claim, Owned
<1>7. Pool!Next  BY <1>3, <1>4, <1>5, <1>6, PoolAllocate
<1> QED  BY <1>5, <1>7 DEF StepKept

\* Every step keeps the invariant and is a step of the pool or none.
LEMMA StepInductive ==
    ASSUME IInv, [Next]_vars
    PROVE  IInv' /\ (Pool!Next \/ UNCHANGED Pool!vars)
<1>1. TypeOK'  BY TypeStep
<1>2. TypeOK /\ Chained  BY DEF IInv
<1>3. StepKept
  <2>1. CASE UNCHANGED vars
    <3>1. Main \in Threads  BY HeapAssumption
    <3>2. /\ UNCHANGED <<chain, curtblock, rp, pc, control>>  BY <2>1 DEF vars, locals
    <3>3. Chained' /\ Public' = Public  BY <1>2, <3>2, SameChain
    <3>4. \A u \in Threads : Owned(u)' = Owned(u) /\ Claim(u)' = Claim(u)
      BY <3>2 DEF Owned, Claim
    <3>5. OwnerInv'  BY <3>2, <3>3, <3>4 DEF IInv, OwnerInv, Exclusive
    <3> QED  BY <3>3, <3>4, <3>5, PoolStutter DEF StepKept
  <2>2. CASE Next
    <3> PICK t \in Threads :
          \/ \E n \in Wants : InitThreadHeap(t, n) \/ Reserve(t, n)
          \/ CleanThread(t) \/ FindGap(t) \/ Suspend(t) \/ Succeed(t) \/ ScanRegion(t)
          \/ ScanEnd(t) \/ Resume(t) \/ GrowSwap(t) \/ GrowLink(t) \/ GrowFail(t) \/ SuspendLast(t)
      BY <2>2 DEF Next
    <3> DEFINE Local == /\ UNCHANGED chain
                        /\ \A u \in Threads \ {t} :
                             pc'[u] = pc[u] /\ curtblock'[u] = curtblock[u] /\ rp'[u] = rp[u]
                        /\ curtblock'[t] = curtblock[t] /\ control' \in {control, t, Null}
                        /\ {pc[t], pc'[t]} \cap {"unborn", "exited", "grown"} = {}
                        /\ control' = t /\ pc'[t] \in {"scan", "scan_last"} =>
                             rp'[t] \in Public \cup {Null}
    <3>1. ASSUME Local  PROVE StepKept  BY <3>1, QuietStep
    <3> USE DEF Goto, Return, TypeOK, locals
    <3>2. ASSUME NEW n \in Wants, Reserve(t, n)  PROVE Local
      BY <1>2, <3>2, HeapAssumption DEF Reserve
    <3>3. CASE Suspend(t)
      <4>1. public_blockregion \in Public \cup {Null}  BY <1>2, PublicRegions
      <4>2. Local  BY <1>2, <3>3, <4>1 DEF Suspend
      <4> QED  BY <3>1, <4>2
    <3>4. CASE SuspendLast(t)
      <4>1. public_blockregion \in Public \cup {Null}  BY <1>2, PublicRegions
      <4>2. Local  BY <1>2, <3>4, <4>1 DEF SuspendLast
      <4> QED  BY <3>1, <4>2
    <3>5. ASSUME Succeed(t)  PROVE Local
      BY <1>2, <3>5, HeapAssumption DEF Succeed
    <3>6. ASSUME ScanEnd(t)  PROVE Local  BY <1>2, <3>6 DEF ScanEnd
    <3>7. ASSUME Resume(t)  PROVE Local
      BY <1>2, <3>7, HeapAssumption DEF Resume
    <3>8. ASSUME GrowFail(t)  PROVE Local
      BY <1>2, <3>8, HeapAssumption DEF GrowFail
    <3> HIDE DEF Local, Goto, Return, TypeOK, locals
    <3> QED
      BY <3>1, <3>2, <3>3, <3>4, <3>5, <3>6, <3>7, <3>8, InitThreadHeapStep,
         CleanThreadStep, FindGapStep, ScanRegionStep, GrowSwapStep, GrowLinkStep
  <2> QED  BY <2>1, <2>2
<1> QED  BY <1>1, <1>3 DEF IInv, StepKept

-----------------------------------------------------------------------------
(* The theorems *)

LEMMA Inductive == Spec => []IInv
<1>1. Init => IInv  BY InitInductive
<1>2. IInv /\ [Next]_vars => IInv'  BY StepInductive
<1> QED  BY <1>1, <1>2, PTL DEF Spec

\* However threads insert, remove and exchange regions, the public chain ends,
\* its links in both directions agree, and a region outside it has none.
THEOREM ChainCorrect == Spec => []ChainInv
<1>1. IInv => ChainInv  BY SoundOfChain DEF IInv, ChainInv
<1> QED  BY <1>1, Inductive, PTL

\* No two threads allocate from one region, and none from a public one.
THEOREM OneOwnerCorrect == Spec => []OneOwner
<1>1. IInv => OneOwner
  <2> SUFFICES ASSUME IInv, NEW t \in Threads, Owned(t) # Null
               PROVE  /\ Owned(t) \notin Public
                      /\ \A u \in Threads \ {t} : Owned(u) # Owned(t)
    BY DEF OneOwner
  <2>1. Claim(t) = Owned(t)  BY DEF Claim, Owned
  <2>2. \A u \in Threads : Owned(u) = Claim(u) \/ Owned(u) = Null  BY DEF Claim, Owned
  <2> QED  BY <2>1, <2>2 DEF IInv, OwnerInv, Exclusive
<1> QED  BY <1>1, Inductive, PTL

\* The chain and the private regions are a pool of regions: every step takes,
\* gives up, exchanges or adds one region, or is none of the pool's business.
THEOREM PoolImplemented == Spec => ImplementsPool
<1>1. Init => Pool!Init
  <2> SUFFICES ASSUME Init PROVE Pool!Init  OBVIOUS
  <2>1. ChainOf(0, [i \in 1..0 |-> Null])  BY DEF ChainOf, Init
  <2>2. Public = {[i \in 1..0 |-> Null][j] : j \in 1..0}  BY <2>1, PublicOfChain
  <2>3. OwnedMap \in [Threads -> Regions \cup {Null}]
    BY HeapAssumption DEF OwnedMap, Owned, Init
  <2> QED  BY <2>2, <2>3 DEF Pool!Init, OwnedMap
<1>2. IInv /\ [Next]_vars => [Pool!Next]_(Pool!vars)  BY StepInductive
<1> QED  BY <1>1, <1>2, Inductive, PTL DEF Spec, ImplementsPool, Pool!Spec
=============================================================================
