------------------------- MODULE RegionChainProofs -------------------------
(***************************************************************************)
(* Proof about RegionChain, for any set of threads and any finite set of   *)
(* regions: however many threads start at once, every region in use is     *)
(* found from every other in both chains, as long as none of them moves    *)
(* curblock while another links a region in (QuietSpec).  The run          *)
(* RegionChainReused shows that this may happen and loses a region, so it  *)
(* is the only way to lose one.                                            *)
(***************************************************************************)
EXTENDS RegionChain, FiniteSetTheorems, WellFoundedInduction, TLAPS

-----------------------------------------------------------------------------
(* Least numbers *)

\* A set of natural numbers with an element has a least one: the form in which
\* the proofs use induction, as the least counterexample.
LEMMA LeastNat ==
    ASSUME NEW T \in SUBSET Nat, T # {}
    PROVE  \E x \in T : \A y \in T : x <= y
<1>1. \E x \in T : \A y \in T : ~ (<<y, x>> \in OpToRel(<, Nat))
  BY WFMin, NatLessThanWellFounded
<1>2. PICK x \in T : \A y \in T : ~ (<<y, x>> \in OpToRel(<, Nat))  BY <1>1
<1>3. \A y \in T : ~(y < x)  BY <1>2 DEF OpToRel
<1> QED  BY <1>3

-----------------------------------------------------------------------------
\* The n regions of s, in this order, are linked by f and back by g.
Links(f, g, n, s) ==
    /\ n \in Nat \ {0}
    /\ s \in [1..n -> Regions]
    /\ \A i, j \in 1..n : s[i] = s[j] => i = j
    /\ \A i \in 1..n : f[s[i]] = IF i = n THEN Null ELSE s[i + 1]
    /\ \A i \in 1..n : g[s[i]] = IF i = 1 THEN Null ELSE s[i - 1]

\* The same chain from its other end.
Reverse(f, g, n, s, b) ==
    Links(g, f, n, b) /\ \A i \in 1..n : b[n + 1 - i] = s[i]

Whole(f, g, K) == \E n, s : Links(f, g, n, s) /\ K = {s[i] : i \in 1..n}

-----------------------------------------------------------------------------
(* Chains *)

\* A chain is one from its other end, too.
LEMMA Turned ==
    ASSUME NEW f, NEW g, NEW n, NEW s, Links(f, g, n, s)
    PROVE  \E b : Reverse(f, g, n, s, b)
<1>1. /\ n \in Nat \ {0}
      /\ s \in [1..n -> Regions]
      /\ \A i, j \in 1..n : s[i] = s[j] => i = j
      /\ \A i \in 1..n : f[s[i]] = IF i = n THEN Null ELSE s[i + 1]
      /\ \A i \in 1..n : g[s[i]] = IF i = 1 THEN Null ELSE s[i - 1]
  BY DEF Links
<1> DEFINE b == [i \in 1..n |-> s[n + 1 - i]]
<1>2. \A i \in 1..n : n + 1 - i \in 1..n /\ n + 1 - (n + 1 - i) = i  BY <1>1
<1>3. b \in [1..n -> Regions] /\ \A i \in 1..n : b[i] = s[n + 1 - i]  BY <1>1, <1>2
<1> HIDE DEF b
<1>4. ASSUME NEW i \in 1..n, NEW j \in 1..n, b[i] = b[j]  PROVE i = j
  <2>1. n + 1 - i = n + 1 - j  BY <1>1, <1>2, <1>3, <1>4
  <2> QED  BY <1>1, <2>1
<1>5. ASSUME NEW i \in 1..n
      PROVE  /\ g[b[i]] = IF i = n THEN Null ELSE b[i + 1]
             /\ f[b[i]] = IF i = 1 THEN Null ELSE b[i - 1]
  <2>1. n + 1 - i \in 1..n  BY <1>2
  <2>2. i # n => i + 1 \in 1..n /\ n + 1 - (i + 1) = (n + 1 - i) - 1 /\ n + 1 - i # 1
    BY <1>1
  <2>3. i # 1 => i - 1 \in 1..n /\ n + 1 - (i - 1) = (n + 1 - i) + 1 /\ n + 1 - i # n
    BY <1>1
  <2>4. i = n => n + 1 - i = 1  BY <1>1
  <2>5. i = 1 => n + 1 - i = n  BY <1>1
  <2>6. i # n => b[i + 1] = s[(n + 1 - i) - 1]  BY <1>3, <2>2
  <2>7. i # 1 => b[i - 1] = s[(n + 1 - i) + 1]  BY <1>3, <2>3
  <2> QED  BY <1>1, <1>3, <2>1, <2>2, <2>3, <2>4, <2>5, <2>6, <2>7
<1>6. Links(g, f, n, b)  BY <1>1, <1>3, <1>4, <1>5 DEF Links
<1>7. \A i \in 1..n : b[n + 1 - i] = s[i]  BY <1>2, <1>3
<1> QED  BY <1>6, <1>7 DEF Reverse

\* Linked one way is linked the other way.
LEMMA Backwards ==
    ASSUME NEW f, NEW g, NEW K, Whole(f, g, K)
    PROVE  Whole(g, f, K)
<1>1. PICK n, s : Links(f, g, n, s) /\ K = {s[i] : i \in 1..n}  BY DEF Whole
<1>2. PICK b : Links(g, f, n, b) /\ \A i \in 1..n : b[n + 1 - i] = s[i]
  BY <1>1, Turned DEF Reverse
<1>3. \A i \in 1..n : n + 1 - i \in 1..n /\ n + 1 - (n + 1 - i) = i  BY <1>1 DEF Links
<1>4. \A i \in 1..n : \E j \in 1..n : s[i] = b[j]  BY <1>2, <1>3
<1>5. \A i \in 1..n : \E j \in 1..n : b[i] = s[j]
  <2> TAKE i \in 1..n
  <2>1. b[n + 1 - (n + 1 - i)] = s[n + 1 - i]  BY <1>2, <1>3
  <2> QED  BY <1>3, <2>1
<1>6. K = {b[i] : i \in 1..n}  BY <1>1, <1>4, <1>5
<1> QED  BY ONLY <1>2, <1>6 DEF Whole

\* A region r is linked in behind x.
LEMMA InsertAfter ==
    ASSUME NEW f, NEW g, NEW f2, NEW g2, NEW K,
           Whole(f, g, K), NEW x \in K, NEW r \in Regions \ K,
           \A y \in K : f2[y] = IF y = x THEN r ELSE f[y],
           \A y \in K : g2[y] = IF y = f[x] THEN r ELSE g[y],
           f2[r] = f[x], g2[r] = x
    PROVE  Whole(f2, g2, K \cup {r})
<1>1. PICK n, s : Links(f, g, n, s) /\ K = {s[i] : i \in 1..n}  BY DEF Whole
<1>2. /\ n \in Nat \ {0}
      /\ s \in [1..n -> Regions]
      /\ \A i, j \in 1..n : s[i] = s[j] => i = j
      /\ \A i \in 1..n : f[s[i]] = IF i = n THEN Null ELSE s[i + 1]
      /\ \A i \in 1..n : g[s[i]] = IF i = 1 THEN Null ELSE s[i - 1]
      /\ Null \notin Regions
  BY <1>1, ChainAssumption DEF Links
<1>3. PICK k \in 1..n : s[k] = x  BY <1>1
<1> DEFINE m == n + 1
           q == [i \in 1..m |-> IF i <= k THEN s[i] ELSE IF i = k + 1 THEN r ELSE s[i - 1]]
<1>4. /\ m \in Nat \ {0} /\ m = n + 1 /\ k + 1 \in 1..m
      /\ \A i \in 1..n : s[i] \in K /\ s[i] \in Regions /\ s[i] # r
  BY <1>1, <1>2
<1>5. \A i \in 1..m : i <= k => i \in 1..n /\ q[i] = s[i]  BY <1>2
<1>6. q[k + 1] = r  BY <1>2, <1>4
<1>7. \A i \in 1..m : i > k + 1 => i - 1 \in 1..n /\ i - 1 > k /\ q[i] = s[i - 1]  BY <1>2
<1>8. \A i \in 1..m : i <= k \/ i = k + 1 \/ i > k + 1  BY <1>2
<1>9. q \in [1..m -> Regions]
  <2>1. \A i \in 1..m : q[i] \in Regions  BY <1>4, <1>5, <1>6, <1>7, <1>8
  <2>2. q = [i \in 1..m |-> q[i]]  OBVIOUS
  <2> HIDE DEF q
  <2> QED  BY <2>1, <2>2
<1> HIDE DEF q, m
<1>10. ASSUME NEW i \in 1..m, NEW j \in 1..m, q[i] = q[j]  PROVE i = j
  <2>1. i <= k \/ i = k + 1 \/ i > k + 1  BY <1>8
  <2>2. j <= k \/ j = k + 1 \/ j > k + 1  BY <1>8
  <2>3. i <= k /\ j <= k => i = j  BY <1>2, <1>5, <1>10
  <2>4. i <= k => j # k + 1  BY <1>4, <1>5, <1>6, <1>10
  <2>5. i <= k /\ j > k + 1 => FALSE
    <3> HAVE i <= k /\ j > k + 1
    <3>1. i \in 1..n /\ j - 1 \in 1..n /\ j - 1 > k /\ s[i] = s[j - 1]  BY <1>5, <1>7, <1>10
    <3>2. i = j - 1  BY <1>2, <3>1
    <3> QED  BY <1>2, <3>1, <3>2
  <2>6. j <= k => i # k + 1  BY <1>4, <1>5, <1>6, <1>10
  <2>7. j <= k /\ i > k + 1 => FALSE
    <3> HAVE j <= k /\ i > k + 1
    <3>1. j \in 1..n /\ i - 1 \in 1..n /\ i - 1 > k /\ s[j] = s[i - 1]  BY <1>5, <1>7, <1>10
    <3>2. j = i - 1  BY <1>2, <3>1
    <3> QED  BY <1>2, <3>1, <3>2
  <2>8. i = k + 1 => ~(j > k + 1)  BY <1>4, <1>6, <1>7, <1>10
  <2>9. j = k + 1 => ~(i > k + 1)  BY <1>4, <1>6, <1>7, <1>10
  <2>10. i > k + 1 /\ j > k + 1 => i = j
    <3> HAVE i > k + 1 /\ j > k + 1
    <3>1. i - 1 \in 1..n /\ j - 1 \in 1..n /\ s[i - 1] = s[j - 1]  BY <1>7, <1>10
    <3>2. i - 1 = j - 1  BY <1>2, <3>1
    <3> QED  BY <1>4, <3>2
  <2> QED  BY <2>1, <2>2, <2>3, <2>4, <2>5, <2>6, <2>7, <2>8, <2>9, <2>10
<1>11. f[x] = IF k = n THEN Null ELSE s[k + 1]  BY <1>2, <1>3
<1>12. ASSUME NEW i \in 1..m  PROVE f2[q[i]] = IF i = m THEN Null ELSE q[i + 1]
  <2>1. CASE i < k
    <3>1. i \in 1..n /\ i + 1 \in 1..m /\ i + 1 <= k /\ i # n /\ i # m /\ i <= k /\ i # k
      BY <1>2, <1>4, <2>1
    <3>2. q[i] = s[i] /\ q[i + 1] = s[i + 1]  BY <1>5, <3>1
    <3>3. s[i] # x /\ s[i] \in K  BY <1>2, <1>3, <1>4, <3>1
    <3> QED  BY <1>2, <3>1, <3>2, <3>3
  <2>2. CASE i = k
    <3>1. q[i] = x /\ i # m /\ i \in 1..m /\ i <= k  BY <1>2, <1>3, <1>4, <1>5, <2>2
    <3> QED  BY <1>6, <2>2, <3>1
  <2>3. CASE i = k + 1
    <3>1. CASE k = n  BY <1>4, <1>6, <1>11, <2>3, <3>1
    <3>2. CASE k # n
      <4>1. k + 2 \in 1..m /\ k + 2 > k + 1 /\ (k + 2) - 1 = k + 1 /\ i # m /\ i + 1 = k + 2
        BY <1>2, <1>4, <2>3, <3>2
      <4>2. q[k + 2] = s[k + 1]  BY <1>7, <4>1
      <4> QED  BY <1>6, <1>11, <2>3, <3>2, <4>1, <4>2
    <3> QED  BY <3>1, <3>2
  <2>4. CASE i > k + 1
    <3>1. /\ i - 1 \in 1..n /\ i - 1 > k /\ q[i] = s[i - 1] /\ (i - 1) + 1 = i
          /\ i = m <=> i - 1 = n
      BY <1>2, <1>4, <1>7, <2>4
    <3>2. s[i - 1] # x /\ s[i - 1] \in K
      <4>1. i - 1 # k  BY <1>2, <3>1
      <4> QED  BY <1>2, <1>3, <1>4, <3>1, <4>1
    <3>3. f2[q[i]] = IF i = m THEN Null ELSE s[i]  BY <1>2, <3>1, <3>2
    <3>4. i # m => i + 1 \in 1..m /\ i + 1 > k + 1 /\ (i + 1) - 1 = i  BY <1>4, <2>4
    <3>5. i # m => q[i + 1] = s[i]  BY <1>7, <3>4
    <3> QED  BY <3>3, <3>5
  <2> QED  BY <1>4, <2>1, <2>2, <2>3, <2>4
<1>13. ASSUME NEW i \in 1..m  PROVE g2[q[i]] = IF i = 1 THEN Null ELSE q[i - 1]
  <2>1. CASE i <= k
    <3>1. i \in 1..n /\ q[i] = s[i] /\ s[i] \in K  BY <1>4, <1>5, <2>1
    <3>2. s[i] # f[x]
      <4>1. k # n => k + 1 \in 1..n /\ i # k + 1  BY <1>2, <2>1
      <4>2. k # n => s[i] # s[k + 1]  BY <1>2, <3>1, <4>1
      <4>3. s[i] # Null  BY <1>2, <3>1
      <4> QED  BY <1>11, <4>2, <4>3
    <3>3. g2[q[i]] = IF i = 1 THEN Null ELSE s[i - 1]  BY <1>2, <3>1, <3>2
    <3>4. i # 1 => i - 1 \in 1..m /\ i - 1 <= k  BY <1>4, <2>1
    <3> QED  BY <1>5, <3>3, <3>4
  <2>2. CASE i = k + 1
    <3>1. i # 1 /\ i - 1 = k /\ k \in 1..m /\ k <= k  BY <1>2, <1>4, <2>2
    <3> QED  BY <1>3, <1>5, <1>6, <2>2, <3>1
  <2>3. CASE i = k + 2
    <3>1. i > k + 1 /\ i - 1 = k + 1 /\ k # n /\ i # 1  BY <1>2, <1>4, <2>3
    <3>2. q[i] = s[k + 1] /\ k + 1 \in 1..n  BY <1>7, <3>1
    <3> QED  BY <1>4, <1>6, <1>11, <3>1, <3>2
  <2>4. CASE i > k + 2
    <3>1. i - 1 \in 1..n /\ i - 1 > k + 1 /\ q[i] = s[i - 1] /\ i - 1 # 1 /\ i # 1
      BY <1>2, <1>7, <2>4
    <3>2. s[i - 1] \in K /\ s[i - 1] # f[x]
      <4>1. k # n => k + 1 \in 1..n /\ i - 1 # k + 1  BY <1>2, <3>1
      <4> QED  BY <1>2, <1>4, <1>11, <3>1, <4>1
    <3>3. g2[q[i]] = s[(i - 1) - 1]  BY <1>2, <3>1, <3>2
    <3>4. i - 1 \in 1..m /\ q[i - 1] = s[(i - 1) - 1]  BY <1>4, <1>7, <3>1
    <3> QED  BY <3>1, <3>3, <3>4
  <2> QED  BY <1>4, <2>1, <2>2, <2>3, <2>4
<1>14. Links(f2, g2, m, q)  BY <1>4, <1>9, <1>10, <1>12, <1>13 DEF Links
<1>15. K \cup {r} = {q[i] : i \in 1..m}
  <2>1. \A i \in 1..m : q[i] \in K \cup {r}  BY <1>4, <1>5, <1>6, <1>7, <1>8
  <2>2. ASSUME NEW i \in 1..n  PROVE \E j \in 1..m : q[j] = s[i]
    <3>1. CASE i <= k
      <4>1. i \in 1..m  BY <1>2, <1>4
      <4> QED  BY <1>5, <3>1, <4>1
    <3>2. CASE i > k
      <4>1. i + 1 \in 1..m /\ i + 1 > k + 1 /\ (i + 1) - 1 = i  BY <1>2, <1>4, <3>2
      <4> QED  BY <1>7, <4>1
    <3> QED  BY <3>1, <3>2
  <2> QED  BY <1>1, <1>4, <1>6, <2>1, <2>2
<1> QED  BY ONLY <1>14, <1>15 DEF Whole

\* Only the links of the regions in the chain matter.
LEMMA SameLinks ==
    ASSUME NEW f, NEW g, NEW f2, NEW g2, NEW K, Whole(f, g, K),
           \A y \in K : f2[y] = f[y] /\ g2[y] = g[y]
    PROVE  Whole(f2, g2, K)
<1>1. PICK n, s : Links(f, g, n, s) /\ K = {s[i] : i \in 1..n}  BY DEF Whole
<1>2. \A i \in 1..n : s[i] \in K  BY <1>1
<1>3. Links(f2, g2, n, s)  BY <1>1, <1>2 DEF Links
<1> QED  BY ONLY <1>1, <1>3 DEF Whole

\* The links of a chain stay in it.
LEMMA LinksInside ==
    ASSUME NEW f, NEW g, NEW K, Whole(f, g, K)
    PROVE  K \subseteq Regions /\ \A x \in K : f[x] \in K \cup {Null}
<1>1. PICK n, s : Links(f, g, n, s) /\ K = {s[i] : i \in 1..n}  BY DEF Whole
<1>2. /\ n \in Nat \ {0}
      /\ s \in [1..n -> Regions]
      /\ \A i \in 1..n : f[s[i]] = IF i = n THEN Null ELSE s[i + 1]
  BY <1>1 DEF Links
<1>3. ASSUME NEW i \in 1..n  PROVE f[s[i]] \in K \cup {Null}
  <2>1. i # n => i + 1 \in 1..n  BY <1>2
  <2> QED  BY <1>1, <1>2, <2>1
<1> QED  BY <1>1, <1>2, <1>3

\* What is reached from a region along the links: itself and what follows it.
LEMMA AlongLinks ==
    ASSUME NEW f, NEW g, NEW n, NEW s, Links(f, g, n, s), NEW k \in 1..n
    PROVE  Along(f, s[k]) = {s[i] : i \in k..n}
<1>1. /\ n \in Nat \ {0}
      /\ s \in [1..n -> Regions]
      /\ \A i, j \in 1..n : s[i] = s[j] => i = j
      /\ \A i \in 1..n : f[s[i]] = IF i = n THEN Null ELSE s[i + 1]
      /\ Null \notin Regions /\ IsFiniteSet(Regions)
  BY ChainAssumption DEF Links
<1> DEFINE N == Cardinality(Regions)
           W == [i \in 0..N |-> IF k + i <= n THEN s[k + i] ELSE Null]
           Walks(w) == w = [i \in 0..N |-> IF i = 0 THEN s[k]
                                           ELSE IF w[i - 1] = Null THEN Null ELSE f[w[i - 1]]]
           w0 == CHOOSE w : Walks(w)
<1>2. N \in Nat /\ n <= N
  <2>1. N \in Nat  BY <1>1, FS_CardinalityType
  <2>2. IsFiniteSet(1..n) /\ Cardinality(1..n) = n  BY <1>1, FS_Interval
  <2>3. s \in Injection(1..n, Regions)  BY <1>1 DEF Injection, IsInjective
  <2>4. n <= N  BY <1>1, <2>2, <2>3, FS_Injection DEF ExistsInjection
  <2> QED  BY <2>1, <2>4
<1> HIDE DEF N
<1>3. ASSUME NEW w, Walks(w)  PROVE w = W
  <2> DEFINE Bad == {i \in 0..N : w[i] # W[i]}
  <2>1. ASSUME Bad # {}  PROVE FALSE
    <3>1. PICK i \in Bad : \A j \in Bad : i <= j
      <4>1. Bad \in SUBSET Nat  BY <1>2
      <4> HIDE DEF Bad
      <4> QED  BY <2>1, <4>1, LeastNat
    <3>2. i \in 0..N /\ w[i] # W[i]  OBVIOUS
    <3>3. CASE i = 0  BY <1>1, <1>2, <1>3, <3>2, <3>3
    <3>4. CASE i # 0
      <4>1. i - 1 \in 0..N /\ i - 1 < i  BY <1>2, <3>2, <3>4
      <4>2. w[i - 1] = W[i - 1]  BY <3>1, <4>1
      <4>3. w[i] = IF W[i - 1] = Null THEN Null ELSE f[W[i - 1]]
        BY <1>3, <3>2, <3>4, <4>2
      <4>4. CASE k + i <= n
        <5>1. /\ k + (i - 1) \in 1..n /\ k + (i - 1) # n /\ (k + (i - 1)) + 1 = k + i
              /\ k + (i - 1) <= n
          BY <1>1, <3>2, <3>4, <4>4
        <5>2. W[i - 1] = s[k + (i - 1)] /\ s[k + (i - 1)] # Null  BY <1>1, <4>1, <5>1
        <5>3. w[i] = s[k + i]  BY <1>1, <4>3, <5>1, <5>2
        <5> QED  BY <3>2, <4>4, <5>3
      <4>5. CASE k + (i - 1) = n
        <5>1. n \in 1..n /\ s[n] # Null /\ ~(k + i <= n) /\ k + (i - 1) <= n
          BY <1>1, <3>2, <4>5
        <5>2. W[i - 1] = s[n]  BY <4>1, <4>5, <5>1
        <5> QED  BY <1>1, <3>2, <4>3, <5>1, <5>2
      <4>6. CASE k + (i - 1) > n
        <5>1. ~(k + (i - 1) <= n) /\ ~(k + i <= n)  BY <1>1, <3>2, <4>6
        <5> QED  BY <3>2, <4>1, <4>3, <5>1
      <4> QED  BY <1>1, <3>2, <4>4, <4>5, <4>6
    <3> QED  BY <3>3, <3>4
  <2>2. w = [i \in 0..N |-> w[i]]  BY <1>3
  <2> QED  BY <2>1, <2>2
<1>4. Walks(W)
  <2>1. ASSUME NEW i \in 0..N
        PROVE  W[i] = IF i = 0 THEN s[k]
                      ELSE IF W[i - 1] = Null THEN Null ELSE f[W[i - 1]]
    <3>1. CASE i = 0  BY <1>1, <3>1
    <3>2. CASE i # 0
      <4>1. i - 1 \in 0..N  BY <1>2, <3>2
      <4>2. CASE k + i <= n
        <5>1. /\ k + (i - 1) \in 1..n /\ k + (i - 1) # n /\ (k + (i - 1)) + 1 = k + i
              /\ k + (i - 1) <= n
          BY <1>1, <3>2, <4>2
        <5>2. W[i - 1] = s[k + (i - 1)] /\ s[k + (i - 1)] # Null  BY <1>1, <4>1, <5>1
        <5> QED  BY <1>1, <3>2, <4>2, <5>1, <5>2
      <4>3. CASE k + (i - 1) = n
        <5>1. n \in 1..n /\ s[n] # Null /\ ~(k + i <= n) /\ k + (i - 1) <= n
          BY <1>1, <4>3
        <5>2. W[i - 1] = s[n]  BY <4>1, <4>3, <5>1
        <5> QED  BY <1>1, <3>2, <5>1, <5>2
      <4>4. CASE k + (i - 1) > n
        <5>1. ~(k + (i - 1) <= n) /\ ~(k + i <= n)  BY <1>1, <4>4
        <5> QED  BY <3>2, <4>1, <5>1
      <4> QED  BY <1>1, <4>2, <4>3, <4>4
    <3> QED  BY <3>1, <3>2
  <2> QED  BY <2>1
<1>5. w0 = W  BY <1>3, <1>4
<1> HIDE DEF W
<1>6. Along(f, s[k]) = {w0[i] : i \in DOMAIN w0} \ {Null}  BY DEF Along, N
<1>7. Along(f, s[k]) = {W[i] : i \in 0..N} \ {Null}
  <2>1. DOMAIN W = 0..N  BY DEF W
  <2> HIDE DEF w0
  <2> QED  BY <1>5, <1>6, <2>1
<1>8. ASSUME NEW i \in 0..N, W[i] # Null  PROVE \E j \in k..n : W[i] = s[j]
  <2>1. k + i <= n /\ W[i] = s[k + i]  BY <1>8 DEF W
  <2>2. k + i \in k..n  BY <1>1, <2>1
  <2> QED  BY <2>1, <2>2
<1>9. ASSUME NEW j \in k..n  PROVE s[j] # Null /\ \E i \in 0..N : W[i] = s[j]
  <2>1. j - k \in 0..N /\ k + (j - k) = j /\ j <= n /\ j \in 1..n  BY <1>1, <1>2
  <2>2. W[j - k] = s[j]  BY <2>1 DEF W
  <2> QED  BY <1>1, <2>1, <2>2
<1> QED  BY <1>7, <1>8, <1>9

-----------------------------------------------------------------------------
(* The inductive invariant *)

\* A thread owns MTX_BLKHEAP and links rp in.
Linking == mtx # Null

\* A region belongs to a thread that runs; who links is the owner of the mutex.
Owners ==
    /\ pc[Main] = "run"
    /\ \A t \in Threads : curtblock[t] # Null <=> pc[t] = "run"
    /\ \A t \in Threads : pc[t] \in LinkLabels <=> mtx = t
    /\ Linking => rp \in Regions \ Known
    /\ ~Linking => rp = Null
    /\ curblock \in Known

\* The links of rp in the chain it is being linked into, and the chain itself.
HalfLinked ==
    Linking =>
      LET f == nxt[link]
          g == prv[link]
      IN  /\ pc[mtx] \in {"next", "back", "fwd"} => g[rp] = curblock
          /\ pc[mtx] \in {"back", "fwd"} => f[rp] = f[curblock]
          /\ pc[mtx] # "fwd" => Whole(f, g, Known)
          /\ pc[mtx] = "fwd" =>
               \E g0 : /\ Whole(f, g0, Known)
                       /\ \A y \in Known : g[y] = IF y = f[curblock] THEN rp ELSE g0[y]

\* The chains in which nothing is being linked.
OthersWhole ==
    \A c \in Chains :
      (Linking => c # link) =>
        Whole(nxt[c], prv[c], IF Linking /\ c = "program" THEN Known \cup {rp} ELSE Known)

IInv == TypeOK /\ Owners /\ HalfLinked /\ OthersWhole

\* Steps that link nothing leave the chains alone.
LEMMA ChainsStay ==
    ASSUME IInv, Known' = Known, UNCHANGED <<nxt, prv, mtx, rp, link>>,
           Linking => curblock' = curblock /\ pc'[mtx] = pc[mtx]
    PROVE  HalfLinked' /\ OthersWhole'
<1>1. HalfLinked'
  <2>1. CASE Linking  BY <2>1 DEF IInv, HalfLinked, Linking
  <2>2. CASE ~Linking  BY <2>2 DEF HalfLinked, Linking
  <2> QED  BY <2>1, <2>2
<1>2. OthersWhole'  BY DEF IInv, OthersWhole, Linking
<1> QED  BY <1>1, <1>2

\* A thread that starts in a public region sets curblock; if somebody links a
\* region in now, curblock is that region already.
LEMMA ReuseStep ==
    ASSUME IInv, CurblockStill, NEW t \in Threads, NEW r \in Regions, Reuse(t, r)
    PROVE  IInv'
<1> USE ChainAssumption
<1>1. /\ pc[t] = "unborn" /\ pc' = [pc EXCEPT ![t] = "run"]
      /\ r \in public /\ public' = public \ {r}
      /\ curtblock' = [curtblock EXCEPT ![t] = r] /\ curblock' = r
      /\ UNCHANGED <<nxt, prv, mtx, rp, link>>
  BY DEF Reuse, Goto
<1>2. TypeOK /\ Owners  BY DEF IInv
<1>3. t # Main /\ curtblock[t] = Null /\ mtx # t  BY <1>1, <1>2 DEF Owners, LinkLabels
<1>4. Linking => curblock' = curblock /\ pc'[mtx] = pc[mtx]
  BY <1>1, <1>2, <1>3 DEF CurblockStill, Linking, TypeOK
<1>5. TypeOK'  BY <1>1, <1>2 DEF TypeOK, Labels
<1>6. Known' = Known  BY <1>1, <1>2, <1>3 DEF Known, TypeOK
<1>7. Owners'
  <2>1. pc'[Main] = "run"  BY <1>1, <1>2, <1>3 DEF Owners, TypeOK
  <2>2. \A u \in Threads : curtblock'[u] # Null <=> pc'[u] = "run"
    BY <1>1, <1>2 DEF Owners, TypeOK
  <2>3. \A u \in Threads : pc'[u] \in LinkLabels <=> mtx' = u
    BY <1>1, <1>2, <1>3 DEF Owners, TypeOK, LinkLabels
  <2>4. curblock' \in Known'  BY <1>1, <1>6 DEF Known
  <2> QED  BY <1>1, <1>2, <1>6, <2>1, <2>2, <2>3, <2>4 DEF Owners, Linking
<1>8. HalfLinked' /\ OthersWhole'  BY <1>1, <1>4, <1>6, ChainsStay
<1> QED  BY <1>5, <1>7, <1>8 DEF IInv

\* The new region is in no chain yet.
LEMMA NewRegionStep ==
    ASSUME IInv, NEW t \in Threads, NEW r \in Regions, NewRegion(t, r)
    PROVE  IInv'
<1> USE ChainAssumption
<1>1. /\ pc[t] = "unborn" /\ pc' = [pc EXCEPT ![t] = "prev"]
      /\ mtx = Null /\ mtx' = t /\ r \in Fresh /\ rp' = r /\ link' = "program"
      /\ UNCHANGED <<curblock, nxt, prv, public, curtblock>>
  BY DEF NewRegion, Goto
<1>2. TypeOK /\ Owners  BY DEF IInv
<1>3. t # Main /\ curtblock[t] = Null  BY <1>1, <1>2 DEF Owners
<1>4. TypeOK'  BY <1>1, <1>2 DEF TypeOK, Labels, LinkLabels, Chains
<1>5. Known' = Known  BY <1>1 DEF Known
<1>6. Owners'
  <2>1. pc'[Main] = "run"  BY <1>1, <1>2, <1>3 DEF Owners, TypeOK
  <2>2. \A u \in Threads : curtblock'[u] # Null <=> pc'[u] = "run"
    BY <1>1, <1>2, <1>3 DEF Owners, TypeOK
  <2>3. \A u \in Threads : pc'[u] \in LinkLabels <=> mtx' = u
    BY <1>1, <1>2 DEF Owners, TypeOK, LinkLabels
  <2>4. rp' \in Regions \ Known'  BY <1>1, <1>5 DEF Fresh
  <2> QED  BY <1>1, <1>2, <1>5, <2>1, <2>2, <2>3, <2>4 DEF Owners, Linking
<1>7. \A c \in Chains : Whole(nxt[c], prv[c], Known)
  BY <1>1 DEF IInv, OthersWhole, Linking
<1>8. pc'[t] = "prev" /\ t # Null  BY <1>1, <1>2 DEF TypeOK
<1>9. HalfLinked'
  <2>1. link' \in Chains  BY <1>1 DEF Chains
  <2> QED  BY <1>1, <1>5, <1>7, <1>8, <2>1 DEF HalfLinked
<1>10. OthersWhole'  BY <1>1, <1>5, <1>7 DEF OthersWhole, Linking
<1> QED  BY <1>4, <1>6, <1>9, <1>10 DEF IInv

\* What the three steps that prepare a link have in common.
LEMMA Prepares ==
    ASSUME IInv, NEW t \in Threads, NEW from \in LinkLabels, NEW to \in LinkLabels,
           Goto(t, from, to), UNCHANGED <<curblock, public, curtblock, mtx, rp, link>>
    PROVE  /\ TypeOK /\ Owners /\ Owners' /\ Linking /\ mtx = t /\ Known' = Known
           /\ pc'[t] = to /\ pc' \in [Threads -> Labels]
           /\ rp \in Regions \ Known /\ curblock \in Known /\ link \in Chains
<1> USE ChainAssumption
<1>1. pc[t] = from /\ pc' = [pc EXCEPT ![t] = to]  BY DEF Goto
<1>2. TypeOK /\ Owners  BY DEF IInv
<1>3. mtx = t /\ Linking  BY <1>1, <1>2 DEF Owners, Linking
<1>4. Known' = Known  BY DEF Known
<1>5. to # "run" /\ from # "run" /\ to \in Labels  BY DEF LinkLabels, Labels
<1>6. pc' \in [Threads -> Labels] /\ pc'[t] = to  BY <1>1, <1>2, <1>5 DEF TypeOK
<1>7. Owners'
  <2>1. \A u \in Threads : pc'[u] \in LinkLabels <=> mtx' = u
    BY <1>1, <1>2, <1>3 DEF Owners, TypeOK
  <2>2. pc'[Main] = "run" /\ \A u \in Threads : curtblock'[u] # Null <=> pc'[u] = "run"
    BY <1>1, <1>2, <1>5 DEF Owners, TypeOK
  <2> QED  BY <1>2, <1>4, <2>1, <2>2 DEF Owners, Linking
<1> QED  BY <1>2, <1>3, <1>4, <1>6, <1>7 DEF Owners, TypeOK

\* Links of rp, which no chain holds yet, and the chain that is not linked into.
LEMMA OthersStay ==
    ASSUME IInv, NEW t \in Threads, mtx = t, UNCHANGED <<mtx, rp, link>>, Known' = Known,
           \A c \in Chains : c # link => nxt'[c] = nxt[c] /\ prv'[c] = prv[c]
    PROVE  OthersWhole'
BY ChainAssumption DEF IInv, OthersWhole, Linking

\* The links of rp may change: no chain holds it.
LEMMA LinkPrevStep ==
    ASSUME IInv, NEW t \in Threads, LinkPrev(t)
    PROVE  IInv'
<1>1. /\ Goto(t, "prev", "next") /\ prv' = [prv EXCEPT ![link][rp] = curblock]
      /\ UNCHANGED <<curblock, nxt, public, curtblock, mtx, rp, link>>
  BY DEF LinkPrev
<1>2. /\ TypeOK /\ Owners /\ Owners' /\ Linking /\ mtx = t /\ Known' = Known
      /\ pc'[t] = "next" /\ pc' \in [Threads -> Labels]
      /\ rp \in Regions \ Known /\ curblock \in Known /\ link \in Chains
  BY <1>1, Prepares DEF LinkLabels
<1>3. TypeOK'  BY <1>1, <1>2 DEF TypeOK
<1>4. /\ \A y \in Regions : prv'[link][y] = IF y = rp THEN curblock ELSE prv[link][y]
      /\ \A c \in Chains : c # link => prv'[c] = prv[c]
  BY <1>1, <1>2 DEF TypeOK
<1>5. Whole(nxt[link], prv[link], Known)
  BY <1>1, <1>2 DEF IInv, HalfLinked, Goto
<1>6. Known \subseteq Regions  BY <1>5, LinksInside
<1>7. Whole(nxt'[link], prv'[link], Known)
  <2>1. \A y \in Known : nxt'[link][y] = nxt[link][y] /\ prv'[link][y] = prv[link][y]
    BY <1>1, <1>2, <1>4, <1>6
  <2> QED  BY <1>5, <2>1, SameLinks
<1>8. HalfLinked'  BY <1>1, <1>2, <1>4, <1>7 DEF HalfLinked
<1>9. OthersWhole'  BY <1>1, <1>2, <1>4, OthersStay
<1> QED  BY <1>2, <1>3, <1>8, <1>9 DEF IInv

\* The same of its other link.
LEMMA LinkNextStep ==
    ASSUME IInv, NEW t \in Threads, LinkNext(t)
    PROVE  IInv'
<1>1. /\ Goto(t, "next", "back") /\ nxt' = [nxt EXCEPT ![link][rp] = nxt[link][curblock]]
      /\ UNCHANGED <<curblock, prv, public, curtblock, mtx, rp, link>>
  BY DEF LinkNext
<1>2. /\ TypeOK /\ Owners /\ Owners' /\ Linking /\ mtx = t /\ Known' = Known
      /\ pc'[t] = "back" /\ pc' \in [Threads -> Labels]
      /\ rp \in Regions \ Known /\ curblock \in Known /\ link \in Chains
  BY <1>1, Prepares DEF LinkLabels
<1>3. TypeOK'  BY <1>1, <1>2 DEF TypeOK
<1>4. /\ \A y \in Regions : nxt'[link][y] = IF y = rp THEN nxt[link][curblock] ELSE nxt[link][y]
      /\ \A c \in Chains : c # link => nxt'[c] = nxt[c]
  BY <1>1, <1>2 DEF TypeOK
<1>5. Whole(nxt[link], prv[link], Known) /\ prv[link][rp] = curblock
  BY <1>1, <1>2 DEF IInv, HalfLinked, Goto
<1>6. Known \subseteq Regions  BY <1>5, LinksInside
<1>7. Whole(nxt'[link], prv'[link], Known)
  <2>1. \A y \in Known : nxt'[link][y] = nxt[link][y] /\ prv'[link][y] = prv[link][y]
    BY <1>1, <1>2, <1>4, <1>6
  <2> QED  BY <1>5, <2>1, SameLinks
<1>8. nxt'[link][rp] = nxt'[link][curblock]  BY <1>2, <1>4, <1>6
<1>9. HalfLinked'  BY <1>1, <1>2, <1>5, <1>7, <1>8 DEF HalfLinked
<1>10. OthersWhole'  BY <1>1, <1>2, <1>4, OthersStay
<1> QED  BY <1>2, <1>3, <1>9, <1>10 DEF IInv

\* The region behind curblock points back to rp before rp is in the chain.
LEMMA LinkBackStep ==
    ASSUME IInv, NEW t \in Threads, LinkBack(t)
    PROVE  IInv'
<1> DEFINE z == nxt[link][curblock]
<1>1. /\ Goto(t, "back", "fwd")
      /\ prv' = IF z = Null THEN prv ELSE [prv EXCEPT ![link][z] = rp]
      /\ UNCHANGED <<curblock, nxt, public, curtblock, mtx, rp, link>>
  BY DEF LinkBack
<1>2. /\ TypeOK /\ Owners /\ Owners' /\ Linking /\ mtx = t /\ Known' = Known
      /\ pc'[t] = "fwd" /\ pc' \in [Threads -> Labels]
      /\ rp \in Regions \ Known /\ curblock \in Known /\ link \in Chains
  BY <1>1, Prepares DEF LinkLabels
<1>3. Whole(nxt[link], prv[link], Known) /\ prv[link][rp] = curblock /\ nxt[link][rp] = z
  BY <1>1, <1>2 DEF IInv, HalfLinked, Goto
<1>4. Known \subseteq Regions /\ z \in Known \cup {Null}  BY <1>2, <1>3, LinksInside
<1>5. Null \notin Known  BY <1>4, ChainAssumption
<1> HIDE DEF z
<1>6. TypeOK'  BY <1>1, <1>2, <1>4 DEF TypeOK
<1>7. /\ \A y \in Regions : prv'[link][y] = IF y = z THEN rp ELSE prv[link][y]
      /\ \A c \in Chains : c # link => prv'[c] = prv[c]
  <2>1. CASE z = Null  BY <1>1, <2>1, ChainAssumption
  <2>2. CASE z # Null  BY <1>1, <1>2, <1>4, <2>2 DEF TypeOK
  <2> QED  BY <2>1, <2>2
<1>8. prv'[link][rp] = curblock  BY <1>2, <1>3, <1>4, <1>7, ChainAssumption
<1>9. \A y \in Known : prv'[link][y] = IF y = nxt'[link][curblock] THEN rp ELSE prv[link][y]
  BY <1>1, <1>4, <1>7 DEF z
<1>10. HalfLinked'
  <2>1. Whole(nxt'[link], prv[link], Known)  BY <1>1, <1>3
  <2>2. nxt'[link][rp] = nxt'[link][curblock]  BY <1>1, <1>3 DEF z
  <2> QED  BY <1>1, <1>2, <1>8, <1>9, <2>1, <2>2 DEF HalfLinked
<1>11. OthersWhole'  BY <1>1, <1>2, <1>7, OthersStay
<1> QED  BY <1>2, <1>6, <1>10, <1>11 DEF IInv

\* The last of the four assignments puts rp into the chain.
LEMMA ChainLinked ==
    ASSUME IInv, NEW t \in Threads, pc[t] = "fwd",
           nxt' = [nxt EXCEPT ![link][curblock] = rp], UNCHANGED prv
    PROVE  /\ Linking /\ mtx = t /\ rp \in Regions \ Known
           /\ Whole(nxt'[link], prv'[link], Known \cup {rp})
           /\ \A c \in Chains : c # link => nxt'[c] = nxt[c]
<1>1. TypeOK /\ Owners /\ HalfLinked  BY DEF IInv
<1>2. /\ Linking /\ mtx = t /\ rp \in Regions \ Known /\ curblock \in Known
      /\ link \in Chains
  BY <1>1, ChainAssumption DEF Owners, TypeOK, Linking, LinkLabels
<1> DEFINE f == nxt[link]
           g == prv[link]
<1>3. g[rp] = curblock /\ f[rp] = f[curblock]  BY <1>1, <1>2 DEF HalfLinked
<1>4. PICK g0 : /\ Whole(f, g0, Known)
                /\ \A y \in Known : g[y] = IF y = f[curblock] THEN rp ELSE g0[y]
  BY <1>1, <1>2 DEF HalfLinked
<1>5. Known \subseteq Regions  BY <1>4, LinksInside
<1>6. /\ \A y \in Regions : nxt'[link][y] = IF y = curblock THEN rp ELSE f[y]
      /\ \A c \in Chains : c # link => nxt'[c] = nxt[c]
  BY <1>1, <1>2, <1>5 DEF TypeOK
<1>7. nxt'[link][rp] = f[curblock]  BY <1>2, <1>3, <1>6
<1>8. \A y \in Known : nxt'[link][y] = IF y = curblock THEN rp ELSE f[y]  BY <1>5, <1>6
<1> DEFINE h == nxt'[link]
           K == Known
           r == rp
           x == curblock
<1>9. Whole(h, g, K \cup {r})
  <2>1. /\ Whole(f, g0, K) /\ x \in K /\ r \in Regions \ K
        /\ \A y \in K : h[y] = IF y = x THEN r ELSE f[y]
        /\ \A y \in K : g[y] = IF y = f[x] THEN r ELSE g0[y]
        /\ h[r] = f[x] /\ g[r] = x
    BY <1>2, <1>3, <1>4, <1>7, <1>8
  <2> HIDE DEF f, g, h, K, r, x
  <2> QED  BY <2>1, InsertAfter
<1>10. g = prv'[link]  BY DEF g
<1> QED  BY <1>2, <1>6, <1>9, <1>10

\* rp is in one chain more; after the second one it is the thread's.
LEMMA LinkFwdStep ==
    ASSUME IInv, NEW t \in Threads, LinkFwd(t)
    PROVE  IInv'
<1> USE ChainAssumption
<1>1. pc[t] = "fwd" /\ nxt' = [nxt EXCEPT ![link][curblock] = rp]
      /\ UNCHANGED <<curblock, prv, public>>
  BY DEF LinkFwd, Goto
<1>2. /\ Linking /\ mtx = t /\ rp \in Regions \ Known
      /\ Whole(nxt'[link], prv'[link], Known \cup {rp})
      /\ \A c \in Chains : c # link => nxt'[c] = nxt[c]
  BY <1>1, ChainLinked
<1>3. TypeOK /\ Owners /\ OthersWhole  BY DEF IInv
<1>4. nxt' \in [Chains -> [Regions -> Regions \cup {Null}]]  BY <1>1, <1>2, <1>3 DEF TypeOK
<1>5. CASE link = "program"
  <2>1. /\ pc' = [pc EXCEPT ![t] = "prev"] /\ link' = "global"
        /\ UNCHANGED <<curtblock, mtx, rp>>
    BY <1>5 DEF LinkFwd, Goto
  <2>2. pc' \in [Threads -> Labels] /\ pc'[t] = "prev"
    BY <1>3, <2>1 DEF TypeOK, Labels, LinkLabels
  <2>3. TypeOK'  BY <1>1, <1>3, <1>4, <2>1, <2>2 DEF TypeOK, Chains
  <2>4. Known' = Known  BY <1>1, <2>1 DEF Known
  <2>5. Owners'
    <3>1. \A u \in Threads : pc'[u] \in LinkLabels <=> mtx' = u
      BY <1>2, <1>3, <2>1 DEF Owners, TypeOK, LinkLabels
    <3>2. pc'[Main] = "run" /\ \A u \in Threads : curtblock'[u] # Null <=> pc'[u] = "run"
      BY <1>1, <1>3, <2>1 DEF Owners, TypeOK
    <3> QED  BY <1>1, <1>2, <1>3, <2>1, <2>4, <3>1, <3>2 DEF Owners, Linking
  <2>6. Whole(nxt'["global"], prv'["global"], Known)
    BY <1>1, <1>2, <1>3, <1>5 DEF OthersWhole, Chains
  <2>7. HalfLinked'  BY <1>2, <2>1, <2>2, <2>4, <2>6 DEF HalfLinked
  <2>8. OthersWhole'
    BY <1>2, <1>5, <2>1, <2>4 DEF OthersWhole, Linking, Chains
  <2> QED  BY <2>3, <2>5, <2>7, <2>8 DEF IInv
<1>6. CASE link = "global"
  <2>1. /\ pc' = [pc EXCEPT ![t] = "run"] /\ curtblock' = [curtblock EXCEPT ![t] = rp]
        /\ mtx' = Null /\ rp' = Null /\ UNCHANGED link
    BY <1>6 DEF LinkFwd, Goto
  <2>2. curtblock[t] = Null /\ curtblock'[t] = rp
    BY <1>1, <1>3, <2>1 DEF Owners, TypeOK
  <2>3. Known' = Known \cup {rp}
    <3>1. \A u \in Threads : u # t => curtblock'[u] = curtblock[u]  BY <1>3, <2>1 DEF TypeOK
    <3>2. {curtblock'[u] : u \in Threads} \ {Null}
            = ({curtblock[u] : u \in Threads} \ {Null}) \cup {rp}
      BY <1>2, <2>2, <3>1
    <3> QED  BY <1>1, <3>2 DEF Known
  <2>4. TypeOK'  BY <1>1, <1>2, <1>3, <1>4, <2>1 DEF TypeOK, Labels
  <2>5. Owners'
    <3>1. \A u \in Threads : pc'[u] \in LinkLabels <=> mtx' = u
      BY <1>2, <1>3, <2>1 DEF Owners, TypeOK, LinkLabels
    <3>2. pc'[Main] = "run" /\ \A u \in Threads : curtblock'[u] # Null <=> pc'[u] = "run"
      BY <1>1, <1>2, <1>3, <2>1 DEF Owners, TypeOK
    <3> QED  BY <1>1, <1>2, <1>3, <2>1, <2>3, <3>1, <3>2 DEF Owners, Linking
  <2>6. HalfLinked'  BY <2>1 DEF HalfLinked, Linking
  <2>7. Whole(nxt'["program"], prv'["program"], Known \cup {rp})
    BY <1>1, <1>2, <1>3, <1>6 DEF OthersWhole, Chains
  <2>8. OthersWhole'
    BY <1>2, <1>6, <2>1, <2>3, <2>7 DEF OthersWhole, Linking, Chains
  <2> QED  BY <2>4, <2>5, <2>6, <2>8 DEF IInv
<1> QED  BY <1>3, <1>5, <1>6 DEF TypeOK, Chains

\* findgap() exchanges regions that are known.
LEMMA FindGapStep ==
    ASSUME IInv, NEW t \in Threads, NEW r \in Regions, FindGap(t, r)
    PROVE  IInv'
<1> USE ChainAssumption
<1>1. /\ pc[t] = "run" /\ r \in public
      /\ public' = (public \ {r}) \cup {curtblock[t]}
      /\ curtblock' = [curtblock EXCEPT ![t] = r]
      /\ UNCHANGED <<curblock, nxt, prv, mtx, rp, link, pc>>
  BY DEF FindGap
<1>2. TypeOK /\ Owners  BY DEF IInv
<1>3. curtblock[t] \in Regions /\ r # Null  BY <1>1, <1>2 DEF TypeOK, Owners
<1>4. TypeOK'  BY <1>1, <1>2, <1>3 DEF TypeOK
<1>5. Known' = Known
  <2>1. curtblock'[t] = r /\ \A u \in Threads : u # t => curtblock'[u] = curtblock[u]
    BY <1>1, <1>2 DEF TypeOK
  <2>2. \A x : x \in Known' <=> x \in Known  BY <1>1, <1>3, <2>1 DEF Known
  <2> QED  BY <2>2
<1>6. Owners'  BY <1>1, <1>2, <1>3, <1>5 DEF Owners, TypeOK, Linking
<1>7. HalfLinked' /\ OthersWhole'  BY <1>1, <1>5, ChainsStay
<1> QED  BY <1>4, <1>6, <1>7 DEF IInv

\* A region that is given up stays known.
LEMMA ThreadEndStep ==
    ASSUME IInv, NEW t \in Threads, ThreadEnd(t)
    PROVE  IInv'
<1> USE ChainAssumption
<1>1. /\ t # Main /\ pc[t] = "run" /\ pc' = [pc EXCEPT ![t] = "exited"]
      /\ public' = public \cup {curtblock[t]}
      /\ curtblock' = [curtblock EXCEPT ![t] = Null]
      /\ UNCHANGED <<curblock, nxt, prv, mtx, rp, link>>
  BY DEF ThreadEnd, Goto
<1>2. TypeOK /\ Owners  BY DEF IInv
<1>3. curtblock[t] \in Regions /\ mtx # t  BY <1>1, <1>2 DEF TypeOK, Owners, LinkLabels
<1>4. TypeOK'  BY <1>1, <1>2, <1>3 DEF TypeOK, Labels
<1>5. Known' = Known
  <2>1. curtblock'[t] = Null /\ \A u \in Threads : u # t => curtblock'[u] = curtblock[u]
    BY <1>1, <1>2 DEF TypeOK
  <2>2. \A x : x \in Known' <=> x \in Known  BY <1>1, <1>3, <2>1 DEF Known
  <2> QED  BY <2>2
<1>6. Owners'
  <2>1. \A u \in Threads : pc'[u] \in LinkLabels <=> mtx' = u
    BY <1>1, <1>2, <1>3 DEF Owners, TypeOK, LinkLabels
  <2>2. pc'[Main] = "run" /\ \A u \in Threads : curtblock'[u] # Null <=> pc'[u] = "run"
    BY <1>1, <1>2 DEF Owners, TypeOK
  <2> QED  BY <1>1, <1>2, <1>5, <2>1, <2>2 DEF Owners, Linking
<1>7. Linking => pc'[mtx] = pc[mtx]  BY <1>1, <1>2, <1>3 DEF TypeOK, Linking
<1>8. HalfLinked' /\ OthersWhole'  BY <1>1, <1>5, <1>7, ChainsStay
<1> QED  BY <1>4, <1>6, <1>8 DEF IInv

\* collect() moves curblock when nobody links.
LEMMA CollectStep ==
    ASSUME IInv, NEW t \in Threads, Collect(t)
    PROVE  IInv'
<1> USE ChainAssumption
<1>1. /\ pc[t] = "run" /\ \A u \in Threads : pc[u] \notin LinkLabels
      /\ curblock' = curtblock[t]
      /\ UNCHANGED <<nxt, prv, public, curtblock, mtx, rp, link, pc>>
  BY DEF Collect
<1>2. TypeOK /\ Owners  BY DEF IInv
<1>3. ~Linking  BY <1>1, <1>2 DEF Owners, TypeOK, Linking
<1>4. curtblock[t] \in Known /\ curtblock[t] \in Regions
  BY <1>1, <1>2 DEF Known, Owners, TypeOK
<1>5. TypeOK'  BY <1>1, <1>2, <1>4 DEF TypeOK
<1>6. Known' = Known  BY <1>1 DEF Known
<1>7. Owners'  BY <1>1, <1>2, <1>3, <1>4, <1>6 DEF Owners, Linking
<1>8. HalfLinked' /\ OthersWhole'  BY <1>1, <1>3, <1>6, ChainsStay
<1> QED  BY <1>5, <1>7, <1>8 DEF IInv

\* What is reached in a chain lies in it.
LEMMA AlongInside ==
    ASSUME NEW f, NEW g, NEW K, Whole(f, g, K), NEW x \in K
    PROVE  Along(f, x) \subseteq K
<1>1. PICK n, s : Links(f, g, n, s) /\ K = {s[i] : i \in 1..n}  BY DEF Whole
<1>2. PICK k \in 1..n : x = s[k]  BY <1>1
<1>3. Along(f, x) = {s[i] : i \in k..n}  BY <1>1, <1>2, AlongLinks
<1>4. \A i \in k..n : i \in 1..n  BY <1>1, <1>2 DEF Links
<1> QED  BY <1>1, <1>3, <1>4

\* Every region of a chain is reached from any one of them, along the links one way
\* or the other.
LEMMA AllAlong ==
    ASSUME NEW f, NEW g, NEW K, Whole(f, g, K), NEW x \in K
    PROVE  K \subseteq Along(f, x) \cup Along(g, x)
<1>1. PICK n, s : Links(f, g, n, s) /\ K = {s[i] : i \in 1..n}  BY DEF Whole
<1>2. PICK k \in 1..n : x = s[k]  BY <1>1
<1>3. Along(f, x) = {s[i] : i \in k..n}  BY <1>1, <1>2, AlongLinks
<1>4. PICK b : Reverse(f, g, n, s, b)  BY <1>1, Turned
<1>5. n + 1 - k \in 1..n /\ b[n + 1 - k] = x /\ n \in Nat
  BY <1>1, <1>2, <1>4 DEF Reverse, Links
<1>6. Along(g, x) = {b[i] : i \in (n + 1 - k)..n}
  BY <1>4, <1>5, AlongLinks DEF Reverse
<1>7. ASSUME NEW i \in 1..n, i < k  PROVE s[i] \in Along(g, x)
  <2>1. n + 1 - i \in (n + 1 - k)..n /\ b[n + 1 - i] = s[i]
    BY <1>4, <1>5, <1>7 DEF Reverse
  <2> QED  BY <1>6, <2>1
<1>8. ASSUME NEW i \in 1..n, ~(i < k)  PROVE s[i] \in Along(f, x)
  <2>1. i \in k..n  BY <1>5, <1>8
  <2> QED  BY <1>3, <2>1
<1> QED  BY <1>1, <1>7, <1>8

\* reserve() puts a new region at the end of the one chain and beside it in the
\* other.
LEMMA GrowStep ==
    ASSUME IInv, NEW t \in Threads, NEW r \in Regions, Grow(t, r)
    PROVE  IInv'
<1> USE ChainAssumption
<1> DEFINE P == "program"
           G == "global"
<1>1. /\ pc[t] = "run" /\ mtx = Null /\ r \in Fresh
      /\ public' = public \cup {curtblock[t]}
      /\ curtblock' = [curtblock EXCEPT ![t] = r]
      /\ UNCHANGED <<curblock, mtx, rp, link, pc>>
  BY DEF Grow
<1>2. PICK last \in Along(nxt[P], curtblock[t]) :
        /\ nxt[P][last] = Null
        /\ nxt' = [nxt EXCEPT ![P] = [@ EXCEPT ![last] = r, ![r] = Null],
                              ![G] = [z \in Regions |->
                                   IF z = r THEN last
                                   ELSE IF z = prv[G][last] THEN r ELSE @[z]]]
        /\ prv' = [prv EXCEPT ![P] = [@ EXCEPT ![r] = last],
                              ![G] = [@ EXCEPT ![r] = prv[G][last], ![last] = r]]
  BY DEF Grow
<1>3. TypeOK /\ Owners /\ ~Linking  BY <1>1 DEF IInv, Linking
<1>4. curtblock[t] \in Known /\ curtblock[t] \in Regions /\ r \notin Known
  BY <1>1, <1>3 DEF Known, Owners, TypeOK, Fresh
<1>5. Whole(nxt[P], prv[P], Known) /\ Whole(nxt[G], prv[G], Known)
  BY <1>3 DEF IInv, OthersWhole, Chains
<1>6. last \in Known  BY <1>4, <1>5, AlongInside
<1>7. Known \subseteq Regions /\ Null \notin Known  BY <1>5, LinksInside
<1>8. nxt[P] \in [Regions -> Regions \cup {Null}] /\ nxt[G] \in [Regions -> Regions \cup {Null}]
      /\ prv[P] \in [Regions -> Regions \cup {Null}] /\ prv[G] \in [Regions -> Regions \cup {Null}]
      /\ DOMAIN nxt = {P, G} /\ DOMAIN prv = {P, G}
  BY <1>3 DEF TypeOK, Chains
<1>9. r # last  BY <1>4, <1>6
<1>10. /\ nxt'[P] = [nxt[P] EXCEPT ![last] = r, ![r] = Null]
       /\ nxt'[G] = [z \in Regions |-> IF z = r THEN last
                                      ELSE IF z = prv[G][last] THEN r ELSE nxt[G][z]]
       /\ prv'[P] = [prv[P] EXCEPT ![r] = last]
       /\ prv'[G] = [prv[G] EXCEPT ![r] = prv[G][last], ![last] = r]
       /\ DOMAIN nxt' = {P, G} /\ DOMAIN prv' = {P, G}
  BY <1>2, <1>8
<1>11. /\ \A y \in Known : nxt'[P][y] = IF y = last THEN r ELSE nxt[P][y]
       /\ \A y \in Known : prv'[P][y] = IF y = nxt[P][last] THEN r ELSE prv[P][y]
       /\ nxt'[P][r] = nxt[P][last] /\ prv'[P][r] = last
  BY <1>2, <1>4, <1>6, <1>7, <1>8, <1>9, <1>10
<1>12. /\ \A y \in Known : prv'[G][y] = IF y = last THEN r ELSE prv[G][y]
       /\ \A y \in Known : nxt'[G][y] = IF y = prv[G][last] THEN r ELSE nxt[G][y]
       /\ prv'[G][r] = prv[G][last] /\ nxt'[G][r] = last
  BY <1>4, <1>6, <1>7, <1>8, <1>9, <1>10
<1> DEFINE K == Known
           fP == nxt[P]
           gP == prv[P]
           fP2 == nxt'[P]
           gP2 == prv'[P]
           fG == nxt[G]
           gG == prv[G]
           fG2 == nxt'[G]
           gG2 == prv'[G]
<1>13. Whole(fP2, gP2, K \cup {r})
  <2>1. /\ Whole(fP, gP, K) /\ last \in K /\ r \in Regions \ K
        /\ \A y \in K : fP2[y] = IF y = last THEN r ELSE fP[y]
        /\ \A y \in K : gP2[y] = IF y = fP[last] THEN r ELSE gP[y]
        /\ fP2[r] = fP[last] /\ gP2[r] = last
    BY <1>4, <1>5, <1>6, <1>11
  <2> HIDE DEF fP, gP, fP2, gP2, K
  <2> QED  BY <2>1, InsertAfter
<1>14. Whole(fG2, gG2, K \cup {r})
  <2>1. /\ Whole(fG, gG, K) /\ last \in K /\ r \in Regions \ K
        /\ \A y \in K : gG2[y] = IF y = last THEN r ELSE gG[y]
        /\ \A y \in K : fG2[y] = IF y = gG[last] THEN r ELSE fG[y]
        /\ gG2[r] = gG[last] /\ fG2[r] = last
    BY <1>4, <1>5, <1>6, <1>12
  <2> HIDE DEF fG, gG, fG2, gG2, K
  <2>2. Whole(gG, fG, K)  BY <2>1, Backwards
  <2>3. Whole(gG2, fG2, K \cup {r})  BY <2>1, <2>2, InsertAfter
  <2> QED  BY <2>3, Backwards
<1>15. Known' = Known \cup {r}
  <2>1. curtblock'[t] = r /\ \A u \in Threads : u # t => curtblock'[u] = curtblock[u]
    BY <1>1, <1>3 DEF TypeOK
  <2>2. \A x : x \in Known' <=> x \in Known \cup {r}  BY <1>1, <1>4, <2>1 DEF Known
  <2> QED  BY <2>2
<1>16. TypeOK'
  <2>1. prv[G][last] \in Regions \cup {Null}  BY <1>6, <1>7, <1>8
  <2>2. nxt'[P] \in [Regions -> Regions \cup {Null}] /\ prv'[P] \in [Regions -> Regions \cup {Null}]
    BY <1>6, <1>7, <1>8, <1>10
  <2>3. nxt'[G] \in [Regions -> Regions \cup {Null}] /\ prv'[G] \in [Regions -> Regions \cup {Null}]
    BY <1>6, <1>7, <1>8, <1>10, <2>1
  <2>4. nxt' = [c \in Chains |-> nxt'[c]] /\ prv' = [c \in Chains |-> prv'[c]]
    BY <1>2, <1>3 DEF TypeOK
  <2>5. \A c \in Chains : /\ nxt'[c] \in [Regions -> Regions \cup {Null}]
                          /\ prv'[c] \in [Regions -> Regions \cup {Null}]
    BY <2>2, <2>3 DEF Chains
  <2>6. /\ nxt' \in [Chains -> [Regions -> Regions \cup {Null}]]
        /\ prv' \in [Chains -> [Regions -> Regions \cup {Null}]]
    BY <2>4, <2>5
  <2> QED  BY <1>1, <1>3, <1>4, <2>6 DEF TypeOK
<1>17. Owners'
  <2>1. \A u \in Threads : curtblock'[u] # Null <=> pc'[u] = "run"
    BY <1>1, <1>3 DEF Owners, TypeOK
  <2> QED  BY <1>1, <1>3, <1>15, <2>1 DEF Owners, Linking
<1>18. HalfLinked'  BY <1>1, <1>3 DEF HalfLinked, Linking
<1>19. OthersWhole'  BY <1>1, <1>3, <1>13, <1>14, <1>15 DEF OthersWhole, Linking, Chains
<1> QED  BY <1>16, <1>17, <1>18, <1>19 DEF IInv

-----------------------------------------------------------------------------
(* The theorem *)

\* rootblock alone is a chain.
LEMMA InitInductive == Init => IInv
<1> SUFFICES ASSUME Init  PROVE IInv  OBVIOUS
<1> USE ChainAssumption DEF Init
<1>1. TypeOK  BY DEF TypeOK, Chains, Labels, LinkLabels
<1>2. Known = {First}  BY DEF Known
<1>3. Owners  BY <1>2 DEF Owners, Linking, LinkLabels
<1>4. ASSUME NEW c \in Chains  PROVE Whole(nxt[c], prv[c], Known)
  <2>1. nxt[c][First] = Null /\ prv[c][First] = Null  OBVIOUS
  <2> DEFINE s == [i \in 1..1 |-> First]
  <2>2. Links(nxt[c], prv[c], 1, s)  BY <2>1 DEF Links
  <2>3. Known = {s[i] : i \in 1..1}  BY <1>2
  <2> HIDE DEF s
  <2> QED  BY ONLY <2>2, <2>3 DEF Whole
<1>5. HalfLinked /\ OthersWhole  BY <1>4 DEF HalfLinked, OthersWhole, Linking
<1> QED  BY <1>1, <1>3, <1>5 DEF IInv

\* Every step keeps the invariant.
LEMMA StepInductive ==
    ASSUME IInv, [Next /\ CurblockStill]_vars
    PROVE  IInv'
<1>1. CASE Next /\ CurblockStill
  <2>1. PICK t \in Threads :
          \/ \E r \in Regions : Reuse(t, r) \/ NewRegion(t, r) \/ FindGap(t, r) \/ Grow(t, r)
          \/ LinkPrev(t) \/ LinkNext(t) \/ LinkBack(t) \/ LinkFwd(t)
          \/ Collect(t) \/ ThreadEnd(t)
    BY <1>1 DEF Next
  <2>2. ASSUME NEW r \in Regions,
               Reuse(t, r) \/ NewRegion(t, r) \/ FindGap(t, r) \/ Grow(t, r)
        PROVE  IInv'
    BY <1>1, <2>2, ReuseStep, NewRegionStep, FindGapStep, GrowStep
  <2> QED
    BY <2>1, <2>2, LinkPrevStep, LinkNextStep, LinkBackStep, LinkFwdStep, CollectStep,
       ThreadEndStep
<1>2. CASE UNCHANGED vars
  <2>1. UNCHANGED <<curblock, nxt, prv, public, curtblock, mtx, rp, link, pc>>
    BY <1>2 DEF vars
  <2>2. Known' = Known  BY <2>1 DEF Known
  <2>3. TypeOK' /\ Owners'  BY <2>1, <2>2 DEF IInv, TypeOK, Owners, Linking
  <2>4. HalfLinked' /\ OthersWhole'  BY <2>1, <2>2, ChainsStay
  <2> QED  BY <2>3, <2>4 DEF IInv
<1> QED  BY <1>1, <1>2

\* With MTX_BLKHEAP free, all regions in use are reached from any one of them in
\* both chains, however many threads start together, link regions in, reuse and
\* exchange them, grow and collect, as long as curblock stays while somebody links:
\* the collector finds every block's region.
THEOREM ChainsCorrect == QuietSpec => []ChainInv
<1>1. IInv => ChainInv
  <2> SUFFICES ASSUME IInv, mtx = Null, NEW c \in Chains, NEW r \in Known
               PROVE  Along(nxt[c], r) \cup Along(prv[c], r) = Known
    BY DEF IInv, ChainInv, ChainsComplete
  <2>1. Whole(nxt[c], prv[c], Known)  BY DEF IInv, OthersWhole, Linking
  <2>2. Whole(prv[c], nxt[c], Known)  BY <2>1, Backwards
  <2>3. Along(nxt[c], r) \subseteq Known /\ Along(prv[c], r) \subseteq Known
    BY <2>1, <2>2, AlongInside
  <2>4. Known \subseteq Along(nxt[c], r) \cup Along(prv[c], r)  BY <2>1, AllAlong
  <2> QED  BY <2>3, <2>4
<1>2. QuietSpec => []IInv
  <2>1. IInv /\ [Next /\ CurblockStill]_vars => IInv'  BY StepInductive
  <2> QED  BY <2>1, InitInductive, PTL DEF QuietSpec
<1> QED  BY <1>1, <1>2, PTL
=============================================================================
