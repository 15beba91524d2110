------------------------ MODULE CoexprReclaimProofs ------------------------
(***************************************************************************)
(* Proofs about CoexprReclaim, for any finite set of co-expressions and    *)
(* any bound on the stacks.  Of programs in which the main thread alone    *)
(* activates (Activators \subseteq {Main}): what runs can be resumed by     *)
(* those it was activated by, and collections free nothing that is         *)
(* reachable.  The run CoexprReclaimThreads shows that the hypothesis is   *)
(* needed.  Of all programs: the last theorem, which says how far a        *)
(* collection can go wrong without it.                                     *)
(***************************************************************************)
EXTENDS CoexprReclaim, FiniteSetTheorems, SequenceTheorems, WellFoundedInduction, TLAPS

-----------------------------------------------------------------------------
(* Recursion on intervals *)

\* A set of natural numbers with an element has a least one: the form in which
\* the proofs use induction, as the least counterexample.
LEMMA LeastNat ==
    ASSUME NEW T \in SUBSET Nat, T # {}
    PROVE  \E x \in T : \A y \in T : x <= y
<1>1. \E x \in T : \A y \in T : ~ (<<y, x>> \in OpToRel(<, Nat))
  BY WFMin, NatLessThanWellFounded
<1>2. PICK x \in T : \A y \in T : ~ (<<y, x>> \in OpToRel(<, Nat))  BY <1>1
<1>3. \A y \in T : ~(y < x)  BY <1>2 DEF OpToRel
<1> QED  BY <1>3

\* f starts with a in A and goes on with the steps of G.
Iterates(f, n, A, a, G) ==
    f \in [0..n -> A] /\ f[0] = a /\ \A i \in 1..n : f[i] = G[i][f[i - 1]]

\* There is such a function.
LEMMA RecursionExists ==
    ASSUME NEW n \in Nat, NEW A, NEW a \in A, NEW G \in [1..n -> [A -> A]]
    PROVE  \E f : Iterates(f, n, A, a, G)
<1> DEFINE Runs(f, k) == f \in [0..k -> A] /\ f[0] = a /\ \A i \in 1..k : f[i] = G[i][f[i - 1]]
           T == {k \in 0..n : ~ \E f : Runs(f, k)}
<1>1. ASSUME T # {}  PROVE FALSE
  <2>1. T \in SUBSET Nat  OBVIOUS
  <2>2. PICK k \in T : \A j \in T : k <= j  BY <1>1, <2>1, LeastNat
  <2>3. k \in 0..n /\ (~ \E f : Runs(f, k)) /\ \A j \in 0..n : j < k => \E f : Runs(f, j)
    <3> HIDE DEF Runs
    <3> QED  BY <2>2
  <2>4. CASE k = 0
    <3>1. Runs([i \in 0..0 |-> a], 0)  OBVIOUS
    <3> QED  BY <2>3, <2>4, <3>1
  <2>5. CASE k > 0
    <3>1. k - 1 \in 0..n /\ k - 1 < k  BY <2>3, <2>5
    <3>2. PICK f : Runs(f, k - 1)
      <4> HIDE DEF Runs
      <4> QED  BY <2>3, <3>1
    <3> DEFINE g == [i \in 0..k |-> IF i < k THEN f[i] ELSE G[k][f[k - 1]]]
    <3>3. f[k - 1] \in A  BY <2>3, <2>5, <3>2
    <3>4. G[k][f[k - 1]] \in A
      <4>1. k \in 1..n  BY <2>3, <2>5
      <4>2. G[k] \in [A -> A]  BY <4>1
      <4> QED  BY <3>3, <4>2
    <3>5. g \in [0..k -> A] /\ g[0] = a
      <4>1. \A i \in 0..k : i < k => i \in 0..(k - 1) /\ f[i] \in A
        BY <2>3, <2>5, <3>2
      <4>2. f[0] = a /\ 0 < k /\ 0 \in 0..k  BY <2>3, <2>5, <3>2
      <4> QED  BY <3>4, <4>1, <4>2
    <3>6. ASSUME NEW i \in 1..k  PROVE g[i] = G[i][g[i - 1]]
      <4>1. g[i - 1] = f[i - 1]  BY <2>3, <3>6
      <4>2. CASE i < k
        <5>1. i \in 1..(k - 1)  BY <2>3, <4>2
        <5>2. f[i] = G[i][f[i - 1]]  BY <3>2, <5>1
        <5>3. g[i] = f[i]  BY <2>3, <4>2
        <5> QED  BY <4>1, <5>2, <5>3
      <4>3. CASE i = k
        <5>1. g[k] = G[k][f[k - 1]]  BY <2>3, <2>5
        <5> HIDE DEF g
        <5> QED  BY <4>1, <4>3, <5>1
      <4> QED  BY <2>3, <4>2, <4>3
    <3>7. Runs(g, k)  BY <3>5, <3>6
    <3> QED  BY <2>3, <3>7
  <2> QED  BY <2>3, <2>4, <2>5
<1>2. n \notin T  BY <1>1
<1>3. PICK f : Runs(f, n)
  <2> HIDE DEF Runs
  <2> QED  BY <1>2
<1> QED  BY <1>3 DEF Iterates

-----------------------------------------------------------------------------
(* Sequences *)

\* The elements of a sequence of one, of a longer one, of a front.
LEMMA ToSetOne ==
    ASSUME NEW e
    PROVE  ToSet(<<e>>) = {e} /\ Len(<<e>>) = 1
<1>1. DOMAIN <<e>> = {1} /\ <<e>>[1] = e  OBVIOUS
<1> QED  BY <1>1 DEF ToSet

LEMMA ToSetAppend ==
    ASSUME NEW A, NEW q \in Seq(A), NEW e \in A
    PROVE  ToSet(Append(q, e)) = ToSet(q) \cup {e}
<1>1. /\ Append(q, e) \in Seq(A) /\ Len(Append(q, e)) = Len(q) + 1
      /\ \A j \in 1..Len(q) : Append(q, e)[j] = q[j]
      /\ Append(q, e)[Len(q) + 1] = e
  BY AppendProperties
<1>2. DOMAIN Append(q, e) = (1..Len(q)) \cup {Len(q) + 1} /\ DOMAIN q = 1..Len(q)
  BY <1>1
<1>3. ToSet(q) = {q[j] : j \in 1..Len(q)}  BY <1>2 DEF ToSet
<1>4. ToSet(Append(q, e)) = {Append(q, e)[j] : j \in (1..Len(q)) \cup {Len(q) + 1}}
  BY <1>2 DEF ToSet
<1> QED  BY <1>1, <1>3, <1>4

LEMMA ToSetPrepend ==
    ASSUME NEW A, NEW q \in Seq(A), NEW e \in A
    PROVE  <<e>> \o q \in Seq(A) /\ ToSet(<<e>> \o q) = ToSet(q) \cup {e}
<1> DEFINE r == <<e>> \o q
<1>1. <<e>> \in Seq(A) /\ Len(<<e>>) = 1 /\ <<e>>[1] = e /\ Len(q) \in Nat  OBVIOUS
<1>2. /\ r \in Seq(A) /\ Len(r) = Len(q) + 1
      /\ r[1] = e /\ \A j \in 1..Len(q) : r[j + 1] = q[j]
  BY <1>1, ConcatProperties
<1>3. DOMAIN r = 1..(Len(q) + 1) /\ DOMAIN q = 1..Len(q)  BY <1>2
<1> HIDE DEF r
<1>4. ToSet(r) = {r[j] : j \in 1..(Len(q) + 1)} /\ ToSet(q) = {q[j] : j \in 1..Len(q)}
  BY <1>3 DEF ToSet
<1>5. ASSUME NEW j \in 1..(Len(q) + 1)  PROVE r[j] \in ToSet(q) \cup {e}
  <2>1. CASE j = 1  BY <1>2, <2>1
  <2>2. CASE j # 1
    <3>1. j - 1 \in 1..Len(q) /\ (j - 1) + 1 = j  BY <1>1, <2>2
    <3> QED  BY <1>2, <1>4, <3>1
  <2> QED  BY <2>1, <2>2
<1>6. ASSUME NEW j \in 1..Len(q)  PROVE q[j] \in ToSet(r)
  <2>1. j + 1 \in 1..(Len(q) + 1)  BY <1>1
  <2> QED  BY <1>2, <1>4, <2>1
<1>7. e \in ToSet(r)
  <2>1. 1 \in 1..(Len(q) + 1)  BY <1>1
  <2> QED  BY <1>2, <1>4, <2>1
<1>8. ToSet(r) = ToSet(q) \cup {e}  BY <1>4, <1>5, <1>6, <1>7
<1> QED  BY <1>2, <1>8 DEF r

LEMMA FrontOf ==
    ASSUME NEW A, NEW s \in Seq(A), s # <<>>
    PROVE  /\ Front(s) \in Seq(A) /\ Len(Front(s)) = Len(s) - 1
           /\ \A i \in 1..(Len(s) - 1) : Front(s)[i] = s[i]
           /\ ToSet(Front(s)) \subseteq ToSet(s)
           /\ Last(s) \in ToSet(s) /\ Last(s) \in A /\ Len(s) \in Nat \ {0}
<1>1. Len(s) \in Nat \ {0} /\ DOMAIN s = 1..Len(s)  OBVIOUS
<1>2. /\ Front(s) \in Seq(A) /\ Len(Front(s)) = Len(s) - 1
      /\ \A i \in 1..(Len(s) - 1) : Front(s)[i] = s[i]
  BY <1>1, SubSeqProperties DEF Front
<1>3. DOMAIN Front(s) = 1..(Len(s) - 1)  BY <1>1, <1>2
<1>4. ToSet(Front(s)) \subseteq ToSet(s)  BY <1>1, <1>2, <1>3 DEF ToSet
<1>5. Last(s) \in ToSet(s) /\ Last(s) \in A  BY <1>1 DEF Last, ToSet
<1> QED  BY <1>1, <1>2, <1>4, <1>5

\* cofree() takes out of the list what it is told to and nothing else.
LEMMA WithoutSet ==
    ASSUME NEW A, NEW s \in Seq(A), NEW S
    PROVE  Without(s, S) \in Seq(A) /\ ToSet(Without(s, S)) = ToSet(s) \ S
<1> DEFINE n == Len(s)
           left[i \in 0..n] == IF i = 0 THEN <<>>
                               ELSE IF s[i] \in S THEN left[i - 1] ELSE Append(left[i - 1], s[i])
           step == [i \in 1..n |-> [q \in Seq(A) |->
                      IF s[i] \in S THEN q ELSE Append(q, s[i])]]
<1>1. n \in Nat /\ s \in [1..n -> A]  OBVIOUS
<1>2. <<>> \in Seq(A)  OBVIOUS
<1>3. step \in [1..n -> [Seq(A) -> Seq(A)]]
  <2> SUFFICES ASSUME NEW i \in 1..n, NEW q \in Seq(A)
               PROVE  (IF s[i] \in S THEN q ELSE Append(q, s[i])) \in Seq(A)
    OBVIOUS
  <2>1. s[i] \in A  BY <1>1
  <2> QED  BY <2>1, AppendProperties
<1>4. PICK f \in [0..n -> Seq(A)] : f[0] = <<>> /\ \A i \in 1..n : f[i] = step[i][f[i - 1]]
  <2>1. \E f : Iterates(f, n, Seq(A), <<>>, step)
    BY <1>1, <1>2, <1>3, RecursionExists
  <2> QED  BY <2>1 DEF Iterates
<1>5. f = [i \in 0..n |-> IF i = 0 THEN <<>>
                          ELSE IF s[i] \in S THEN f[i - 1] ELSE Append(f[i - 1], s[i])]
  <2> SUFFICES ASSUME NEW i \in 0..n
               PROVE  f[i] = IF i = 0 THEN <<>>
                             ELSE IF s[i] \in S THEN f[i - 1] ELSE Append(f[i - 1], s[i])
    BY <1>4
  <2>1. CASE i = 0  BY <1>4, <2>1
  <2>2. CASE i # 0
    <3>1. i \in 1..n /\ i - 1 \in 0..n  BY <1>1, <2>2
    <3>2. f[i - 1] \in Seq(A)  BY <1>4, <3>1
    <3> QED  BY <1>4, <2>2, <3>1, <3>2
  <2> QED  BY <2>1, <2>2
<1>6. left = [i \in 0..n |-> IF i = 0 THEN <<>>
                             ELSE IF s[i] \in S THEN left[i - 1] ELSE Append(left[i - 1], s[i])]
  BY <1>5 DEF left
<1>7. Without(s, S) = left[n]  BY DEF Without
<1> HIDE DEF left, n, step
<1> DEFINE Good(i) == left[i] \in Seq(A) /\ ToSet(left[i]) = {s[j] : j \in 1..i} \ S
           T == {i \in 0..n : ~ Good(i)}
<1>8. ASSUME T # {}  PROVE FALSE
  <2>1. T \in SUBSET Nat  BY <1>1
  <2>2. PICK i \in T : \A j \in T : i <= j  BY <1>8, <2>1, LeastNat
  <2>3. i \in 0..n /\ ~ Good(i) /\ \A j \in 0..n : j < i => Good(j)
    <3> HIDE DEF Good
    <3> QED  BY <1>1, <2>2
  <2>4. CASE i = 0
    <3>1. left[0] = <<>>  BY <1>1, <1>6
    <3>2. ToSet(<<>>) = {}  BY DEF ToSet
    <3>3. 1..0 = {}  OBVIOUS
    <3>4. {s[j] : j \in 1..0} \ S = {}  BY <3>3
    <3> QED  BY <2>3, <2>4, <3>1, <3>2, <3>4
  <2>5. CASE i # 0
    <3>1. i \in 1..n /\ i - 1 \in 0..n /\ s[i] \in A  BY <1>1, <2>3, <2>5
    <3>2. i - 1 < i  BY <3>1
    <3>3. Good(i - 1)
      <4> HIDE DEF Good
      <4> QED  BY <2>3, <3>1, <3>2
    <3>4. left[i] = IF s[i] \in S THEN left[i - 1] ELSE Append(left[i - 1], s[i])
      BY <1>6, <2>5, <3>1
    <3>5. {s[j] : j \in 1..i} = {s[j] : j \in 1..(i - 1)} \cup {s[i]}
      <4>1. 1..i = (1..(i - 1)) \cup {i}  BY <3>1
      <4> QED  BY <4>1
    <3>6. ToSet(Append(left[i - 1], s[i])) = ToSet(left[i - 1]) \cup {s[i]}
      BY <3>1, <3>3, ToSetAppend
    <3>7. CASE s[i] \in S  BY <2>3, <3>3, <3>4, <3>5, <3>7
    <3>8. CASE s[i] \notin S
      <4>1. left[i] \in Seq(A)  BY <3>1, <3>3, <3>4, <3>8, AppendProperties
      <4> QED  BY <2>3, <3>3, <3>4, <3>5, <3>6, <3>8, <4>1
    <3> QED  BY <3>7, <3>8
  <2> QED  BY <2>4, <2>5
<1>9. Good(n)
  <2> HIDE DEF Good
  <2> QED  BY <1>1, <1>8
<1>10. ToSet(s) = {s[j] : j \in 1..n}  BY <1>1 DEF ToSet
<1> QED  BY <1>7, <1>9, <1>10

-----------------------------------------------------------------------------
(* Marking *)

Count == Cardinality(Coexprs)

\* The rounds of the marking are a number.
LEMMA CountNat == IsFiniteSet(Coexprs) /\ Count \in Nat
BY CoexprAssumption, FS_CardinalityType DEF Count

\* As many rounds as there are co-expressions reach everything that can be
\* reached: each round but the last adds one at least.
LEMMA ReachClosed ==
    ASSUME NEW R \in SUBSET Coexprs, R # {}, NEW P \in [Coexprs -> SUBSET Coexprs],
           NEW reach \in [0..Count -> SUBSET Coexprs], reach[0] = R,
           \A i \in 1..Count : reach[i] = reach[i - 1] \cup UNION {P[x] : x \in reach[i - 1]}
    PROVE  R \subseteq reach[Count] /\ \A x \in reach[Count] : P[x] \subseteq reach[Count]
<1>1. IsFiniteSet(Coexprs) /\ Count \in Nat  BY CountNat
<1>2. \A i \in 0..Count : /\ reach[i] \subseteq Coexprs /\ IsFiniteSet(reach[i])
                          /\ Cardinality(reach[i]) \in Nat
                          /\ Cardinality(reach[i]) <= Count
  BY <1>1, FS_Subset, FS_CardinalityType DEF Count
<1>3. PICK k \in 0..Count : /\ Cardinality(reach[k]) <= k
                            /\ \A j \in 0..Count : j < k => Cardinality(reach[j]) > j
  <2> DEFINE T == {i \in 0..Count : Cardinality(reach[i]) <= i}
  <2>1. Count \in T /\ T \in SUBSET Nat  BY <1>1, <1>2
  <2>2. PICK k \in T : \A j \in T : k <= j
    <3> HIDE DEF T
    <3> QED  BY <2>1, LeastNat
  <2>3. k \in 0..Count /\ Cardinality(reach[k]) <= k  BY <2>2
  <2>4. ASSUME NEW j \in 0..Count, j < k  PROVE Cardinality(reach[j]) > j
    <3>1. Cardinality(reach[j]) \in Nat /\ j \in Nat /\ k \in Nat  BY <1>1, <1>2, <2>3
    <3>2. j \notin T  BY <2>2, <2>4, <3>1
    <3>3. ~ (Cardinality(reach[j]) <= j)  BY <3>2
    <3> QED  BY <3>1, <3>3
  <2> QED  BY <2>3, <2>4
<1>4. k \in 1..Count /\ k - 1 \in 0..Count
  <2>1. Cardinality(reach[0]) # 0 /\ 0 \in 0..Count  BY <1>1, <1>2, FS_EmptySet
  <2> QED  BY <1>1, <1>2, <1>3, <2>1
<1>5. reach[k] = reach[k - 1]
  <2>1. reach[k - 1] \in SUBSET reach[k]  BY <1>4
  <2>2. /\ Cardinality(reach[k - 1]) <= Cardinality(reach[k])
        /\ Cardinality(reach[k]) = Cardinality(reach[k - 1]) => reach[k] = reach[k - 1]
    BY <1>2, <1>3, <2>1, FS_Subset
  <2>3. Cardinality(reach[k - 1]) > k - 1  BY <1>1, <1>3, <1>4
  <2>4. Cardinality(reach[k]) = Cardinality(reach[k - 1])
    BY <1>1, <1>2, <1>3, <1>4, <2>2, <2>3
  <2> QED  BY <2>2, <2>4
<1>6. \A x \in reach[k] : P[x] \subseteq reach[k]  BY <1>4, <1>5
<1>7. \A j \in 0..Count : j >= k => reach[j] = reach[k]
  <2> DEFINE T == {j \in 0..Count : j >= k /\ reach[j] # reach[k]}
  <2>1. ASSUME T # {}  PROVE FALSE
    <3>1. T \in SUBSET Nat  BY <1>1
    <3>2. PICK j \in T : \A i \in T : j <= i  BY <2>1, <3>1, LeastNat
    <3>3. j # k /\ j \in 1..Count /\ j - 1 \in 0..Count /\ j - 1 >= k  BY <1>1, <1>3, <1>4
    <3>4. reach[j - 1] = reach[k]  BY <1>1, <3>2, <3>3
    <3>5. reach[j] = reach[k]
      <4>1. reach[j] = reach[j - 1] \cup UNION {P[x] : x \in reach[j - 1]}  BY <3>3
      <4>2. UNION {P[x] : x \in reach[k]} \subseteq reach[k]  BY <1>6
      <4> QED  BY <3>4, <4>1, <4>2
    <3> QED  BY <3>5
  <2> QED  BY <2>1
<1>8. \A j \in 0..Count : R \subseteq reach[j]
  <2> DEFINE T == {j \in 0..Count : ~ R \subseteq reach[j]}
  <2>1. ASSUME T # {}  PROVE FALSE
    <3>1. T \in SUBSET Nat  BY <1>1
    <3>2. PICK j \in T : \A i \in T : j <= i  BY <2>1, <3>1, LeastNat
    <3>3. j # 0 /\ j \in 1..Count /\ j - 1 \in 0..Count  BY <1>1
    <3>4. R \subseteq reach[j - 1]  BY <1>1, <3>2, <3>3
    <3>5. reach[j - 1] \subseteq reach[j]  BY <3>3
    <3> QED  BY <3>4, <3>5
  <2> QED  BY <2>1
<1> QED  BY <1>1, <1>3, <1>6, <1>7, <1>8

\* The roots are marked, and what a marked co-expression points to.
LEMMA MarkClosed ==
    ASSUME NEW t, Roots(t) \subseteq Coexprs, \A x \in Coexprs : Points(x) \subseteq Coexprs
    PROVE  Roots(t) \subseteq Marked(t) /\ \A x \in Marked(t) : Points(x) \subseteq Marked(t)
<1> DEFINE reach[i \in 0..Count] ==
               IF i = 0 THEN Roots(t)
               ELSE LET before == reach[i - 1] IN before \cup UNION {Points(x) : x \in before}
           next == [i \in 1..Count |-> [S \in SUBSET Coexprs |->
                       S \cup UNION {Points(x) : x \in S}]]
           P == [x \in Coexprs |-> Points(x)]
<1>1. Count \in Nat  BY CountNat
<1>2. \A S \in SUBSET Coexprs : S \cup UNION {Points(x) : x \in S} \in SUBSET Coexprs
  OBVIOUS
<1>3. next \in [1..Count -> [SUBSET Coexprs -> SUBSET Coexprs]]  BY <1>2
<1>4. PICK f \in [0..Count -> SUBSET Coexprs] :
         f[0] = Roots(t) /\ \A i \in 1..Count : f[i] = next[i][f[i - 1]]
  <2> HIDE DEF next
  <2>1. \E f : Iterates(f, Count, SUBSET Coexprs, Roots(t), next)
    BY <1>1, <1>3, RecursionExists
  <2> QED  BY <2>1 DEF Iterates
<1>5. \A i \in 1..Count : f[i] = f[i - 1] \cup UNION {Points(x) : x \in f[i - 1]}
  <2> SUFFICES ASSUME NEW i \in 1..Count
               PROVE  f[i] = f[i - 1] \cup UNION {Points(x) : x \in f[i - 1]}
    OBVIOUS
  <2>1. i - 1 \in 0..Count /\ f[i - 1] \in SUBSET Coexprs  BY <1>1
  <2> QED  BY <1>4, <2>1
<1>6. f = [i \in 0..Count |->
             IF i = 0 THEN Roots(t)
             ELSE LET before == f[i - 1] IN before \cup UNION {Points(x) : x \in before}]
  <2> SUFFICES ASSUME NEW i \in 0..Count
               PROVE  f[i] = IF i = 0 THEN Roots(t)
                             ELSE f[i - 1] \cup UNION {Points(x) : x \in f[i - 1]}
    BY <1>4
  <2> HIDE DEF next
  <2>1. CASE i = 0  BY <1>4, <2>1
  <2>2. CASE i # 0  BY <1>1, <1>5, <2>2
  <2> QED  BY <2>1, <2>2
<1>7. reach = [i \in 0..Count |->
                 IF i = 0 THEN Roots(t)
                 ELSE LET before == reach[i - 1] IN before \cup UNION {Points(x) : x \in before}]
  BY <1>6 DEF reach
<1>8. Marked(t) = reach[Count]  BY DEF Marked, Count
<1> HIDE DEF reach, next
<1>9. reach[0] = Roots(t)  BY <1>1, <1>7
<1>10. \A i \in 1..Count : reach[i] = reach[i - 1] \cup UNION {Points(x) : x \in reach[i - 1]}
  BY <1>1, <1>7
<1>11. \A i \in 0..Count : reach[i] \in SUBSET Coexprs
  <2> DEFINE T == {i \in 0..Count : reach[i] \notin SUBSET Coexprs}
  <2>1. ASSUME T # {}  PROVE FALSE
    <3>1. T \in SUBSET Nat  BY <1>1
    <3>2. PICK i \in T : \A j \in T : i <= j  BY <2>1, <3>1, LeastNat
    <3>3. i # 0 /\ i \in 1..Count /\ i - 1 \in 0..Count  BY <1>1, <1>9
    <3>4. reach[i - 1] \in SUBSET Coexprs  BY <1>1, <3>2, <3>3
    <3>5. reach[i] \in SUBSET Coexprs  BY <1>2, <1>10, <3>3, <3>4
    <3> QED  BY <3>5
  <2> QED  BY <2>1
<1>12. reach \in [0..Count -> SUBSET Coexprs]
  <2>1. reach = [i \in 0..Count |-> reach[i]]  BY <1>7
  <2> QED  BY <1>11, <2>1
<1>13. P \in [Coexprs -> SUBSET Coexprs] /\ \A x \in Coexprs : P[x] = Points(x)  OBVIOUS
<1> HIDE DEF P
<1>14. \A i \in 1..Count : reach[i] = reach[i - 1] \cup UNION {P[x] : x \in reach[i - 1]}
  <2> SUFFICES ASSUME NEW i \in 1..Count
               PROVE  reach[i] = reach[i - 1] \cup UNION {P[x] : x \in reach[i - 1]}
    OBVIOUS
  <2>1. i - 1 \in 0..Count  BY <1>1
  <2>2. reach[i - 1] \in SUBSET Coexprs  BY <1>11, <2>1
  <2>3. {P[x] : x \in reach[i - 1]} = {Points(x) : x \in reach[i - 1]}  BY <1>13, <2>2
  <2> QED  BY <1>10, <2>3
<1>15. Roots(t) # {} /\ Roots(t) \in SUBSET Coexprs  BY DEF Roots
<1>16. /\ Roots(t) \subseteq reach[Count]
       /\ \A x \in reach[Count] : P[x] \subseteq reach[Count]
  BY <1>9, <1>12, <1>13, <1>14, <1>15, ReachClosed
<1>17. reach[Count] \subseteq Coexprs  BY <1>1, <1>11
<1> QED  BY <1>8, <1>13, <1>16, <1>17

-----------------------------------------------------------------------------
(* The inductive invariant *)

Live == {p \in thread : alive[p] = 1}

\* Every thread but the main one runs its own co-expression all its life.
Shape ==
    /\ cur[Main] \in Coexprs \ thread
    /\ Main \notin thread /\ thread \subseteq async
    /\ alive[Main] = 1
    /\ \A x \in Coexprs \ {Main} : alive[x] = 0 <=> x \notin thread
    /\ running = {Main} \cup Live
    /\ \A p \in thread : cur[p] = p
    /\ \A p \in Live : Len(act[p]) = 1
    /\ \A x \in Coexprs : Len(act[x]) <= MaxActs

\* The way of the main thread from &main to the co-expression it runs: entry
\* slot[i] of the stack of path[i] names the co-expression before it.  The
\* entries are those of all stacks but the ones of live threads.
Way(n, path, slot) ==
    /\ n \in Nat \ {0}
    /\ path \in [1..n -> Coexprs \ thread]
    /\ slot \in [1..n -> Nat]
    /\ path[1] = Main /\ slot[1] = 1 /\ path[n] = cur[Main]
    /\ \A i \in 1..n : slot[i] \in 1..Len(act[path[i]])
    /\ \A i \in 2..n : act[path[i]][slot[i]] = path[i - 1]
    /\ \A i, j \in 1..n : i < j /\ path[i] = path[j] => slot[i] < slot[j]
    /\ \A x \in Coexprs \ Live : \A k \in 1..Len(act[x]) :
           \E i \in 1..n : path[i] = x /\ slot[i] = k

OnWay == \E n, path, slot : Way(n, path, slot)

IInv == TypeOK /\ Shape /\ OnWay /\ NoDangling /\ Live \subseteq Allocated

\* A thread that runs is the main one, or runs its own co-expression.
LEMMA RunningThread ==
    ASSUME IInv, NEW t \in running
    PROVE  /\ t \in Coexprs /\ cur[t] \in Coexprs \cap Allocated
           /\ t = Main \/ (t \in Live /\ cur[t] = t /\ t # Main)
           /\ cur[t] \in thread => t \in Live /\ t # Main /\ cur[t] = t
           /\ cur[t] \notin thread => t = Main
BY CoexprAssumption DEF IInv, Shape, TypeOK, Live, NoDangling

\* The co-expression that the main thread runs has an activator: the last entry
\* of its stack, the end of the way.
LEMMA WayEnd ==
    ASSUME TypeOK, NEW n, NEW path, NEW slot, Way(n, path, slot), Main \notin thread
    PROVE  /\ Len(act[cur[Main]]) \in Nat \ {0}
           /\ slot[n] = Len(act[cur[Main]])
           /\ n = 1 => cur[Main] = Main
           /\ n # 1 => Last(act[cur[Main]]) = path[n - 1]
           /\ \A i \in 1..n : act[path[i]] # <<>>
<1> USE DEF Way
<1>1. n \in 1..n /\ 1 \in 1..n  OBVIOUS
<1>2. cur[Main] \in Coexprs \ thread /\ cur[Main] = path[n]  BY <1>1
<1>3. act[cur[Main]] \in Seq(Coexprs)  BY <1>2 DEF TypeOK
<1>4. Len(act[cur[Main]]) \in Nat \ {0}  BY <1>1, <1>2, <1>3
<1>5. slot[n] = Len(act[cur[Main]])
  <2>1. cur[Main] \notin Live  BY <1>2 DEF Live
  <2>2. PICK i \in 1..n : path[i] = cur[Main] /\ slot[i] = Len(act[cur[Main]])
    <3>1. \A x \in Coexprs \ Live : \A k \in 1..Len(act[x]) :
             \E i \in 1..n : path[i] = x /\ slot[i] = k
      OBVIOUS
    <3>2. cur[Main] \in Coexprs \ Live /\ Len(act[cur[Main]]) \in 1..Len(act[cur[Main]])
      BY <1>2, <1>4, <2>1
    <3> QED  BY ONLY <3>1, <3>2
  <2>3. slot[n] \in 1..Len(act[cur[Main]])  BY <1>1, <1>2
  <2>4. i < n => slot[i] < slot[n]  BY <1>1, <1>2, <2>2
  <2> QED  BY <1>4, <2>2, <2>3, <2>4
<1>6. n # 1 => Last(act[cur[Main]]) = path[n - 1]
  BY <1>1, <1>2, <1>5 DEF Last
<1>7. \A i \in 1..n : act[path[i]] # <<>>  OBVIOUS
<1> QED  BY <1>2, <1>4, <1>5, <1>6, <1>7

\* What a co-expression that is allocated points to is a set of co-expressions.
LEMMA PointsType ==
    ASSUME TypeOK
    PROVE  /\ Allocated \subseteq Coexprs /\ Main \in Allocated
           /\ \A x \in Coexprs : Points(x) \subseteq Coexprs
<1>1. \A x \in Coexprs : refs[x] \subseteq Coexprs /\ ToSet(act[x]) \subseteq Coexprs
  BY DEF TypeOK, ToSet
<1>2. ToSet(stklist) \subseteq Coexprs \ {Main}  BY DEF TypeOK, ToSet
<1> QED  BY <1>1, <1>2, CoexprAssumption DEF Points, Allocated

\* Steps that leave stacks and threads alone leave the way alone.
LEMMA SameWay ==
    ASSUME IInv, UNCHANGED <<act, flags, cur, running>>
    PROVE  Shape' /\ OnWay' /\ Live' = Live
<1>1. PICK n, path, slot : Way(n, path, slot)  BY DEF IInv, OnWay
<1>2. /\ act' = act /\ thread' = thread /\ async' = async /\ alive' = alive
      /\ cur' = cur /\ running' = running
  BY DEF flags
<1>3. Live' = Live  BY <1>2 DEF Live
<1>4. Way(n, path, slot)'  BY <1>1, <1>2, <1>3 DEF Way
<1>5. Shape'  BY <1>2, <1>3 DEF IInv, Shape
<1> QED  BY <1>3, <1>4, <1>5 DEF OnWay

\* References may be added and removed among what is allocated.
LEMMA ReferStep ==
    ASSUME IInv, UNCHANGED <<act, flags, cur, running, result>>, TypeOK',
           Allocated \subseteq Allocated',
           \A x \in Allocated' : refs'[x] \subseteq Allocated',
           \A x \in Allocated' \ Allocated : act[x] = <<>>
    PROVE  IInv'
<1>1. Shape' /\ OnWay' /\ Live' = Live  BY SameWay
<1>2. act' = act /\ cur' = cur /\ running' = running  OBVIOUS
<1>3. \A x \in Allocated' : Points(x)' \subseteq Allocated'
  <2> SUFFICES ASSUME NEW x \in Allocated'  PROVE ToSet(act[x]) \subseteq Allocated'
    BY <1>2 DEF Points
  <2>1. CASE x \in Allocated  BY <2>1 DEF IInv, NoDangling, Points
  <2>2. CASE x \notin Allocated
    <3>1. ToSet(<<>>) = {}  BY DEF ToSet
    <3> QED  BY <2>2, <3>1
  <2> QED  BY <2>1, <2>2
<1>4. NoDangling'  BY <1>2, <1>3 DEF IInv, NoDangling
<1>5. (Live \subseteq Allocated)'  BY <1>1 DEF IInv
<1> QED  BY <1>1, <1>4, <1>5 DEF IInv

\* A set that holds the co-expression that the main thread runs, and with each
\* co-expression its activators, holds the whole way.
LEMMA WayInside ==
    ASSUME TypeOK, NEW n, NEW path, NEW slot, Way(n, path, slot), NEW S,
           cur[Main] \in S, \A x \in S : ToSet(act[x]) \subseteq S
    PROVE  \A i \in 1..n : path[i] \in S
<1> DEFINE T == {k \in 0..(n - 1) : path[n - k] \notin S}
<1>1. n \in Nat \ {0} /\ path[n] \in S  BY DEF Way
<1>2. ASSUME T # {}  PROVE FALSE
  <2>1. T \in SUBSET Nat  BY <1>1
  <2>2. PICK k \in T : \A j \in T : k <= j  BY <1>2, <2>1, LeastNat
  <2>3. k # 0  BY <1>1
  <2>4. k - 1 \in 0..(n - 1) /\ k - 1 \notin T  BY <1>1, <2>2, <2>3
  <2> DEFINE i == n - (k - 1)
  <2>5. path[i] \in S /\ i \in 2..n /\ i - 1 = n - k /\ i \in 1..n
    BY <1>1, <2>3, <2>4
  <2> HIDE DEF i
  <2>6. /\ path[i] \in Coexprs /\ act[path[i]] \in Seq(Coexprs)
        /\ act[path[i]][slot[i]] = path[i - 1]
        /\ slot[i] \in 1..Len(act[path[i]])
    BY <2>5 DEF Way, TypeOK
  <2>7. path[i - 1] \in ToSet(act[path[i]])
    <3>1. DOMAIN act[path[i]] = 1..Len(act[path[i]])  BY <2>6
    <3> QED  BY <2>6, <3>1 DEF ToSet
  <2> QED  BY <2>5, <2>7
<1>3. ASSUME NEW i \in 1..n  PROVE path[i] \in S
  <2>1. n - i \in 0..(n - 1) /\ n - (n - i) = i  BY <1>1
  <2>2. n - i \notin T  BY <1>2
  <2> QED  BY <2>1, <2>2
<1> QED  BY <1>3

\* A co-expression that is not allocated has no activators.
LEMMA FreshStack ==
    ASSUME IInv, NEW x \in Coexprs \ Allocated
    PROVE  act[x] = <<>>
<1>1. PICK n, path, slot : Way(n, path, slot)  BY DEF IInv, OnWay
<1>2. x \notin Live  BY DEF IInv
<1>3. act[x] \in Seq(Coexprs)  BY DEF IInv, TypeOK
<1>4. \A i \in 1..n : path[i] \in Allocated
  <2>1. cur[Main] \in Allocated /\ \A y \in Allocated : ToSet(act[y]) \subseteq Allocated
    BY DEF IInv, Shape, NoDangling, Points
  <2> QED  BY <1>1, <2>1, WayInside DEF IInv
<1>5. Len(act[x]) = 0
  <2>1. ASSUME Len(act[x]) # 0  PROVE FALSE
    <3>1. 1 \in 1..Len(act[x])  BY <1>3, <2>1
    <3>2. PICK i \in 1..n : path[i] = x  BY <1>1, <1>2, <3>1 DEF Way
    <3> QED  BY <1>4, <3>2
  <2> QED  BY <2>1
<1> QED  BY <1>3, <1>5

\* alccoexp() links a new co-expression that nobody waits in.
LEMMA CreateStep ==
    ASSUME IInv, NEW t \in Coexprs, NEW x \in Coexprs, Create(t, x)
    PROVE  IInv'
<1> USE DEF Create
<1>1. TypeOK /\ t \in running /\ x \notin Allocated /\ x # Main
  BY DEF IInv, Allocated
<1>2. cur[t] \in Coexprs \cap Allocated /\ cur[t] # x  BY <1>1, RunningThread
<1>3. stklist \in Seq(Coexprs \ {Main}) /\ stklist' = <<x>> \o stklist
  BY <1>1 DEF TypeOK
<1>4. stklist' \in Seq(Coexprs \ {Main}) /\ ToSet(stklist') = ToSet(stklist) \cup {x}
  BY <1>1, <1>3, ToSetPrepend
<1>5. Allocated' = Allocated \cup {x}  BY <1>4 DEF Allocated
<1>6. PICK locals \in SUBSET refs[cur[t]] :
        refs' = [refs EXCEPT ![cur[t]] = @ \cup {x}, ![x] = locals]
  OBVIOUS
<1>7. refs[cur[t]] \subseteq Allocated /\ refs[cur[t]] \subseteq Coexprs
  BY <1>1, <1>2 DEF IInv, NoDangling, Points, TypeOK
<1>8. refs' \in [Coexprs -> SUBSET Coexprs]  BY <1>1, <1>2, <1>6, <1>7 DEF TypeOK
<1>9. \A y \in Allocated' : refs'[y] \subseteq Allocated'
  <2> SUFFICES ASSUME NEW y \in Allocated'  PROVE refs'[y] \subseteq Allocated'
    OBVIOUS
  <2>1. y \in Coexprs  BY <1>1, <1>5, PointsType
  <2>2. CASE y = x  BY <1>1, <1>5, <1>6, <1>7, <2>2 DEF TypeOK
  <2>3. CASE y # x
    <3>1. refs[y] \subseteq Allocated  BY <1>5, <2>3 DEF IInv, NoDangling, Points
    <3>2. refs'[y] \subseteq refs[y] \cup {x}  BY <1>1, <1>6, <2>1, <2>3 DEF TypeOK
    <3> QED  BY <1>5, <3>1, <3>2
  <2> QED  BY <2>2, <2>3
<1>10. TypeOK'  BY <1>1, <1>4, <1>8 DEF TypeOK, flags
<1>11. act[x] = <<>>  BY <1>1, FreshStack
<1> QED  BY <1>5, <1>9, <1>10, <1>11, ReferStep

\* A variable that is overwritten takes a reference away.
LEMMA ForgetStep ==
    ASSUME IInv, NEW t \in Coexprs, NEW x \in Coexprs, Forget(t, x)
    PROVE  IInv'
<1> USE DEF Forget
<1>1. TypeOK /\ Allocated' = Allocated /\ cur[t] \in Coexprs
  BY RunningThread DEF IInv, Allocated
<1>2. refs' \in [Coexprs -> SUBSET Coexprs] /\ \A y \in Coexprs : refs'[y] \subseteq refs[y]
  BY <1>1 DEF TypeOK
<1>3. \A y \in Allocated' : refs'[y] \subseteq Allocated'
  BY <1>1, <1>2, PointsType DEF IInv, NoDangling, Points
<1>4. TypeOK'  BY <1>1, <1>2 DEF TypeOK, flags
<1> QED  BY <1>1, <1>3, <1>4, ReferStep

\* A message gives a reference away.
LEMMA MessageStep ==
    ASSUME IInv, NEW t \in Coexprs, NEW p \in Coexprs, NEW v \in Coexprs, Message(t, p, v)
    PROVE  IInv'
<1> USE DEF Message
<1>1. TypeOK /\ Allocated' = Allocated /\ cur[t] \in Coexprs \cap Allocated
  BY RunningThread DEF IInv, Allocated
<1>2. \A y \in Allocated : refs[y] \subseteq Allocated
  BY DEF IInv, NoDangling, Points
<1>3. p \in Allocated /\ v \in Allocated  BY <1>1, <1>2
<1>4. /\ refs' \in [Coexprs -> SUBSET Coexprs]
      /\ \A y \in Coexprs : refs'[y] \subseteq refs[y] \cup {v}
  <2>1. PICK q \in Coexprs : refs' = [refs EXCEPT ![q] = @ \cup {v}]  BY <1>1
  <2> QED  BY <1>1, <2>1 DEF TypeOK
<1>5. \A y \in Allocated' : refs'[y] \subseteq Allocated'
  BY <1>1, <1>2, <1>3, <1>4, PointsType
<1>6. TypeOK'  BY <1>1, <1>4 DEF TypeOK, flags
<1> QED  BY <1>1, <1>5, <1>6, ReferStep

\* A new thread runs a co-expression that was not on the way.
LEMMA SpawnStep ==
    ASSUME IInv, NEW t \in Coexprs, NEW x \in Coexprs, Spawn(t, x)
    PROVE  IInv'
<1> USE DEF Spawn, Push
<1>1. TypeOK /\ Shape /\ Allocated' = Allocated /\ t \in running
  BY DEF IInv, Allocated
<1>2. cur[t] \in Coexprs \cap Allocated  BY <1>1, RunningThread
<1>3. x \in Allocated /\ x \notin thread /\ alive[x] = 0 /\ act[x] = <<>> /\ x # Main
  BY <1>1, <1>2 DEF IInv, NoDangling, Points, Shape
<1>4. TypeOK'
  <2>1. act' \in [Coexprs -> Seq(Coexprs)]  BY <1>1, <1>2 DEF TypeOK
  <2>2. alive' \in [Coexprs -> {-8, -1, 0, 1}]  BY <1>1 DEF TypeOK
  <2> QED  BY <1>1, <2>1, <2>2 DEF TypeOK
<1>5. Live' = Live \cup {x}
  BY <1>1, <1>3 DEF Live, TypeOK
<1>6. /\ \A y \in Coexprs \ {x} : act'[y] = act[y]
      /\ act'[x] = <<cur[t]>> /\ Len(act'[x]) = 1 /\ ToSet(act'[x]) = {cur[t]}
  <2>1. act'[x] = Append(<<>>, cur[t])  BY <1>1, <1>3 DEF TypeOK
  <2>2. act'[x] = <<cur[t]>>  BY <2>1
  <2>3. \A y \in Coexprs \ {x} : act'[y] = act[y]  BY <1>1 DEF TypeOK
  <2>4. Len(<<cur[t]>>) = 1 /\ ToSet(<<cur[t]>>) = {cur[t]}  BY ToSetOne
  <2> QED  BY ONLY <2>2, <2>3, <2>4
<1>7. \A y \in Coexprs \ {x} : alive'[y] = alive[y] /\ cur'[y] = cur[y]
  BY <1>1 DEF TypeOK
<1>8. cur'[x] = x /\ alive'[x] = 1  BY <1>1 DEF TypeOK
<1>9. PICK n, path, slot : Way(n, path, slot)  BY DEF IInv, OnWay
<1>10. cur[Main] # x /\ \A i \in 1..n : path[i] # x
  <2>1. n \in 1..n /\ path[n] = cur[Main]  BY <1>9 DEF Way
  <2> QED  BY <1>1, <1>3, <1>9, <2>1, WayEnd DEF Shape
<1>11. Shape'
  <2>1. Main \in Coexprs /\ MaxActs \in Nat \ {0}  BY CoexprAssumption
  <2>2. cur'[Main] \in Coexprs \ thread' /\ Main \notin thread' /\ alive'[Main] = 1
    BY <1>1, <1>3, <1>7, <1>10, <2>1 DEF Shape
  <2>3. thread' \subseteq async' /\ running' = {Main} \cup Live'
    BY <1>1, <1>5 DEF Shape
  <2>4. \A y \in Coexprs \ {Main} : alive'[y] = 0 <=> y \notin thread'
    BY <1>1, <1>7, <1>8 DEF Shape
  <2>5. \A p \in thread' : cur'[p] = p  BY <1>1, <1>4, <1>7, <1>8 DEF Shape, TypeOK
  <2>6. \A p \in Live' : Len(act'[p]) = 1
    BY <1>1, <1>5, <1>6 DEF Shape, Live, TypeOK
  <2>7. \A y \in Coexprs : Len(act'[y]) <= MaxActs  BY <1>1, <1>6, <2>1 DEF Shape
  <2> QED  BY <2>2, <2>3, <2>4, <2>5, <2>6, <2>7 DEF Shape
<1>12. Way(n, path, slot)'
  <2>1. \A i \in 1..n : path[i] \in Coexprs \ {x} /\ path[i] \notin thread'
    BY <1>9, <1>10 DEF Way
  <2>2. n \in Nat \ {0} /\ path \in [1..n -> Coexprs \ thread'] /\ slot \in [1..n -> Nat]
    BY <1>9, <2>1 DEF Way
  <2>3. path[1] = Main /\ slot[1] = 1 /\ path[n] = cur'[Main]
    BY <1>3, <1>7, <1>9, CoexprAssumption DEF Way
  <2>4. \A i \in 1..n : act'[path[i]] = act[path[i]]  BY <1>6, <2>1
  <2>5. \A i \in 1..n : slot[i] \in 1..Len(act'[path[i]])
    BY <1>9, <2>4 DEF Way
  <2>6. \A i \in 2..n : act'[path[i]][slot[i]] = path[i - 1]
    <3>1. \A i \in 2..n : i \in 1..n  BY <2>2
    <3> QED  BY <1>9, <2>4, <3>1 DEF Way
  <2>7. \A i, j \in 1..n : i < j /\ path[i] = path[j] => slot[i] < slot[j]
    BY <1>9 DEF Way
  <2>8. \A y \in Coexprs \ Live' : y \in Coexprs \ Live /\ act'[y] = act[y]
    BY <1>5, <1>6
  <2>9. \A y \in Coexprs \ Live' : \A k \in 1..Len(act'[y]) :
           \E i \in 1..n : path[i] = y /\ slot[i] = k
    <3>1. \A y \in Coexprs \ Live : \A k \in 1..Len(act[y]) :
             \E i \in 1..n : path[i] = y /\ slot[i] = k
      BY <1>9 DEF Way
    <3> QED  BY ONLY <2>8, <3>1
  <2> QED  BY <2>2, <2>3, <2>5, <2>6, <2>7, <2>9 DEF Way
<1>13. NoDangling'
  <2>1. \A p \in running' : cur'[p] \in Allocated'
    BY <1>1, <1>3, <1>4, <1>7, <1>8 DEF IInv, NoDangling, TypeOK
  <2>2. ASSUME NEW y \in Allocated'  PROVE (refs[y] \cup ToSet(act'[y])) \subseteq Allocated
    <3>1. y \in Coexprs /\ y \in Allocated /\ refs[y] \subseteq Allocated
          /\ ToSet(act[y]) \subseteq Allocated
      BY <1>1, PointsType DEF IInv, NoDangling, Points
    <3> QED  BY <1>2, <1>6, <3>1
  <2> QED  BY <1>1, <2>1, <2>2 DEF NoDangling, Points
<1>14. (Live \subseteq Allocated)'  BY <1>1, <1>3, <1>5 DEF IInv
<1> QED  BY <1>4, <1>11, <1>12, <1>13, <1>14 DEF IInv, OnWay

\* A thread that ends was not on the way: the main one does not end here.
LEMMA ThreadEndStep ==
    ASSUME IInv, NEW t \in Coexprs, ThreadEnd(t)
    PROVE  IInv'
<1> USE DEF ThreadEnd, Pop
<1>1. TypeOK /\ Shape /\ Allocated' = Allocated /\ t \in running /\ cur[t] \in thread
  BY DEF IInv, Allocated
<1>2. t \in Live /\ t # Main /\ cur[t] = t  BY <1>1, RunningThread
<1>3. act[t] \in Seq(Coexprs) /\ act[t] # <<>> /\ Len(act[t]) = 1
  BY <1>1, <1>2 DEF TypeOK, Shape
<1>4. /\ \A y \in Coexprs \ {t} : act'[y] = act[y] /\ alive'[y] = alive[y]
      /\ act'[t] = Front(act[t]) /\ alive'[t] = -1
  BY <1>1, <1>2 DEF TypeOK
<1>5. /\ act'[t] \in Seq(Coexprs) /\ Len(act'[t]) = 0
      /\ ToSet(act'[t]) \subseteq ToSet(act[t])
  BY <1>3, <1>4, FrontOf
<1>6. TypeOK'
  <2>1. act' \in [Coexprs -> Seq(Coexprs)]  BY <1>1, <1>2, <1>4, <1>5 DEF TypeOK
  <2>2. alive' \in [Coexprs -> {-8, -1, 0, 1}]  BY <1>1 DEF TypeOK
  <2>3. result' \in [Coexprs -> {"none", "outbox", "activator"}]  BY <1>1 DEF TypeOK
  <2>4. running' \subseteq Coexprs  BY <1>1 DEF TypeOK
  <2> QED  BY <1>1, <2>1, <2>2, <2>3, <2>4 DEF TypeOK
<1>7. Live' = Live \ {t}  BY <1>1, <1>4 DEF Live, TypeOK
<1>8. Shape'
  <2>1. Main \in Coexprs /\ alive'[Main] = 1  BY <1>1, <1>2, <1>4, CoexprAssumption DEF Shape
  <2>2. running' = {Main} \cup Live'  BY <1>1, <1>2, <1>7 DEF Shape
  <2>3. \A y \in Coexprs \ {Main} : alive'[y] = 0 <=> y \notin thread
    BY <1>1, <1>2, <1>4 DEF Shape
  <2>4. \A p \in Live' : Len(act'[p]) = 1
    BY <1>1, <1>4, <1>7 DEF Shape, Live, TypeOK
  <2>5. \A y \in Coexprs : Len(act'[y]) <= MaxActs
    BY <1>1, <1>4, <1>5, CoexprAssumption DEF Shape
  <2> QED  BY <1>1, <2>1, <2>2, <2>3, <2>4, <2>5 DEF Shape
<1>9. PICK n, path, slot : Way(n, path, slot)  BY DEF IInv, OnWay
<1>10. Way(n, path, slot)'
  <2>1. /\ n \in Nat \ {0} /\ path \in [1..n -> Coexprs \ thread'] /\ slot \in [1..n -> Nat]
        /\ path[1] = Main /\ slot[1] = 1 /\ path[n] = cur'[Main]
        /\ \A i, j \in 1..n : i < j /\ path[i] = path[j] => slot[i] < slot[j]
    BY <1>9 DEF Way
  <2>2. \A i \in 1..n : act'[path[i]] = act[path[i]]  BY <1>1, <1>2, <1>4, <2>1
  <2>3. \A i \in 1..n : slot[i] \in 1..Len(act'[path[i]])
    BY <1>9, <2>2 DEF Way
  <2>4. \A i \in 2..n : act'[path[i]][slot[i]] = path[i - 1]
    <3>1. \A i \in 2..n : i \in 1..n  BY <2>1
    <3> QED  BY <1>9, <2>2, <3>1 DEF Way
  <2>5. \A y \in Coexprs \ Live' : \A k \in 1..Len(act'[y]) :
           \E i \in 1..n : path[i] = y /\ slot[i] = k
    <3>1. \A y \in Coexprs \ Live : \A k \in 1..Len(act[y]) :
             \E i \in 1..n : path[i] = y /\ slot[i] = k
      BY <1>9 DEF Way
    <3>2. 1..Len(act'[t]) = {}  BY <1>5
    <3>3. \A y \in Coexprs \ Live' : y = t \/ (y \in Coexprs \ Live /\ act'[y] = act[y])
      BY <1>4, <1>7
    <3> QED  BY ONLY <3>1, <3>2, <3>3
  <2> QED  BY <2>1, <2>3, <2>4, <2>5 DEF Way
<1>11. NoDangling'
  <2>1. \A p \in running' : cur'[p] \in Allocated'
    BY <1>1 DEF IInv, NoDangling
  <2>2. ASSUME NEW y \in Allocated'  PROVE (refs[y] \cup ToSet(act'[y])) \subseteq Allocated
    <3>1. y \in Coexprs /\ y \in Allocated /\ refs[y] \subseteq Allocated
          /\ ToSet(act[y]) \subseteq Allocated
      BY <1>1, PointsType DEF IInv, NoDangling, Points
    <3> QED  BY <1>4, <1>5, <3>1
  <2> QED  BY <1>1, <2>1, <2>2 DEF NoDangling, Points
<1>12. (Live \subseteq Allocated)'  BY <1>1, <1>7 DEF IInv
<1> QED  BY <1>6, <1>8, <1>10, <1>11, <1>12 DEF IInv, OnWay

\* co_chng() of the main thread.
LEMMA SwitchShape ==
    ASSUME Shape, TypeOK, NEW x \in Coexprs \ thread, Switch(Main, cur[Main], x),
           act' \in [Coexprs -> Seq(Coexprs)],
           \A p \in thread : act'[p] = act[p],
           \A y \in Coexprs : Len(act'[y]) <= MaxActs,
           UNCHANGED <<stklist, thread, alive, running, result>>
    PROVE  /\ Shape' /\ Live' = Live /\ Allocated' = Allocated /\ cur'[Main] = x
           /\ \A p \in Coexprs \ {Main} : cur'[p] = cur[p]
           /\ cur' \in [Coexprs -> Coexprs \cup {None}] /\ async' \subseteq Coexprs
<1> USE DEF Switch
<1>1. Main \in Coexprs  BY CoexprAssumption
<1>2. /\ cur'[Main] = x /\ \A p \in Coexprs \ {Main} : cur'[p] = cur[p]
      /\ cur' \in [Coexprs -> Coexprs \cup {None}] /\ async' \subseteq Coexprs
  BY <1>1 DEF TypeOK
<1>3. Live' = Live /\ Allocated' = Allocated  BY DEF Live, Allocated
<1>4. thread' \subseteq async'  BY DEF Shape
<1>5. \A p \in thread' : cur'[p] = p  BY <1>2 DEF Shape, TypeOK
<1>6. \A p \in Live' : Len(act'[p]) = 1  BY <1>3 DEF Shape, Live
<1>7. Shape'  BY <1>2, <1>3, <1>4, <1>5, <1>6 DEF Shape
<1> QED  BY <1>2, <1>3, <1>7

\* A co-expression switch hands a value over and moves an activator.
LEMMA SwitchReferences ==
    ASSUME IInv, NEW x \in Coexprs \cap Allocated, NEW V \in Values(refs[cur[Main]]),
           refs' = [refs EXCEPT ![x] = @ \cup V], act' \in [Coexprs -> Seq(Coexprs)],
           \A y \in Coexprs : ToSet(act'[y]) \subseteq ToSet(act[y]) \cup {cur[Main]},
           Allocated' = Allocated, running' = running, cur'[Main] = x,
           \A p \in Coexprs \ {Main} : cur'[p] = cur[p]
    PROVE  NoDangling' /\ refs' \in [Coexprs -> SUBSET Coexprs]
<1>1. TypeOK /\ Main \in running /\ cur[Main] \in Coexprs \cap Allocated
  BY DEF IInv, Shape, NoDangling
<1>2. V \subseteq refs[cur[Main]]  BY DEF Values
<1>3. \A y \in Allocated : /\ y \in Coexprs /\ refs[y] \subseteq Allocated
                           /\ ToSet(act[y]) \subseteq Allocated
  BY <1>1, PointsType DEF IInv, NoDangling, Points
<1>4. refs' \in [Coexprs -> SUBSET Coexprs]  BY <1>1, <1>2 DEF TypeOK
<1>5. \A y \in Coexprs : refs'[y] \subseteq refs[y] \cup V  BY <1>1 DEF TypeOK
<1>6. \A y \in Allocated' : Points(y)' \subseteq Allocated'
  BY <1>1, <1>2, <1>3, <1>5 DEF Points
<1>7. \A p \in running' : cur'[p] \in Allocated'
  BY <1>1 DEF IInv, NoDangling, TypeOK
<1> QED  BY <1>4, <1>6, <1>7 DEF NoDangling

\* A return goes back to the activator on top of the stack: one step down the way.
LEMMA ReturnStep ==
    ASSUME IInv, NEW t \in Coexprs, Return(t)
    PROVE  IInv'
<1> DEFINE c == cur[Main]
           x == Last(act[c])
<1>1. TypeOK /\ Shape /\ t = Main
  BY RunningThread DEF Return, IInv
<1>2. /\ c \in Coexprs \ thread /\ c # Main /\ act[c] # <<>> /\ Pop(c) /\ Switch(Main, c, x)
      /\ UNCHANGED <<stklist, thread, alive, running, result>>
  BY <1>1 DEF Return, Shape
<1>3. PICK V \in Values(refs[c]) : refs' = [refs EXCEPT ![x] = @ \cup V]
  BY <1>1 DEF Return
<1>4. PICK n, path, slot : Way(n, path, slot)  BY DEF IInv, OnWay
<1>5. n \in Nat \ {0} /\ n # 1 /\ x = path[n - 1] /\ slot[n] = Len(act[c]) /\ path[n] = c
  <2>1. Main \notin thread  BY <1>1 DEF Shape
  <2>2. /\ slot[n] = Len(act[c]) /\ (n = 1 => c = Main)
        /\ n # 1 => x = path[n - 1]
    BY <1>1, <1>4, <2>1, WayEnd
  <2>3. n \in Nat \ {0} /\ path[n] = c  BY <1>4 DEF Way
  <2> QED  BY ONLY <1>2, <2>2, <2>3
<1> DEFINE m == n - 1
<1>6. /\ m \in Nat \ {0} /\ m \in 1..n /\ m + 1 = n
      /\ \A i \in 1..m : i \in 1..n /\ i < n
      /\ \A i \in 1..n : i \in 1..m \/ i = n
  BY <1>5
<1>7. x \in Coexprs \ thread /\ x = path[m]  BY <1>4, <1>5, <1>6 DEF Way
<1>8. act[c] \in Seq(Coexprs) /\ \A y \in Coexprs : Len(act[y]) \in Nat
  BY <1>1, <1>2 DEF TypeOK
<1>9. /\ act'[c] = Front(act[c])
      /\ \A y \in Coexprs \ {c} : act'[y] = act[y]
  BY <1>1, <1>2 DEF Pop, TypeOK
<1>10. /\ act'[c] \in Seq(Coexprs) /\ Len(act'[c]) = Len(act[c]) - 1
       /\ \A k \in 1..(Len(act[c]) - 1) : act'[c][k] = act[c][k]
       /\ ToSet(act'[c]) \subseteq ToSet(act[c])
       /\ x \in ToSet(act[c])
  <2>1. /\ Front(act[c]) \in Seq(Coexprs) /\ Len(Front(act[c])) = Len(act[c]) - 1
        /\ \A k \in 1..(Len(act[c]) - 1) : Front(act[c])[k] = act[c][k]
        /\ ToSet(Front(act[c])) \subseteq ToSet(act[c])
        /\ Last(act[c]) \in ToSet(act[c])
    <3> HIDE DEF c, x
    <3> QED  BY <1>2, <1>8, FrontOf
  <2> HIDE DEF c
  <2> QED  BY <1>9, <2>1
<1> HIDE DEF c, x, m
<1>11. act' \in [Coexprs -> Seq(Coexprs)]
  BY <1>1, <1>2, <1>9, <1>10 DEF TypeOK, Pop
<1>12. \A y \in Coexprs : Len(act'[y]) <= MaxActs
  BY <1>1, <1>2, <1>8, <1>9, <1>10, CoexprAssumption DEF Shape
<1>13. \A p \in thread : act'[p] = act[p]  BY <1>1, <1>2, <1>9 DEF TypeOK
<1>14. /\ Shape' /\ Live' = Live /\ Allocated' = Allocated /\ cur'[Main] = x
       /\ \A p \in Coexprs \ {Main} : cur'[p] = cur[p]
       /\ cur' \in [Coexprs -> Coexprs \cup {None}] /\ async' \subseteq Coexprs
  BY <1>1, <1>2, <1>7, <1>11, <1>12, <1>13, SwitchShape DEF c
<1>15. x \in Allocated
  BY <1>1, <1>10 DEF IInv, NoDangling, Shape, Points, c
<1>16. \A y \in Coexprs : ToSet(act'[y]) \subseteq ToSet(act[y]) \cup {cur[Main]}
  BY <1>9, <1>10
<1>17. NoDangling' /\ refs' \in [Coexprs -> SUBSET Coexprs]
  BY <1>2, <1>3, <1>7, <1>11, <1>14, <1>15, <1>16, SwitchReferences DEF c
<1>18. TypeOK'  BY <1>1, <1>2, <1>11, <1>14, <1>17 DEF TypeOK
<1> DEFINE q == [i \in 1..m |-> path[i]]
           r == [i \in 1..m |-> slot[i]]
<1>19. Way(m, q, r)'
  <2>1. /\ path \in [1..n -> Coexprs \ thread] /\ slot \in [1..n -> Nat]
        /\ path[1] = Main /\ slot[1] = 1
        /\ \A i \in 1..n : slot[i] \in 1..Len(act[path[i]])
        /\ \A i \in 2..n : act[path[i]][slot[i]] = path[i - 1]
        /\ \A i, j \in 1..n : i < j /\ path[i] = path[j] => slot[i] < slot[j]
        /\ \A y \in Coexprs \ Live : \A k \in 1..Len(act[y]) :
             \E i \in 1..n : path[i] = y /\ slot[i] = k
    BY <1>4 DEF Way
  <2>2. /\ q \in [1..m -> Coexprs \ thread'] /\ r \in [1..m -> Nat]
        /\ \A i \in 1..m : q[i] = path[i] /\ r[i] = slot[i]
    BY <1>2, <1>6, <2>1
  <2>3. 1 \in 1..m /\ m \in 1..m  BY <1>6
  <2> HIDE DEF q, r
  <2>4. q[1] = Main /\ r[1] = 1 /\ q[m] = cur'[Main]  BY <1>7, <1>14, <2>1, <2>2, <2>3
  <2>5. ASSUME NEW i \in 1..m
        PROVE  /\ slot[i] \in 1..Len(act'[path[i]])
               /\ act'[path[i]][slot[i]] = act[path[i]][slot[i]]
    <3>1. i \in 1..n /\ i < n /\ slot[i] \in 1..Len(act[path[i]]) /\ path[i] \in Coexprs
      BY <1>6, <2>1
    <3>2. CASE path[i] = c
      <4>1. n \in 1..n /\ slot[i] < slot[n]  BY <1>5, <2>1, <3>1, <3>2
      <4>2. slot[i] \in 1..(Len(act[c]) - 1)
        BY <1>2, <1>5, <1>8, <3>1, <3>2, <4>1
      <4> QED  BY <1>10, <3>2, <4>2
    <3>3. CASE path[i] # c  BY <1>9, <3>1, <3>3
    <3> QED  BY <3>2, <3>3
  <2>6. \A i \in 1..m : r[i] \in 1..Len(act'[q[i]])  BY <2>2, <2>5
  <2>7. \A i \in 2..m : act'[q[i]][r[i]] = q[i - 1]
    <3> SUFFICES ASSUME NEW i \in 2..m  PROVE act'[q[i]][r[i]] = q[i - 1]  OBVIOUS
    <3>1. i \in 1..m /\ i \in 2..n /\ i - 1 \in 1..m  BY <1>6
    <3> QED  BY <2>1, <2>2, <2>5, <3>1
  <2>8. \A i, j \in 1..m : i < j /\ q[i] = q[j] => r[i] < r[j]
    BY <1>6, <2>1, <2>2
  <2>9. ASSUME NEW y \in Coexprs \ Live', NEW k \in 1..Len(act'[y])
        PROVE  \E i \in 1..m : q[i] = y /\ r[i] = k
    <3>1. y \in Coexprs \ Live /\ k \in 1..Len(act[y]) /\ ~(y = c /\ k = Len(act[c]))
      BY <1>2, <1>8, <1>9, <1>10, <1>14
    <3>2. PICK i \in 1..n : path[i] = y /\ slot[i] = k  BY <2>1, <3>1
    <3>3. i # n  BY <1>5, <3>1, <3>2
    <3>4. i \in 1..m  BY <1>6, <3>3
    <3> QED  BY <2>2, <3>2, <3>4
  <2> QED  BY <1>6, <2>2, <2>4, <2>6, <2>7, <2>8, <2>9 DEF Way
<1>20. (Live \subseteq Allocated)'  BY <1>14 DEF IInv
<1> QED  BY <1>14, <1>17, <1>18, <1>19, <1>20 DEF IInv, OnWay

\* An activation goes one step further on the way.
LEMMA ActivateStep ==
    ASSUME IInv, Activators \subseteq {Main}, NEW t \in Coexprs, NEW x \in Coexprs,
           Activate(t, x)
    PROVE  IInv'
<1> DEFINE c == cur[Main]
<1>1. TypeOK /\ Shape /\ t = Main  BY DEF Activate, IInv
<1>2. /\ Main \in running /\ c \in Coexprs \ thread /\ x \in refs[c] \cup {Main, c}
      /\ x \notin thread \cap async /\ Len(act[x]) < MaxActs
      /\ Push(x, c) /\ Switch(Main, c, x)
      /\ UNCHANGED <<stklist, thread, alive, running, result>>
  BY <1>1 DEF Activate, Shape
<1>3. PICK V \in Values(refs[c]) : refs' = [refs EXCEPT ![x] = @ \cup V]
  BY <1>1 DEF Activate
<1>4. PICK n, path, slot : Way(n, path, slot)  BY DEF IInv, OnWay
<1>5. x \in Coexprs \ thread /\ x \in Allocated
  BY <1>1, <1>2, PointsType DEF IInv, NoDangling, Points, Shape
<1> DEFINE m == n + 1
<1>6. /\ n \in Nat \ {0} /\ m \in Nat \ {0} /\ n \in 1..m /\ n \in 1..n
      /\ \A i \in 1..n : i \in 1..m /\ i < m
      /\ \A i \in 1..m : i \in 1..n \/ i = m
  BY <1>4 DEF Way
<1>7. act[x] \in Seq(Coexprs) /\ Len(act[x]) \in Nat  BY <1>1 DEF TypeOK
<1>8. act'[x] = Append(act[x], c) /\ \A y \in Coexprs \ {x} : act'[y] = act[y]
  BY <1>1, <1>2 DEF Push, TypeOK
<1> PICK l : l = Len(act[x]) + 1  OBVIOUS
<1>9. /\ act'[x] \in Seq(Coexprs) /\ Len(act'[x]) = l
      /\ \A k \in 1..Len(act[x]) : act'[x][k] = act[x][k]
      /\ act'[x][l] = c /\ ToSet(act'[x]) = ToSet(act[x]) \cup {c}
  <2>1. c \in Coexprs  BY <1>2
  <2> HIDE DEF c
  <2> QED  BY <1>7, <1>8, <2>1, AppendProperties, ToSetAppend
<1>10. /\ l \in Nat \ {0} /\ l <= MaxActs /\ 1..l = (1..Len(act[x])) \cup {l}
       /\ \A k \in 1..Len(act[x]) : k < l
  BY <1>2, <1>7, CoexprAssumption
<1> HIDE DEF c, m
<1>11. act' \in [Coexprs -> Seq(Coexprs)]
  BY <1>1, <1>2, <1>8, <1>9 DEF TypeOK, Push
<1>12. \A y \in Coexprs : Len(act'[y]) <= MaxActs
  BY <1>1, <1>8, <1>9, <1>10 DEF Shape
<1>13. \A p \in thread : act'[p] = act[p]  BY <1>1, <1>5, <1>8 DEF TypeOK
<1>14. /\ Shape' /\ Live' = Live /\ Allocated' = Allocated /\ cur'[Main] = x
       /\ \A p \in Coexprs \ {Main} : cur'[p] = cur[p]
       /\ cur' \in [Coexprs -> Coexprs \cup {None}] /\ async' \subseteq Coexprs
  BY <1>1, <1>2, <1>5, <1>11, <1>12, <1>13, SwitchShape DEF c
<1>15. \A y \in Coexprs : ToSet(act'[y]) \subseteq ToSet(act[y]) \cup {cur[Main]}
  BY <1>8, <1>9 DEF c
<1>16. NoDangling' /\ refs' \in [Coexprs -> SUBSET Coexprs]
  BY <1>2, <1>3, <1>5, <1>11, <1>14, <1>15, SwitchReferences DEF c
<1>17. TypeOK'  BY <1>1, <1>2, <1>11, <1>14, <1>16 DEF TypeOK
<1> DEFINE q == [i \in 1..m |-> IF i \in 1..n THEN path[i] ELSE x]
           r == [i \in 1..m |-> IF i \in 1..n THEN slot[i] ELSE l]
<1>18. Way(m, q, r)'
  <2>1. /\ path \in [1..n -> Coexprs \ thread] /\ slot \in [1..n -> Nat]
        /\ path[1] = Main /\ slot[1] = 1 /\ path[n] = c
        /\ \A i \in 1..n : slot[i] \in 1..Len(act[path[i]])
        /\ \A i \in 2..n : act[path[i]][slot[i]] = path[i - 1]
        /\ \A i, j \in 1..n : i < j /\ path[i] = path[j] => slot[i] < slot[j]
        /\ \A y \in Coexprs \ Live : \A k \in 1..Len(act[y]) :
             \E i \in 1..n : path[i] = y /\ slot[i] = k
    BY <1>4 DEF Way, c
  <2>2. m \in 1..m /\ m \notin 1..n /\ 1 \in 1..n  BY <1>6 DEF m
  <2>3. /\ q \in [1..m -> Coexprs \ thread'] /\ r \in [1..m -> Nat]
        /\ \A i \in 1..n : q[i] = path[i] /\ r[i] = slot[i]
        /\ q[m] = x /\ r[m] = l
    BY <1>2, <1>5, <1>6, <1>10, <2>1, <2>2
  <2> HIDE DEF q, r
  <2>4. q[1] = Main /\ r[1] = 1 /\ q[m] = cur'[Main]  BY <1>14, <2>1, <2>2, <2>3
  <2>5. ASSUME NEW i \in 1..n
        PROVE  /\ slot[i] \in 1..Len(act'[path[i]])
               /\ act'[path[i]][slot[i]] = act[path[i]][slot[i]]
    <3>1. slot[i] \in 1..Len(act[path[i]]) /\ path[i] \in Coexprs  BY <2>1
    <3>2. CASE path[i] = x  BY <1>9, <1>10, <3>1, <3>2
    <3>3. CASE path[i] # x  BY <1>8, <3>1, <3>3
    <3> QED  BY <3>2, <3>3
  <2>6. \A i \in 1..m : r[i] \in 1..Len(act'[q[i]])
    <3>1. r[m] \in 1..Len(act'[q[m]])  BY <1>9, <1>10, <2>3
    <3> QED  BY <1>6, <2>3, <2>5, <3>1
  <2>7. \A i \in 2..m : act'[q[i]][r[i]] = q[i - 1]
    <3>1. ASSUME NEW i \in 2..m, i \in 1..n  PROVE act'[q[i]][r[i]] = q[i - 1]
      <4>1. i \in 2..n /\ i - 1 \in 1..n  BY <1>6, <3>1
      <4> QED  BY <2>1, <2>3, <2>5, <3>1, <4>1
    <3>2. act'[q[m]][r[m]] = q[m - 1]
      <4>1. m - 1 = n  BY <1>6 DEF m
      <4> QED  BY <1>6, <1>9, <2>1, <2>3, <4>1
    <3>3. \A i \in 2..m : i \in 1..n \/ i = m  BY <1>6 DEF m
    <3> QED  BY <3>1, <3>2, <3>3
  <2>8. ASSUME NEW i \in 1..m, NEW j \in 1..m, i < j, q[i] = q[j]  PROVE r[i] < r[j]
    <3>1. i \in 1..n  BY <1>6, <2>8 DEF m
    <3>2. CASE j \in 1..n  BY <2>1, <2>3, <2>8, <3>1, <3>2
    <3>3. CASE j = m
      <4>1. path[i] = x  BY <2>3, <2>8, <3>1, <3>3
      <4>2. slot[i] \in 1..Len(act[x])  BY <2>1, <3>1, <4>1
      <4> QED  BY <1>10, <2>3, <3>1, <3>3, <4>2
    <3> QED  BY <1>6, <3>2, <3>3
  <2>9. ASSUME NEW y \in Coexprs \ Live', NEW k \in 1..Len(act'[y])
        PROVE  \E i \in 1..m : q[i] = y /\ r[i] = k
    <3>1. CASE y = x /\ k = l  BY <2>2, <2>3, <3>1
    <3>2. CASE ~(y = x /\ k = l)
      <4>1. y \in Coexprs \ Live /\ k \in 1..Len(act[y])
        BY <1>8, <1>9, <1>10, <1>14, <3>2
      <4>2. PICK i \in 1..n : path[i] = y /\ slot[i] = k  BY <2>1, <4>1
      <4> QED  BY <1>6, <2>3, <4>2
    <3> QED  BY <3>1, <3>2
  <2>10. \A i, j \in 1..m : i < j /\ q[i] = q[j] => r[i] < r[j]  BY <2>8
  <2>11. \A y \in Coexprs \ Live' : \A k \in 1..Len(act'[y]) :
            \E i \in 1..m : q[i] = y /\ r[i] = k
    BY <2>9
  <2>12. /\ m \in Nat \ {0}
         /\ q \in [1..m -> Coexprs \ thread'] /\ r \in [1..m -> Nat]
    BY <1>6, <2>3
  <2> QED  BY ONLY <2>4, <2>6, <2>7, <2>10, <2>11, <2>12 DEF Way
<1>19. (Live \subseteq Allocated)'  BY <1>14 DEF IInv
<1> QED  BY <1>14, <1>16, <1>17, <1>18, <1>19 DEF IInv, OnWay

\* A collection frees nothing on the way and nothing that a thread runs.
LEMMA CollectStep ==
    ASSUME IInv, NEW t \in Coexprs, Collect(t)
    PROVE  IInv'
<1> DEFINE marked == Marked(t)
           garbage == {i \in DOMAIN stklist : stklist[i] \notin marked}
           live == {i \in garbage : stklist[i] \in thread /\ alive[stklist[i]] = 1}
           freed == {stklist[i] : i \in {j \in garbage : \A k \in live : j < k}}
           caught == {stklist[i] : i \in {j \in live : \A k \in live : j <= k}}
<1>1. TypeOK /\ Shape /\ t \in running /\ NoDangling /\ Live \subseteq Allocated
  BY DEF Collect, IInv
<1>2. /\ stklist' = Without(stklist, freed \cup caught)
      /\ refs' = [x \in Coexprs |-> IF x \in freed THEN {} ELSE refs[x]]
      /\ act' = [x \in Coexprs |-> IF x \in freed THEN <<>> ELSE act[x]]
      /\ thread' = thread \ freed
      /\ async' = async \ freed
      /\ alive' = [x \in Coexprs |-> IF x \in freed THEN 0
                                     ELSE IF x \in caught THEN -8 ELSE alive[x]]
      /\ result' = [x \in Coexprs |-> IF x \in freed THEN "none" ELSE result[x]]
      /\ cur' = [x \in Coexprs |-> IF x \in freed THEN None ELSE cur[x]]
      /\ running' = IF live = {} THEN running ELSE {}
  BY DEF Collect
<1>3. cur[t] \in Coexprs /\ Main \in Coexprs  BY <1>1, RunningThread, CoexprAssumption
<1>4. /\ {Main, cur[t], cur[Main]} \cup {cur[p] : p \in {q \in Coexprs : cur[q] \in thread}}
           \subseteq marked
      /\ \A x \in marked : Points(x) \subseteq marked
  <2>1. Roots(t) \subseteq Coexprs  BY <1>1, <1>3 DEF Roots, Shape, TypeOK
  <2>2. \A x \in Coexprs : Points(x) \subseteq Coexprs  BY <1>1, PointsType
  <2>3. Roots(t) \subseteq Marked(t) /\ \A x \in Marked(t) : Points(x) \subseteq Marked(t)
    BY <2>1, <2>2, MarkClosed
  <2> QED  BY <2>3 DEF Roots
<1> HIDE DEF marked
<1>5. thread \subseteq marked
  <2>1. ASSUME NEW p \in thread  PROVE p \in marked
    <3>1. cur[p] = p /\ p \in Coexprs  BY <1>1 DEF Shape, TypeOK
    <3>2. p \in {q \in Coexprs : cur[q] \in thread}  BY <3>1
    <3> QED  BY <1>4, <3>1, <3>2
  <2> QED  BY <2>1
<1>6. live = {} /\ caught = {}  BY <1>5
<1>7. stklist \in Seq(Coexprs \ {Main}) /\ ToSet(stklist) = {stklist[i] : i \in DOMAIN stklist}
  BY <1>1 DEF TypeOK, ToSet
<1>8. freed = ToSet(stklist) \ marked
  <2>1. freed = {stklist[i] : i \in garbage}  BY <1>6
  <2> QED  BY <1>7, <2>1
<1>9. /\ running' = running
      /\ freed \cup caught = freed
      /\ alive' = [x \in Coexprs |-> IF x \in freed THEN 0 ELSE alive[x]]
  BY <1>2, <1>6
<1> HIDE DEF freed, caught, live, garbage
<1>10. /\ stklist' \in Seq(Coexprs \ {Main})
       /\ ToSet(stklist') = ToSet(stklist) \ freed
  BY <1>2, <1>7, <1>9, WithoutSet
<1>11. Allocated' = Allocated \ freed /\ Main \notin freed
  BY <1>4, <1>8, <1>10 DEF Allocated
<1>12. /\ thread' = thread /\ Live' = Live
       /\ \A x \in Coexprs \ freed : /\ refs'[x] = refs[x] /\ act'[x] = act[x]
                                     /\ alive'[x] = alive[x] /\ cur'[x] = cur[x]
       /\ \A x \in freed : x \in Coexprs => act'[x] = <<>> /\ alive'[x] = 0
  <2>1. thread \cap freed = {}  BY <1>5, <1>8
  <2>2. \A x \in Coexprs \ freed : /\ refs'[x] = refs[x] /\ act'[x] = act[x]
                                   /\ alive'[x] = alive[x] /\ cur'[x] = cur[x]
    BY <1>2, <1>9
  <2>3. thread' = thread  BY <1>2, <2>1
  <2>4. Live' = Live  BY <1>1, <2>1, <2>2, <2>3 DEF Live, TypeOK
  <2>5. \A x \in freed : x \in Coexprs => act'[x] = <<>> /\ alive'[x] = 0  BY <1>2, <1>9
  <2> QED  BY <2>2, <2>3, <2>4, <2>5
<1>13. TypeOK'
  <2>1. refs' \in [Coexprs -> SUBSET Coexprs]  BY <1>1, <1>2 DEF TypeOK
  <2>2. act' \in [Coexprs -> Seq(Coexprs)]
    <3>1. <<>> \in Seq(Coexprs)  OBVIOUS
    <3> QED  BY <1>1, <1>2, <3>1 DEF TypeOK
  <2>3. alive' \in [Coexprs -> {-8, -1, 0, 1}]  BY <1>1, <1>9 DEF TypeOK
  <2>4. cur' \in [Coexprs -> Coexprs \cup {None}]  BY <1>1, <1>2 DEF TypeOK
  <2>5. result' \in [Coexprs -> {"none", "outbox", "activator"}]  BY <1>1, <1>2 DEF TypeOK
  <2>6. thread' \subseteq Coexprs /\ async' \subseteq Coexprs /\ running' \subseteq Coexprs
    BY <1>1, <1>2, <1>9 DEF TypeOK
  <2> QED  BY <1>10, <2>1, <2>2, <2>3, <2>4, <2>5, <2>6 DEF TypeOK
<1>14. PICK n, path, slot : Way(n, path, slot)  BY DEF IInv, OnWay
<1>15. \A i \in 1..n : path[i] \in marked
  <2>1. cur[Main] \in marked  BY <1>4
  <2>2. \A x \in marked : ToSet(act[x]) \subseteq marked  BY <1>4 DEF Points
  <2> QED  BY <1>1, <1>14, <2>1, <2>2, WayInside
<1>16. cur'[Main] = cur[Main]  BY <1>3, <1>11, <1>12
<1>17. Way(n, path, slot)'
  <2>1. /\ n \in Nat \ {0} /\ path \in [1..n -> Coexprs \ thread'] /\ slot \in [1..n -> Nat]
        /\ path[1] = Main /\ slot[1] = 1 /\ path[n] = cur'[Main]
        /\ \A i, j \in 1..n : i < j /\ path[i] = path[j] => slot[i] < slot[j]
    BY <1>12, <1>14, <1>16 DEF Way
  <2>2. \A i \in 1..n : act'[path[i]] = act[path[i]]
    BY <1>8, <1>12, <1>15, <2>1
  <2>3. \A i \in 1..n : slot[i] \in 1..Len(act'[path[i]])
    BY <1>14, <2>2 DEF Way
  <2>4. \A i \in 2..n : act'[path[i]][slot[i]] = path[i - 1]
    <3>1. \A i \in 2..n : i \in 1..n  BY <2>1
    <3> QED  BY <1>14, <2>2, <3>1 DEF Way
  <2>5. \A y \in Coexprs \ Live' : \A k \in 1..Len(act'[y]) :
           \E i \in 1..n : path[i] = y /\ slot[i] = k
    <3>1. \A y \in Coexprs \ Live : \A k \in 1..Len(act[y]) :
             \E i \in 1..n : path[i] = y /\ slot[i] = k
      BY <1>14 DEF Way
    <3>2. \A y \in Coexprs \ Live' : y \in Coexprs \ Live /\ (act'[y] = <<>> \/ act'[y] = act[y])
      BY <1>12
    <3>3. 1..Len(<<>>) = {}  OBVIOUS
    <3> QED  BY ONLY <3>1, <3>2, <3>3
  <2> QED  BY <2>1, <2>3, <2>4, <2>5 DEF Way
<1>18. Shape'
  <2>1. cur'[Main] \in Coexprs \ thread' /\ Main \notin thread' /\ alive'[Main] = 1
    BY <1>1, <1>3, <1>11, <1>12, <1>16 DEF Shape
  <2>2. thread' \subseteq async'
    <3>1. thread \cap freed = {}  BY <1>5, <1>8
    <3> QED  BY <1>1, <1>2, <1>12, <3>1 DEF Shape
  <2>3. \A x \in Coexprs \ {Main} : alive'[x] = 0 <=> x \notin thread'
    <3>1. thread \cap freed = {}  BY <1>5, <1>8
    <3> QED  BY <1>1, <1>12, <3>1 DEF Shape
  <2>4. running' = {Main} \cup Live'  BY <1>1, <1>9, <1>12 DEF Shape
  <2>5. \A p \in thread : p \in Coexprs \ freed  BY <1>1, <1>5, <1>8 DEF TypeOK
  <2>6. \A p \in thread' : cur'[p] = p  BY <1>1, <1>12, <2>5 DEF Shape
  <2>7. \A p \in Live' : Len(act'[p]) = 1  BY <1>1, <1>12, <2>5 DEF Shape, Live
  <2>8. \A x \in Coexprs : Len(act'[x]) <= MaxActs
    <3>1. Len(<<>>) <= MaxActs  BY CoexprAssumption
    <3> QED  BY <1>1, <1>12, <3>1 DEF Shape
  <2> QED  BY <2>1, <2>2, <2>3, <2>4, <2>6, <2>7, <2>8 DEF Shape
<1>19. NoDangling'
  <2>1. ASSUME NEW p \in running'  PROVE cur'[p] \in Allocated'
    <3>1. p = Main \/ (p \in thread /\ cur[p] = p)
      BY <1>1, <1>9 DEF Shape, Live
    <3>2. p \in Coexprs /\ p \in running /\ cur[p] \in Allocated
      BY <1>1, <1>9 DEF NoDangling, TypeOK
    <3>3. p \notin freed /\ cur[p] \notin freed
      BY <1>4, <1>5, <1>8, <1>11, <3>1
    <3> QED  BY <1>11, <1>12, <3>2, <3>3
  <2>2. ASSUME NEW x \in Allocated'  PROVE Points(x)' \subseteq Allocated'
    <3>1. x \in Coexprs \ freed /\ x \in Allocated  BY <1>1, <1>11, PointsType
    <3>2. x \in marked  BY <1>4, <1>8, <3>1 DEF Allocated
    <3>3. Points(x) \subseteq Allocated /\ Points(x) \subseteq marked
      BY <1>1, <1>4, <3>1, <3>2 DEF NoDangling
    <3>4. Points(x)' = Points(x)  BY <1>12, <3>1 DEF Points
    <3> QED  BY <1>8, <1>11, <3>3, <3>4
  <2> QED  BY <2>1, <2>2 DEF NoDangling
<1>20. (Live \subseteq Allocated)'
  <2>1. Live \subseteq marked  BY <1>5 DEF Live
  <2> QED  BY <1>1, <1>8, <1>11, <1>12, <2>1
<1> QED  BY <1>13, <1>17, <1>18, <1>19, <1>20 DEF IInv, OnWay

-----------------------------------------------------------------------------
(* Every step keeps the inductive invariant *)

\* At the start the way is &main alone.
LEMMA InitInductive == Init => IInv
<1> SUFFICES ASSUME Init PROVE IInv  OBVIOUS
<1> USE DEF Init
<1>1. Main \in Coexprs /\ MaxActs \in Nat \ {0} /\ None \notin Coexprs  BY CoexprAssumption
<1>2. <<>> \in Seq(Coexprs) /\ <<Main>> \in Seq(Coexprs) /\ <<Main>>[1] = Main
      /\ ToSet(<<Main>>) = {Main} /\ Len(<<Main>>) = 1 /\ Len(<<>>) = 0
      /\ <<>> \in Seq(Coexprs \ {Main}) /\ ToSet(<<>>) = {}
  <2>1. ToSet(<<>>) = {}  BY DEF ToSet
  <2> QED  BY <1>1, <2>1, ToSetOne
<1>3. TypeOK
  <2>1. act \in [Coexprs -> Seq(Coexprs)]  BY <1>2
  <2>2. stklist \in Seq(Coexprs \ {Main})  BY <1>2
  <2>3. cur \in [Coexprs -> Coexprs \cup {None}]  BY <1>1
  <2> QED  BY <1>1, <2>1, <2>2, <2>3 DEF TypeOK
<1>4. Live = {}  BY DEF Live
<1>5. act[Main] = <<Main>> /\ \A x \in Coexprs \ {Main} : act[x] = <<>>  BY <1>1
<1>6. Shape
  <2>1. \A x \in Coexprs : Len(act[x]) <= MaxActs  BY <1>1, <1>2, <1>5
  <2> QED  BY <1>1, <1>4, <2>1 DEF Shape
<1>7. Way(1, [i \in 1..1 |-> Main], [i \in 1..1 |-> 1])
  <2>1. 1..1 = {1} /\ 2..1 = {}  OBVIOUS
  <2>2. \A x \in Coexprs \ Live : \A k \in 1..Len(act[x]) : x = Main /\ k = 1
    BY <1>2, <1>5
  <2>3. Len(act[Main]) = 1  BY <1>2, <1>5
  <2>4. cur[Main] = Main  BY <1>1
  <2> DEFINE path == [i \in 1..1 |-> Main]
             slot == [i \in 1..1 |-> 1]
  <2>5. /\ path \in [1..1 -> Coexprs \ thread] /\ slot \in [1..1 -> Nat]
        /\ \A i \in 1..1 : i = 1 /\ path[i] = Main /\ slot[i] = 1
    BY <1>1, <2>1
  <2> HIDE DEF path, slot
  <2>6. Way(1, path, slot)  BY ONLY <2>1, <2>2, <2>3, <2>4, <2>5 DEF Way
  <2> QED  BY <2>6 DEF path, slot
<1>8. NoDangling
  <2>1. Allocated = {Main}  BY <1>2 DEF Allocated
  <2> QED  BY <1>1, <1>2, <1>5, <2>1 DEF NoDangling, Points
<1> QED  BY <1>3, <1>4, <1>6, <1>7, <1>8 DEF IInv, OnWay

\* Every step keeps it.
LEMMA StepInductive ==
    ASSUME IInv, Activators \subseteq {Main}, [Next]_vars
    PROVE  IInv'
<1>1. CASE UNCHANGED vars
  <2>1. UNCHANGED <<act, flags, cur, running, result, stklist, refs>>
    BY <1>1 DEF vars, blocks
  <2>2. Allocated' = Allocated  BY <2>1 DEF Allocated
  <2>3. TypeOK'  BY <2>1 DEF IInv, TypeOK, flags
  <2>4. \A x \in Allocated' : refs'[x] \subseteq Allocated'
    BY <2>1, <2>2 DEF IInv, NoDangling, Points
  <2> QED  BY <2>1, <2>2, <2>3, <2>4, ReferStep
<1>2. CASE Next
  <2> PICK t \in Coexprs :
        \/ Return(t) \/ ThreadEnd(t) \/ Collect(t)
        \/ \E x \in Coexprs :
             \/ Create(t, x) \/ Forget(t, x) \/ Activate(t, x) \/ Spawn(t, x)
             \/ \E v \in Coexprs : Message(t, x, v)
    BY <1>2 DEF Next
  <2> QED
    BY ReturnStep, ThreadEndStep, CollectStep, CreateStep, ForgetStep, ActivateStep,
       SpawnStep, MessageStep
<1> QED  BY <1>1, <1>2

\* It holds of every behaviour.
LEMMA Inductive ==
    ASSUME Activators \subseteq {Main}
    PROVE  Spec => []IInv
<1>1. Init => IInv  BY InitInductive
<1>2. IInv /\ [Next]_vars => IInv'  BY StepInductive
<1> QED  BY <1>1, <1>2, PTL DEF Spec

-----------------------------------------------------------------------------
(* Counting activations *)

\* As often as the way goes through a co-expression that is no live thread, so
\* many activators are on its stack.
LEMMA VisitsOf ==
    ASSUME IInv, NEW n, NEW path, NEW slot, Way(n, path, slot), NEW x \in Coexprs \ Live
    PROVE  LET visits == {i \in 1..n : path[i] = x}
           IN  IsFiniteSet(visits) /\ Cardinality(visits) = Len(act[x])
<1> DEFINE visits == {i \in 1..n : path[i] = x}
           f == [i \in visits |-> slot[i]]
<1>1. n \in Nat \ {0} /\ act[x] \in Seq(Coexprs) /\ Len(act[x]) \in Nat
  BY DEF Way, IInv, TypeOK
<1>2. IsFiniteSet(1..n) /\ visits \in SUBSET (1..n)  BY <1>1, FS_Interval
<1>3. IsFiniteSet(visits)  BY <1>2, FS_Subset
<1>4. /\ \A i \in visits : slot[i] \in 1..Len(act[x]) /\ slot[i] \in Nat
      /\ \A i, j \in visits : slot[i] = slot[j] => i = j
      /\ \A k \in 1..Len(act[x]) : \E i \in visits : slot[i] = k
  <2>1. \A i \in visits : slot[i] \in 1..Len(act[x]) /\ slot[i] \in Nat  BY DEF Way
  <2>2. ASSUME NEW i \in visits, NEW j \in visits, slot[i] = slot[j]  PROVE i = j
    <3>1. i \in Nat /\ j \in Nat  BY <1>1
    <3>2. ~(i < j) /\ ~(j < i)  BY <2>1, <2>2 DEF Way
    <3> QED  BY <3>1, <3>2
  <2>3. \A k \in 1..Len(act[x]) : \E i \in visits : slot[i] = k
    <3>1. \A y \in Coexprs \ Live : \A k \in 1..Len(act[y]) :
             \E i \in 1..n : path[i] = y /\ slot[i] = k
      BY DEF Way
    <3> QED  BY <3>1
  <2> QED  BY <2>1, <2>2, <2>3
<1> HIDE DEF visits
<1>5. f \in [visits -> 1..Len(act[x])] /\ \A i \in visits : f[i] = slot[i]  BY <1>4
<1> HIDE DEF f
<1>6. IsInjective(f)  BY <1>4, <1>5 DEF IsInjective
<1>7. f \in Injection(visits, 1..Len(act[x]))  BY <1>5, <1>6 DEF Injection
<1>8. f \in Surjection(visits, 1..Len(act[x]))  BY <1>4, <1>5 DEF Surjection
<1>9. ExistsBijection(visits, 1..Len(act[x]))
  BY <1>7, <1>8 DEF ExistsBijection, Bijection
<1>10. Cardinality(1..Len(act[x])) = Cardinality(visits)  BY <1>3, <1>9, FS_Bijection
<1>11. Cardinality(1..Len(act[x])) = Len(act[x])  BY <1>1, FS_Interval
<1> QED  BY <1>3, <1>10, <1>11 DEF visits

\* A co-expression waits once for every time the way goes on from it.
LEMMA WaitsOf ==
    ASSUME IInv, NEW n, NEW path, NEW slot, Way(n, path, slot), NEW x \in Coexprs
    PROVE  LET leaves == {i \in 1..(n - 1) : path[i] = x}
           IN  IsFiniteSet(leaves) /\ Cardinality(leaves) = Cardinality(Waits(x))
<1> DEFINE leaves == {i \in 1..(n - 1) : path[i] = x}
           g == [i \in leaves |-> <<path[i + 1], slot[i + 1]>>]
<1>1. /\ n \in Nat \ {0}
      /\ path \in [1..n -> Coexprs \ thread] /\ slot \in [1..n -> Nat]
      /\ path[1] = Main /\ slot[1] = 1
      /\ \A i \in 1..n : slot[i] \in 1..Len(act[path[i]])
      /\ \A i \in 2..n : act[path[i]][slot[i]] = path[i - 1]
      /\ \A i, j \in 1..n : i < j /\ path[i] = path[j] => slot[i] < slot[j]
      /\ \A y \in Coexprs \ Live : \A k \in 1..Len(act[y]) :
           \E i \in 1..n : path[i] = y /\ slot[i] = k
  BY DEF Way
<1>2. Shape /\ \A y \in Coexprs : Len(act[y]) \in Nat /\ Len(act[y]) <= MaxActs
  BY DEF IInv, Shape, TypeOK
<1>3. MaxActs \in Nat /\ Main \in Coexprs  BY CoexprAssumption
<1>4. IsFiniteSet(leaves)
  <2>1. IsFiniteSet(1..(n - 1))
    <3>1. 1 \in Int /\ n - 1 \in Int  BY <1>1
    <3> QED  BY <3>1, FS_Interval
  <2>2. leaves \in SUBSET (1..(n - 1))  OBVIOUS
  <2> QED  BY <2>1, <2>2, FS_Subset
<1>5. \A i \in leaves : i \in 1..n /\ i + 1 \in 2..n /\ i + 1 \in 1..n /\ path[i] = x
  BY <1>1
<1>6. ASSUME NEW i \in leaves  PROVE <<path[i + 1], slot[i + 1]>> \in Waits(x)
  <2> DEFINE j == i + 1
  <2>1. /\ j \in 2..n /\ j \in 1..n /\ 1 \in 1..n /\ 1 < j /\ j - 1 = i
        /\ path[i] = x /\ i \in Nat
    BY <1>1, <1>5
  <2> HIDE DEF j
  <2>2. /\ path[j] \in Coexprs \ thread /\ slot[j] \in 1..Len(act[path[j]])
        /\ act[path[j]][slot[j]] = x
    BY <1>1, <2>1
  <2>3. slot[j] > Base(path[j])
    <3>1. CASE path[j] = Main
      <4>1. slot[1] < slot[j]  BY <1>1, <2>1, <3>1
      <4> QED  BY <1>1, <3>1, <4>1 DEF Base
    <3>2. CASE path[j] # Main  BY <1>2, <2>2, <3>2 DEF Base
    <3> QED  BY <3>1, <3>2
  <2>4. slot[j] \in 1..MaxActs /\ slot[j] <= Len(act[path[j]])  BY <1>2, <1>3, <2>2
  <2>5. <<path[j], slot[j]>> \in Coexprs \X (1..MaxActs)  BY <2>2, <2>4
  <2>6. <<path[j], slot[j]>> \in Waits(x)  BY <2>2, <2>3, <2>4, <2>5 DEF Waits
  <2> QED  BY <2>6 DEF j
<1>7. ASSUME NEW i \in leaves, NEW j \in leaves,
             path[i + 1] = path[j + 1], slot[i + 1] = slot[j + 1]
      PROVE  i = j
  <2>1. i + 1 \in 1..n /\ j + 1 \in 1..n /\ i \in Nat /\ j \in Nat  BY <1>1, <1>5
  <2>2. slot[i + 1] \in Nat /\ slot[j + 1] \in Nat  BY <1>1, <2>1
  <2>3. ~(i + 1 < j + 1) /\ ~(j + 1 < i + 1)  BY <1>1, <1>7, <2>1, <2>2
  <2> QED  BY <2>1, <2>3
<1>8. ASSUME NEW e \in Waits(x)  PROVE \E i \in leaves : <<path[i + 1], slot[i + 1]>> = e
  <2>1. PICK y \in Coexprs, k \in 1..MaxActs : e = <<y, k>>  BY DEF Waits
  <2>2. k > Base(y) /\ k <= Len(act[y]) /\ act[y][k] = x  BY <2>1 DEF Waits
  <2>3. y \notin Live
    <3>1. ASSUME y \in Live  PROVE FALSE
      <4>1. Base(y) = 1 /\ Len(act[y]) = 1  BY <1>2, <3>1 DEF Base, Shape, Live
      <4> QED  BY <1>3, <2>2, <4>1
    <3> QED  BY <3>1
  <2>4. k \in 1..Len(act[y])  BY <1>2, <1>3, <2>2
  <2>5. PICK j \in 1..n : path[j] = y /\ slot[j] = k  BY <1>1, <2>3, <2>4
  <2>6. j # 1
    <3>1. ASSUME j = 1  PROVE FALSE
      <4>1. y = Main /\ k = 1  BY <1>1, <2>5, <3>1
      <4> QED  BY <2>2, <4>1 DEF Base
    <3> QED  BY <3>1
  <2>7. j \in 2..n /\ j - 1 \in 1..(n - 1) /\ (j - 1) + 1 = j  BY <1>1, <2>6
  <2>8. path[j - 1] = x  BY <1>1, <2>2, <2>5, <2>7
  <2>9. j - 1 \in leaves  BY <2>7, <2>8
  <2> QED  BY <2>1, <2>5, <2>7, <2>9
<1> HIDE DEF leaves
<1>9. g \in [leaves -> Waits(x)] /\ \A i \in leaves : g[i] = <<path[i + 1], slot[i + 1]>>
  BY <1>6
<1> HIDE DEF g
<1>10. IsInjective(g)
  <2> SUFFICES ASSUME NEW i \in leaves, NEW j \in leaves, g[i] = g[j]  PROVE i = j
    BY <1>9 DEF IsInjective
  <2> QED  BY <1>7, <1>9
<1>11. g \in Injection(leaves, Waits(x))  BY <1>9, <1>10 DEF Injection
<1>12. g \in Surjection(leaves, Waits(x))
  <2>1. \A e \in Waits(x) : \E i \in leaves : g[i] = e  BY <1>8, <1>9
  <2> QED  BY <1>9, <2>1 DEF Surjection
<1>13. ExistsBijection(leaves, Waits(x))
  BY <1>11, <1>12 DEF ExistsBijection, Bijection
<1>14. Cardinality(Waits(x)) = Cardinality(leaves)  BY <1>4, <1>13, FS_Bijection
<1> QED  BY <1>4, <1>14 DEF leaves

\* The equation of ReclaimInv, for one co-expression.
LEMMA ActivationCount ==
    ASSUME IInv, NEW x \in Coexprs
    PROVE  Len(act[x]) - Base(x) + (IF x = Main THEN 1 ELSE 0)
             = Cardinality(Waits(x)) + (IF x = cur[Main] THEN 1 ELSE 0)
<1>1. PICK n, path, slot : Way(n, path, slot)  BY DEF IInv, OnWay
<1>2. n \in Nat \ {0} /\ path \in [1..n -> Coexprs \ thread] /\ path[n] = cur[Main]
      /\ path[1] = Main
  BY <1>1 DEF Way
<1> DEFINE visits == {i \in 1..n : path[i] = x}
           leaves == {i \in 1..(n - 1) : path[i] = x}
<1>3. IsFiniteSet(leaves) /\ Cardinality(leaves) = Cardinality(Waits(x))
  BY <1>1, WaitsOf
<1>4. Cardinality(leaves) \in Nat  BY <1>3, FS_CardinalityType
<1>5. Cardinality(visits) = Cardinality(leaves) + (IF x = cur[Main] THEN 1 ELSE 0)
  <2>1. n \notin leaves  BY <1>2
  <2>2. CASE x = cur[Main]
    <3>1. visits = leaves \cup {n}  BY <1>2, <2>2
    <3> HIDE DEF visits, leaves
    <3>2. Cardinality(leaves \cup {n}) = Cardinality(leaves) + 1
      BY <1>3, <2>1, FS_AddElement
    <3> QED  BY <2>2, <3>1, <3>2
  <2>3. CASE x # cur[Main]
    <3>1. visits = leaves  BY <1>2, <2>3
    <3> HIDE DEF visits, leaves
    <3> QED  BY <1>4, <2>3, <3>1
  <2> QED  BY <2>2, <2>3
<1>6. CASE x \in Live
  <2>1. visits = {}  BY <1>2, <1>6 DEF Live
  <2>2. Cardinality(visits) = 0  BY <2>1, FS_EmptySet
  <2>3. Base(x) = 1 /\ Len(act[x]) = 1 /\ x # Main
    BY <1>6 DEF Base, Live, IInv, Shape
  <2> HIDE DEF visits, leaves
  <2> QED  BY <1>3, <1>4, <1>5, <2>2, <2>3
<1>7. CASE x \notin Live
  <2>1. Cardinality(visits) = Len(act[x])  BY <1>1, <1>7, VisitsOf
  <2>2. Base(x) = IF x = Main THEN 1 ELSE 0  BY <1>7 DEF Base, Live
  <2>3. Len(act[x]) \in Nat  BY DEF IInv, TypeOK
  <2> HIDE DEF visits, leaves
  <2> QED  BY <1>3, <1>4, <1>5, <2>1, <2>2, <2>3
<1> QED  BY <1>6, <1>7

-----------------------------------------------------------------------------
(* The theorems *)

\* The stacks of all co-expressions together are the way back to &main: each was
\* activated as often as it waits, but the one that runs and &main.
THEOREM ReclaimCorrect ==
    ASSUME Activators \subseteq {Main}
    PROVE  Spec => []ReclaimInv
<1>1. IInv => ReclaimInv  BY ActivationCount DEF ReclaimInv, IInv
<1> QED  BY <1>1, Inductive, PTL

\* The co-expression that runs has somebody to go back to.
THEOREM ActivatorFound ==
    ASSUME Activators \subseteq {Main}
    PROVE  Spec => []ActivatorReady
<1>1. IInv => ActivatorReady
  <2> SUFFICES ASSUME IInv, NEW t \in running, cur[t] # t
               PROVE  act[cur[t]] # <<>>
    BY DEF ActivatorReady
  <2>1. t = Main  BY RunningThread
  <2>2. PICK n, path, slot : Way(n, path, slot)  BY DEF IInv, OnWay
  <2>3. n \in 1..n /\ path[n] = cur[Main]  BY <2>2 DEF Way
  <2> QED  BY <2>1, <2>2, <2>3, WayEnd DEF IInv, Shape
<1> QED  BY <1>1, Inductive, PTL

\* A collection frees nothing that runs, that waits as an activator or that
\* something allocated refers to.
THEOREM NothingDangles ==
    ASSUME Activators \subseteq {Main}
    PROVE  Spec => []NoDangling
<1>1. IInv => NoDangling  BY DEF IInv
<1> QED  BY <1>1, Inductive, PTL

\* Whatever the program activates, a collection loses no live thread silently.
\* Either it blocks for good, and then some live thread runs a co-expression other
\* than its own, which keeps markthreads() from marking it; or it keeps every live
\* thread as it is, and everything that what it keeps refers to or goes back to.
THEOREM CollectionBlocksOrKeeps ==
    ASSUME TypeOK, NEW t \in Coexprs, cur[t] \in Coexprs, cur[Main] \in Coexprs, Collect(t)
    PROVE  \/ running' = {} /\ \E p \in Live : cur[p] # p
           \/ /\ running' = running
              /\ Live \cap Allocated \subseteq Live' \cap Allocated'
              /\ \A x \in Allocated' : /\ Points(x)' = Points(x)
                                        /\ Points(x) \cap Allocated \subseteq Allocated'
<1> DEFINE marked == Marked(t)
           garbage == {i \in DOMAIN stklist : stklist[i] \notin marked}
           live == {i \in garbage : stklist[i] \in thread /\ alive[stklist[i]] = 1}
           freed == {stklist[i] : i \in {j \in garbage : \A k \in live : j < k}}
           caught == {stklist[i] : i \in {j \in live : \A k \in live : j <= k}}
<1>1. /\ stklist' = Without(stklist, freed \cup caught)
      /\ refs' = [x \in Coexprs |-> IF x \in freed THEN {} ELSE refs[x]]
      /\ act' = [x \in Coexprs |-> IF x \in freed THEN <<>> ELSE act[x]]
      /\ thread' = thread \ freed
      /\ alive' = [x \in Coexprs |-> IF x \in freed THEN 0
                                     ELSE IF x \in caught THEN -8 ELSE alive[x]]
      /\ running' = IF live = {} THEN running ELSE {}
  BY DEF Collect
<1>2. Roots(t) \subseteq marked /\ \A x \in marked : Points(x) \subseteq marked
  <2>1. Main \in Coexprs /\ thread \subseteq Coexprs  BY CoexprAssumption DEF TypeOK
  <2>2. Roots(t) \subseteq Coexprs  BY <2>1 DEF Roots
  <2>3. \A x \in Coexprs : Points(x) \subseteq Coexprs  BY PointsType
  <2> QED  BY <2>2, <2>3, MarkClosed
<1> HIDE DEF marked
<1>3. stklist \in Seq(Coexprs \ {Main}) /\ ToSet(stklist) = {stklist[i] : i \in DOMAIN stklist}
  BY DEF TypeOK, ToSet
<1>4. CASE live # {}
  <2>1. PICK i \in live : TRUE  BY <1>4
  <2>2. stklist[i] \in Live /\ stklist[i] \notin marked  BY <2>1 DEF Live
  <2>3. ASSUME cur[stklist[i]] = stklist[i]  PROVE FALSE
    <3>1. stklist[i] \in {q \in Coexprs : cur[q] \in thread}  BY <2>2, <2>3 DEF Live, TypeOK
    <3>2. cur[stklist[i]] \in Roots(t)  BY <3>1 DEF Roots
    <3> QED  BY <1>2, <2>2, <2>3, <3>2
  <2> QED  BY <1>1, <1>4, <2>2, <2>3
<1>5. CASE live = {}
  <2>1. caught = {} /\ freed = {stklist[i] : i \in garbage}  BY <1>5
  <2>2. freed = ToSet(stklist) \ marked  BY <1>3, <2>1
  <2>3. /\ stklist' = Without(stklist, freed)
        /\ alive' = [x \in Coexprs |-> IF x \in freed THEN 0 ELSE alive[x]]
        /\ running' = running
    BY <1>1, <1>5, <2>1
  <2>4. Live \cap ToSet(stklist) \subseteq marked
    <3>1. ASSUME NEW p \in Live, p \in ToSet(stklist), p \notin marked  PROVE FALSE
      <4>1. PICK i \in DOMAIN stklist : stklist[i] = p  BY <1>3, <3>1
      <4>2. i \in live  BY <3>1, <4>1 DEF Live
      <4> QED  BY <1>5, <4>2
    <3> QED  BY <3>1
  <2> HIDE DEF freed, caught, live, garbage
  <2>5. ToSet(stklist') = ToSet(stklist) \ freed  BY <1>3, <2>3, WithoutSet
  <2>6. Main \in marked  BY <1>2 DEF Roots
  <2>7. Allocated' = Allocated \cap marked /\ Allocated \subseteq Coexprs
    BY <2>2, <2>5, <2>6, PointsType DEF Allocated
  <2>8. Live \cap Allocated \subseteq Live' \cap Allocated'
    <3>1. ASSUME NEW p \in Live \cap Allocated  PROVE p \in Live' /\ p \in Allocated'
      <4>1. p \in marked  BY <2>4, <2>6, <3>1 DEF Allocated
      <4>2. p \in Coexprs /\ p \in thread /\ alive[p] = 1 /\ p \notin freed
        BY <2>2, <2>7, <3>1, <4>1 DEF Live
      <4>3. p \in thread' /\ alive'[p] = 1  BY <1>1, <2>3, <4>2
      <4> QED  BY <2>7, <3>1, <4>1, <4>3 DEF Live
    <3> QED  BY <3>1
  <2>9. ASSUME NEW x \in Allocated'
        PROVE  Points(x)' = Points(x) /\ Points(x) \cap Allocated \subseteq Allocated'
    <3>1. x \in marked /\ x \in Coexprs /\ x \notin freed  BY <2>2, <2>7, <2>9
    <3>2. refs'[x] = refs[x] /\ act'[x] = act[x]  BY <1>1, <3>1
    <3>3. Points(x)' = Points(x)  BY <3>2 DEF Points
    <3> QED  BY <1>2, <2>7, <3>1, <3>3
  <2> QED  BY <2>3, <2>8, <2>9
<1> QED  BY <1>4, <1>5
=============================================================================
