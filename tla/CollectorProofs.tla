-------------------------- MODULE CollectorProofs --------------------------
(***************************************************************************)
(* Proofs about collections (Collector), for any block types, regions,     *)
(* variables and length of the qualifier list, when an int holds the       *)
(* length of the string region.  Each phase of collect() is a loop, and    *)
(* each has an invariant that says what the memory is, from the memory     *)
(* before the collection and how far the loop has come:                    *)
(*                                                                         *)
(*   Thread    a title holds the location visited last, and a location     *)
(*             holds the one visited before it that refers to the same     *)
(*             block, the first of them the value of the title; or, once   *)
(*             adjust() is past the block, the address in Slides           *)
(*   Marking   what has been visited, what is due, and that the sum of     *)
(*             both is closed                                              *)
(*   Compacted the blocks before the current one are where they belong     *)
(*   Retold    the strings listed so far have their old text in the new    *)
(*                                                                         *)
(* Put together they say that the collection maps the heap that could be   *)
(* reached to one of the same shape (Collected).                           *)
(***************************************************************************)
EXTENDS Collector, FiniteSetTheorems, SequenceTheorems, WellFoundedInduction, TLAPS

-----------------------------------------------------------------------------
(* Recursion on intervals *)

\* A set of natural numbers with an element has a least one: the form in which
\* the proofs use induction, as the least counterexample.
LEMMA LeastNat ==
    ASSUME NEW T \in SUBSET Nat, T # {}
    PROVE  \E x \in T : \A y \in T : x <= y
<1>1. \E x \in T : \A y \in T : ~ (<<y, x>> \in OpToRel(<, Nat))
  BY WFMin, NatLessThanWellFounded
<1>2. PICK x \in T : \A y \in T : ~ (<<y, x>> \in OpToRel(<, Nat))  BY <1>1
<1>3. \A y \in T : ~(y < x)  BY <1>2 DEF OpToRel
<1> QED  BY <1>3

\* f starts with a in A and goes on with the steps of G.
Iterates(f, n, A, a, G) ==
    f \in [0..n -> A] /\ f[0] = a /\ \A i \in 1..n : f[i] = G[i][f[i - 1]]

\* There is such a function.
LEMMA RecursionExists ==
    ASSUME NEW n \in Nat, NEW A, NEW a \in A, NEW G \in [1..n -> [A -> A]]
    PROVE  \E f : Iterates(f, n, A, a, G)
<1> DEFINE Runs(f, k) == f \in [0..k -> A] /\ f[0] = a /\ \A i \in 1..k : f[i] = G[i][f[i - 1]]
           T == {k \in 0..n : ~ \E f : Runs(f, k)}
<1>1. ASSUME T # {}  PROVE FALSE
  <2>1. T \in SUBSET Nat  OBVIOUS
  <2>2. PICK k \in T : \A j \in T : k <= j  BY <1>1, <2>1, LeastNat
  <2>3. k \in 0..n /\ (~ \E f : Runs(f, k)) /\ \A j \in 0..n : j < k => \E f : Runs(f, j)
    <3> HIDE DEF Runs
    <3> QED  BY <2>2
  <2>4. CASE k = 0
    <3>1. Runs([i \in 0..0 |-> a], 0)  OBVIOUS
    <3> QED  BY <2>3, <2>4, <3>1
  <2>5. CASE k > 0
    <3>1. k - 1 \in 0..n /\ k - 1 < k  BY <2>3, <2>5
    <3>2. PICK f : Runs(f, k - 1)
      <4> HIDE DEF Runs
      <4> QED  BY <2>3, <3>1
    <3> DEFINE g == [i \in 0..k |-> IF i < k THEN f[i] ELSE G[k][f[k - 1]]]
    <3>3. f[k - 1] \in A  BY <2>3, <2>5, <3>2
    <3>4. G[k][f[k - 1]] \in A
      <4>1. k \in 1..n  BY <2>3, <2>5
      <4>2. G[k] \in [A -> A]  BY <4>1
      <4> QED  BY <3>3, <4>2
    <3>5. g \in [0..k -> A] /\ g[0] = a
      <4>1. \A i \in 0..k : i < k => i \in 0..(k - 1) /\ f[i] \in A
        BY <2>3, <2>5, <3>2
      <4>2. f[0] = a /\ 0 < k /\ 0 \in 0..k  BY <2>3, <2>5, <3>2
      <4> QED  BY <3>4, <4>1, <4>2
    <3>6. ASSUME NEW i \in 1..k  PROVE g[i] = G[i][g[i - 1]]
      <4>1. g[i - 1] = f[i - 1]  BY <2>3, <3>6
      <4>2. CASE i < k
        <5>1. i \in 1..(k - 1)  BY <2>3, <4>2
        <5>2. f[i] = G[i][f[i - 1]]  BY <3>2, <5>1
        <5>3. g[i] = f[i]  BY <2>3, <4>2
        <5> QED  BY <4>1, <5>2, <5>3
      <4>3. CASE i = k
        <5>1. g[k] = G[k][f[k - 1]]  BY <2>3, <2>5
        <5> HIDE DEF g
        <5> QED  BY <4>1, <4>3, <5>1
      <4> QED  BY <2>3, <4>2, <4>3
    <3>7. Runs(g, k)  BY <3>5, <3>6
    <3> QED  BY <2>3, <3>7
  <2> QED  BY <2>3, <2>4, <2>5
<1>2. n \notin T  BY <1>1
<1>3. PICK f : Runs(f, n)
  <2> HIDE DEF Runs
  <2> QED  BY <1>2
<1> QED  BY <1>3 DEF Iterates

-----------------------------------------------------------------------------
(* Steps that are counted. *)

\* What holds of 0 and goes from each number to the next holds up to n.
LEMMA Climb ==
    ASSUME NEW n \in Nat, NEW S, 0 \in S, \A i \in 1..n : i - 1 \in S => i \in S
    PROVE  \A i \in 0..n : i \in S
<1> DEFINE T == {i \in 0..n : i \notin S}
<1>1. ASSUME T # {}  PROVE FALSE
  <2>1. T \in SUBSET Nat  OBVIOUS
  <2>2. PICK i \in T : \A j \in T : i <= j
    <3> HIDE DEF T
    <3> QED  BY <1>1, <2>1, LeastNat
  <2>3. i # 0 /\ i \in 1..n /\ i - 1 \in 0..n /\ ~(i <= i - 1)  OBVIOUS
  <2>4. i - 1 \in S  BY <2>2, <2>3
  <2> QED  BY <2>3, <2>4
<1> QED  BY <1>1

\* f starts with a and goes on with the steps of G.
Loop(f, n, a, G) == f = [i \in 0..n |-> IF i = 0 THEN a ELSE G[i][f[i - 1]]]

\* The function that a recursive definition of a loop stands for exists, and
\* what its steps preserve holds of its values.
LEMMA LoopExists ==
    ASSUME NEW n \in Nat, NEW a, NEW Good, NEW G,
           a \in Good[0], \A i \in 1..n : \A x \in Good[i - 1] : G[i][x] \in Good[i]
    PROVE  \E f : /\ Loop(f, n, a, G)
                  /\ \A i \in 0..n : f[i] \in Good[i]
<1> DEFINE A == UNION {Good[i] : i \in 0..n}
           H == [i \in 1..n |-> [x \in A |-> IF x \in Good[i - 1] THEN G[i][x] ELSE a]]
<1>1. a \in A  OBVIOUS
<1>2. H \in [1..n -> [A -> A]]
  <2> SUFFICES ASSUME NEW i \in 1..n, NEW x \in A, x \in Good[i - 1]  PROVE G[i][x] \in A
    BY <1>1
  <2>1. G[i][x] \in Good[i] /\ i \in 0..n  OBVIOUS
  <2> QED  BY <2>1
<1>3. PICK f : Iterates(f, n, A, a, H)
  <2> HIDE DEF A, H
  <2> QED  BY <1>1, <1>2, RecursionExists
<1>4. /\ f \in [0..n -> A] /\ f[0] = a
      /\ \A i \in 1..n : f[i] = IF f[i - 1] \in Good[i - 1] THEN G[i][f[i - 1]] ELSE a
  <2>1. f \in [0..n -> A] /\ f[0] = a /\ \A i \in 1..n : f[i] = H[i][f[i - 1]]
    <3> HIDE DEF A, H
    <3> QED  BY <1>3 DEF Iterates
  <2>2. \A i \in 1..n : f[i - 1] \in A
    <3> HIDE DEF A, H
    <3>1. \A i \in 1..n : i - 1 \in 0..n  OBVIOUS
    <3> QED  BY <2>1, <3>1
  <2> HIDE DEF A
  <2> QED  BY <2>1, <2>2
<1> HIDE DEF A, H
<1>5. \A i \in 0..n : f[i] \in Good[i]
  <2> DEFINE S == {i \in 0..n : f[i] \in Good[i]}
  <2>1. 0 \in S  BY <1>4
  <2>2. \A i \in 1..n : i - 1 \in S => i \in S  BY <1>4
  <2> HIDE DEF S
  <2>3. \A i \in 0..n : i \in S  BY <2>1, <2>2, Climb
  <2> QED  BY <2>3 DEF S
<1>6. \A i \in 0..n : f[i] = IF i = 0 THEN a ELSE G[i][f[i - 1]]
  <2>1. \A i \in 1..n : i - 1 \in 0..n  OBVIOUS
  <2>2. \A i \in 0..n : i = 0 \/ i \in 1..n  OBVIOUS
  <2> QED  BY <1>4, <1>5, <2>1, <2>2
<1> QED  BY <1>4, <1>5, <1>6 DEF Loop

-----------------------------------------------------------------------------
(* Words and regions *)

Locations == Roots \cup Words

Word == {Nil} \cup {Title(t) : t \in Types} \cup {Marked(t) : t \in Types}
        \cup {Ref(a) : a \in Locations} \cup {Str(i, n) : i \in Nat, n \in Nat}

LEMMA WordKinds ==
    ASSUME NEW w \in Word
    PROVE  /\ Is(w, "title") => w[2] \in Types /\ w = Title(w[2])
           /\ Is(w, "marked") => w[2] \in Types /\ w = Marked(w[2])
           /\ Is(w, "ref") => w[2] \in Locations /\ w = Ref(w[2])
           /\ Is(w, "str") => w[2] \in Nat /\ w[3] \in Nat /\ w = Str(w[2], w[3])
           /\ Is(w, "nil") => w = Nil
           /\ \/ Is(w, "title") \/ Is(w, "marked") \/ Is(w, "ref") \/ Is(w, "str")
              \/ Is(w, "nil")
BY DEF Word, Is, Title, Marked, Ref, Str, Nil

LEMMA KindsOfWords ==
    /\ Nil \in Word /\ Is(Nil, "nil")
    /\ \A t : Is(Title(t), "title") /\ Title(t)[2] = t
    /\ \A t : Is(Marked(t), "marked") /\ Marked(t)[2] = t
    /\ \A a : Is(Ref(a), "ref") /\ Ref(a)[2] = a
    /\ \A i, n : Is(Str(i, n), "str") /\ Str(i, n)[2] = i /\ Str(i, n)[3] = n
    /\ \A t \in Types : Title(t) \in Word /\ Marked(t) \in Word
    /\ \A a \in Locations : Ref(a) \in Word
    /\ \A i, n \in Nat : Str(i, n) \in Word
BY DEF Word, Is, Title, Marked, Ref, Str, Nil

LEMMA OneKind ==
    ASSUME NEW w, NEW j, NEW k, Is(w, j), Is(w, k)
    PROVE  j = k
BY DEF Is

\* Where the free pointers may be.
Fits(fr) ==
    fr \in [Regions -> Nat] /\ \A p \in Regions : RegionBase[p] <= fr[p] /\ fr[p] <= RegionEnd[p]

Within(p, fr, a) == RegionBase[p] <= a /\ a < fr[p]

\* The words below the free pointers.
Used(fr) == {a \in Words : \E p \in Regions : Within(p, fr, a)}

LEMMA FiniteUnion ==
    ASSUME NEW S, IsFiniteSet(S), NEW F, \A x \in S : IsFiniteSet(F[x])
    PROVE  IsFiniteSet(UNION {F[x] : x \in S})
<1>0. PICK n \in Nat : ExistsSurjection(1..n, S)  BY FS_NatSurjection
<1>1. PICK c \in [1..n -> S] : \A x \in S : \E i \in 1..n : c[i] = x
  BY <1>0 DEF ExistsSurjection, Surjection
<1> DEFINE U(k) == UNION {F[c[i]] : i \in 1..k}
           T == {k \in 0..n : IsFiniteSet(U(k))}
<1>2. 0 \in T
  <2>1. 1..0 = {}  OBVIOUS
  <2>2. U(0) = {}  BY <2>1
  <2>3. IsFiniteSet(U(0))
    <3> HIDE DEF U
    <3> QED  BY <2>2, FS_EmptySet
  <2> QED  BY <2>3
<1>3. \A k \in 1..n : k - 1 \in T => k \in T
  <2> SUFFICES ASSUME NEW k \in 1..n, IsFiniteSet(U(k - 1))  PROVE IsFiniteSet(U(k))
    OBVIOUS
  <2>1. 1..k = (1..(k - 1)) \cup {k}  OBVIOUS
  <2>2. U(k) = U(k - 1) \cup F[c[k]]
    <3>1. \A i : i \in 1..k <=> i \in 1..(k - 1) \/ i = k  BY <2>1
    <3>2. \A e : e \in U(k) <=> e \in U(k - 1) \/ e \in F[c[k]]  BY <3>1, Zenon
    <3> HIDE DEF U
    <3> QED  BY <3>2
  <2>3. IsFiniteSet(F[c[k]])  BY <1>1
  <2>4. IsFiniteSet(U(k - 1) \cup F[c[k]])
    <3> HIDE DEF U
    <3> QED  BY <2>3, FS_Union
  <2> HIDE DEF U
  <2> QED  BY <2>2, <2>4
<1>4. n \in T
  <2> HIDE DEF T
  <2>1. \A i \in 0..n : i \in T  BY <1>2, <1>3, Climb
  <2> QED  BY <2>1
<1>5. UNION {F[x] : x \in S} = U(n)  BY <1>1
<1> QED  BY <1>4, <1>5

LEMMA WordsFacts ==
    /\ Words \subseteq Nat /\ IsFiniteSet(Words) /\ IsFiniteSet(Locations)
    /\ Roots \cap Words = {}
    /\ Cardinality(Locations) \in Nat
<1>1. IsFiniteSet(Words)
  <2> DEFINE F == [p \in Regions |-> RegionBase[p] .. RegionEnd[p] - 1]
  <2>1. \A p \in Regions : IsFiniteSet(F[p])
    <3> SUFFICES ASSUME NEW p \in Regions  PROVE IsFiniteSet(RegionBase[p] .. RegionEnd[p] - 1)
      OBVIOUS
    <3>1. RegionBase[p] \in Int /\ RegionEnd[p] - 1 \in Int  BY CollectorAssumption
    <3> QED  BY <3>1, FS_Interval
  <2>2. Words = UNION {F[p] : p \in Regions}  BY DEF Words
  <2>3. IsFiniteSet(Regions)  BY CollectorAssumption
  <2> HIDE DEF F
  <2> QED  BY <2>1, <2>2, <2>3, FiniteUnion
<1>2. Words \subseteq Nat /\ Roots \cap Words = {}  BY CollectorAssumption DEF Words
<1>3. IsFiniteSet(Locations)  BY <1>1, CollectorAssumption, FS_Union DEF Locations
<1> QED  BY <1>1, <1>2, <1>3, FS_CardinalityType

LEMMA WithinWords ==
    ASSUME NEW fr, Fits(fr), NEW p \in Regions, NEW a \in Int, Within(p, fr, a)
    PROVE  a \in Words /\ a \in Used(fr)
<1>1. RegionBase[p] \in Nat /\ RegionEnd[p] \in Nat /\ fr[p] \in Nat /\ fr[p] <= RegionEnd[p]
  BY CollectorAssumption DEF Fits
<1>2. a \in RegionBase[p] .. RegionEnd[p] - 1  BY <1>1 DEF Within
<1> QED  BY <1>2 DEF Used, Words

LEMMA OneRegion ==
    ASSUME NEW fr, Fits(fr), NEW p \in Regions, NEW q \in Regions, NEW a \in Int,
           Within(p, fr, a), RegionBase[q] <= a, a < RegionEnd[q]
    PROVE  p = q
BY CollectorAssumption DEF Fits, Within
-----------------------------------------------------------------------------
(* The invariant *)

\* The blocks of the region p follow one another from its base to e, each
\* starting with its title.
TiledTo(m, p, e) ==
    /\ RegionBase[p] = e \/ Is(m[RegionBase[p]], "title")
    /\ \A a \in RegionBase[p] .. e - 1 : Is(m[a], "title") =>
         /\ a + BlkSize(m[a][2]) <= e
         /\ \/ a + BlkSize(m[a][2]) = e
            \/ Is(m[a + BlkSize(m[a][2])], "title")
         /\ \A b \in a + 1 .. a + BlkSize(m[a][2]) - 1 : ~ Is(m[b], "title")

Tiled(m, fr) == \A p \in Regions : TiledTo(m, p, fr[p])

Blocks(m, fr) == {a \in Used(fr) : Is(m[a], "title")}

Shape(m, fr) ==
    /\ m \in [Locations -> Word] /\ Fits(fr) /\ Tiled(m, fr)
    /\ \A l \in Locations : ~ Is(m[l], "marked")
    /\ \A r \in Roots : ~ Is(m[r], "title")

\* Nothing leads from the variables and the blocks at B to anything but
\* blocks at B.
Heap(m, fr, B) ==
    /\ Shape(m, fr)
    /\ B \subseteq Blocks(m, fr)
    /\ Targets(m, Slots(m, B)) \subseteq B

InText(w, s) == w[2] >= 1 /\ w[2] + w[3] <= Len(s) + 1

Texts(m, B, s) ==
    /\ s \in Seq(Chars) /\ Len(s) <= StrEnd
    /\ \A l \in Slots(m, B) : Is(m[l], "str") => InText(m[l], s)

\* No block of the region p and no character is garbage.
Clean(m, B, fr, p, s) ==
    /\ \A a \in Blocks(m, fr) : Within(p, fr, a) => a \in B
    /\ \A i \in 1 .. Len(s) : \E l \in Slots(m, B) :
          Is(m[l], "str") /\ m[l][2] <= i /\ i < m[l][2] + m[l][3]

HeapInv ==
    /\ curblock \in Regions
    /\ Heap(mem, free, Reachable)
    /\ Texts(mem, Reachable, str)
    /\ \A w \in Words \ Used(free) : mem[w] = Nil
    /\ last = "all" => Clean(mem, Reachable, free, curblock, str)

-----------------------------------------------------------------------------
(* Blocks and their fields *)

LEMMA TypeFacts ==
    ASSUME NEW t \in Types
    PROVE  BlkSize(t) \in Nat /\ Fields(t) \in Nat /\ Fields(t) < BlkSize(t)
BY CollectorAssumption DEF BlkSize, Fields

LEMMA BlockFacts ==
    ASSUME NEW m, NEW fr, Shape(m, fr), NEW a \in Blocks(m, fr)
    PROVE  /\ a \in Nat /\ a \in Locations /\ a \in Used(fr)
           /\ m[a][2] \in Types /\ m[a] = Title(m[a][2])
           /\ BlkSize(m[a][2]) \in Nat /\ BlkSize(m[a][2]) > 0
           /\ \E p \in Regions :
                /\ Within(p, fr, a)
                /\ a + BlkSize(m[a][2]) <= fr[p]
                /\ a + BlkSize(m[a][2]) = fr[p] \/ a + BlkSize(m[a][2]) \in Blocks(m, fr)
           /\ \A b \in Int : a < b /\ b < a + BlkSize(m[a][2]) => ~ Is(m[b], "title")
<1>1. a \in Words /\ a \in Used(fr) /\ Is(m[a], "title")  BY DEF Blocks, Used
<1>2. PICK p \in Regions : Within(p, fr, a)  BY <1>1 DEF Used
<1>3. a \in Nat /\ a \in Locations  BY <1>1, WordsFacts DEF Locations
<1>4. m[a][2] \in Types /\ m[a] = Title(m[a][2])
  <2>1. m[a] \in Word  BY <1>3 DEF Shape
  <2> QED  BY <1>1, <2>1, WordKinds
<1> DEFINE n == BlkSize(m[a][2])
<1>5. n \in Nat /\ n > 0  BY <1>4, TypeFacts
<1>6. fr[p] \in Nat /\ RegionBase[p] \in Nat  BY CollectorAssumption DEF Shape, Fits
<1>7. a \in RegionBase[p] .. fr[p] - 1  BY <1>2, <1>3, <1>6 DEF Within
<1>8. /\ a + n <= fr[p]
      /\ a + n = fr[p] \/ Is(m[a + n], "title")
      /\ \A b \in a + 1 .. a + n - 1 : ~ Is(m[b], "title")
  BY <1>1, <1>7 DEF Shape, Tiled, TiledTo
<1> HIDE DEF n
<1>9. a + n # fr[p] => a + n \in Blocks(m, fr)
  <2>1. a + n # fr[p] => Within(p, fr, a + n)  BY <1>2, <1>3, <1>5, <1>6, <1>8 DEF Within
  <2>2. a + n \in Int /\ Fits(fr)  BY <1>3, <1>5 DEF Shape
  <2> QED  BY <1>8, <2>1, <2>2, WithinWords DEF Blocks
<1>10. \A b \in Int : a < b /\ b < a + n => ~ Is(m[b], "title")  BY <1>3, <1>5, <1>8
<1> QED  BY <1>1, <1>2, <1>3, <1>4, <1>5, <1>8, <1>9, <1>10 DEF n

LEMMA BlocksApart ==
    ASSUME NEW m, NEW fr, Shape(m, fr), NEW a \in Blocks(m, fr), NEW b \in Blocks(m, fr), a < b
    PROVE  a + BlkSize(m[a][2]) <= b
<1>1. a \in Nat /\ b \in Nat /\ BlkSize(m[a][2]) \in Nat  BY BlockFacts
<1>2. Is(m[b], "title")  BY DEF Blocks
<1>3. ~(b < a + BlkSize(m[a][2]))  BY <1>1, <1>2, BlockFacts
<1> HIDE DEF BlkSize
<1> QED  BY <1>1, <1>3

LEMMA InBlock ==
    ASSUME NEW m, NEW fr, Shape(m, fr), NEW a \in Blocks(m, fr), NEW w \in BlockAt(m, a)
    PROVE  /\ w \in Used(fr) /\ w \in Locations /\ w \in Nat
           /\ a <= w /\ w < a + BlkSize(m[a][2])
           /\ w # a => w \notin Blocks(m, fr) /\ ~ Is(m[w], "title")
<1>1. a \in Nat /\ BlkSize(m[a][2]) \in Nat  BY BlockFacts
<1>2. w \in Nat /\ a <= w /\ w < a + BlkSize(m[a][2])  BY <1>1 DEF BlockAt
<1>3. PICK p \in Regions : Within(p, fr, a) /\ a + BlkSize(m[a][2]) <= fr[p]  BY BlockFacts
<1>4. fr[p] \in Nat /\ RegionBase[p] \in Nat /\ Fits(fr)  BY CollectorAssumption DEF Shape, Fits
<1>5. Within(p, fr, w)
  <2> HIDE DEF BlkSize
  <2> QED  BY <1>1, <1>2, <1>3, <1>4 DEF Within
<1>6. w \in Words /\ w \in Used(fr)  BY <1>2, <1>4, <1>5, WithinWords
<1>7. w # a => ~ Is(m[w], "title")  BY <1>1, <1>2, BlockFacts
<1> QED  BY <1>2, <1>6, <1>7 DEF Locations, Blocks

\* The fields of a block are its last words.
LEMMA FieldFacts ==
    ASSUME NEW t \in Types, NEW a \in Nat
    PROVE  /\ DOMAIN FieldsAt(a, t) = 1 .. Fields(t)
           /\ \A i \in 1 .. Fields(t) : FieldsAt(a, t)[i] = a + BlkSize(t) - Fields(t) + i - 1
           /\ FieldsAt(a, t) \in Seq(Nat) /\ Len(FieldsAt(a, t)) = Fields(t)
           /\ ToSet(FieldsAt(a, t)) = a + BlkSize(t) - Fields(t) .. a + BlkSize(t) - 1
           /\ \A w \in ToSet(FieldsAt(a, t)) : w \in Nat /\ a < w /\ w < a + BlkSize(t)
<1> DEFINE n == BlkSize(t)
           k == Fields(t)
           f == FieldsAt(a, t)
<1>1. n \in Nat /\ k \in Nat /\ k < n  BY TypeFacts
<1>2. f = [i \in 1..k |-> a + n - k + i - 1]  BY DEF FieldsAt
<1> HIDE DEF n, k, f
<1>3. f \in [1..k -> Nat]  BY <1>1, <1>2
<1>4. f \in Seq(Nat) /\ Len(f) = k  BY <1>1, <1>3
<1>5. DOMAIN f = 1..k /\ \A i \in 1..k : f[i] = a + n - k + i - 1  BY <1>2
<1>6. \A w : w \in ToSet(f) <=> \E i \in 1..k : w = a + n - k + i - 1
  <2>1. ToSet(f) = {f[i] : i \in 1..k}  BY <1>5 DEF ToSet
  <2> QED  BY <1>5, <2>1
<1>7. \A w \in a + n - k .. a + n - 1 : \E i \in 1..k : w = a + n - k + i - 1
  <2> SUFFICES ASSUME NEW w \in a + n - k .. a + n - 1
               PROVE  \E i \in 1..k : w = a + n - k + i - 1
    OBVIOUS
  <2>1. w - (a + n - k) + 1 \in 1..k  BY <1>1
  <2>2. w = a + n - k + (w - (a + n - k) + 1) - 1  BY <1>1
  <2> QED  BY <2>1, <2>2
<1>8. \A i \in 1..k : a + n - k + i - 1 \in a + n - k .. a + n - 1  BY <1>1
<1>9. ToSet(f) = a + n - k .. a + n - 1
  <2>1. \A w \in ToSet(f) : w \in a + n - k .. a + n - 1  BY <1>6, <1>8
  <2>2. \A w \in a + n - k .. a + n - 1 : w \in ToSet(f)  BY <1>6, <1>7
  <2> QED  BY <2>1, <2>2, Zenon
<1>10. \A w \in a + n - k .. a + n - 1 : w \in Nat /\ a < w /\ w < a + n  BY <1>1
<1> QED  BY <1>4, <1>5, <1>9, <1>10 DEF f, n, k

LEMMA FieldsInBlock ==
    ASSUME NEW m, NEW fr, Shape(m, fr), NEW a \in Blocks(m, fr),
           NEW l \in ToSet(FieldsAt(a, m[a][2]))
    PROVE  /\ l \in BlockAt(m, a) /\ l # a /\ l \in Nat
           /\ l \in Locations /\ l \in Used(fr)
           /\ l \notin Blocks(m, fr) /\ ~ Is(m[l], "title") /\ l \notin Roots
<1>1. a \in Nat /\ m[a][2] \in Types /\ BlkSize(m[a][2]) \in Nat  BY BlockFacts
<1>2. l \in Nat /\ a < l /\ l < a + BlkSize(m[a][2])  BY <1>1, FieldFacts
<1>3. l \in BlockAt(m, a) /\ l # a
  <2> HIDE DEF BlkSize
  <2> QED  BY <1>1, <1>2 DEF BlockAt
<1>4. l \in Used(fr)  BY <1>3, InBlock
<1> QED  BY <1>2, <1>3, <1>4, InBlock, WordsFacts DEF Used

\* A slot is a variable or a field of one block.
LEMMA SlotOf ==
    ASSUME NEW m, NEW B, NEW l
    PROVE  l \in Slots(m, B) <=> l \in Roots \/ \E a \in B : l \in ToSet(FieldsAt(a, m[a][2]))
BY DEF Slots

LEMMA SlotFacts ==
    ASSUME NEW m, NEW fr, Shape(m, fr), NEW B \in SUBSET Blocks(m, fr), NEW l \in Slots(m, B)
    PROVE  /\ l \in Locations /\ l \notin Blocks(m, fr)
           /\ m[l] \in Word /\ ~ Is(m[l], "title") /\ ~ Is(m[l], "marked")
<1>1. CASE l \in Roots
  <2>1. l \notin Words  BY <1>1, WordsFacts
  <2> QED  BY <1>1, <2>1 DEF Shape, Locations, Blocks, Used
<1>2. CASE \E a \in B : l \in ToSet(FieldsAt(a, m[a][2]))
  <2>1. PICK a \in Blocks(m, fr) : l \in ToSet(FieldsAt(a, m[a][2]))  BY <1>2
  <2>2. l \in Locations /\ l \notin Blocks(m, fr) /\ ~ Is(m[l], "title")  BY <2>1, FieldsInBlock
  <2> QED  BY <2>2 DEF Shape
<1> QED  BY <1>1, <1>2, SlotOf

\* The fields of two blocks are different locations.
LEMMA FieldsApart ==
    ASSUME NEW m, NEW fr, Shape(m, fr), NEW a \in Blocks(m, fr), NEW b \in Blocks(m, fr),
           NEW w \in BlockAt(m, a), w \in BlockAt(m, b)
    PROVE  a = b
<1>1. a \in Nat /\ b \in Nat /\ w \in Nat  BY BlockFacts, InBlock
<1>2. a <= w /\ w < a + BlkSize(m[a][2]) /\ b <= w /\ w < b + BlkSize(m[b][2])  BY InBlock
<1>3. BlkSize(m[a][2]) \in Nat /\ BlkSize(m[b][2]) \in Nat  BY BlockFacts
<1>4. a < b => a + BlkSize(m[a][2]) <= b  BY BlocksApart
<1>5. b < a => b + BlkSize(m[b][2]) <= a  BY BlocksApart
<1> HIDE DEF BlkSize
<1> QED  BY <1>1, <1>2, <1>3, <1>4, <1>5

-----------------------------------------------------------------------------
(* What can be reached *)

LEMMA Onward ==
    ASSUME NEW m, NEW X, NEW B, X \subseteq B, NEW M, NEW L, L \subseteq M
    PROVE  Slots(m, X) \subseteq Slots(m, B) /\ Targets(m, L) \subseteq Targets(m, M)
BY DEF Slots, Targets

LEMMA TitlesFinite ==
    ASSUME NEW m
    PROVE  IsFiniteSet(Titles(m)) /\ Cardinality(Titles(m)) \in Nat
<1>1. Titles(m) \in SUBSET Words  BY DEF Titles
<1> QED  BY <1>1, WordsFacts, FS_Subset, FS_CardinalityType

LEMMA Rounds ==
    ASSUME NEW m, NEW B, Targets(m, Slots(m, B)) \subseteq B
    PROVE  \E f : /\ f[0] = {}
                  /\ \A i \in 1 .. Cardinality(Titles(m)) :
                        f[i] = f[i - 1] \cup Targets(m, Slots(m, f[i - 1]))
                  /\ \A i \in 0 .. Cardinality(Titles(m)) : f[i] \subseteq B
                  /\ Reach(m) = f[Cardinality(Titles(m))]
<1> DEFINE N == Cardinality(Titles(m))
           next(X) == X \cup Targets(m, Slots(m, X))
           Good == [i \in 0..N |-> SUBSET B]
           G == [i \in 1..N |-> [X \in SUBSET B |-> next(X)]]
           round[n \in 0..N] ==
               IF n = 0 THEN {} ELSE LET X == round[n - 1] IN X \cup Targets(m, Slots(m, X))
<1>1. N \in Nat  BY TitlesFinite
<1>2. Reach(m) = round[N]  BY DEF Reach
<1>3. \A X \in SUBSET B : next(X) \in SUBSET B
  <2> SUFFICES ASSUME NEW X \in SUBSET B  PROVE Targets(m, Slots(m, X)) \subseteq B
    OBVIOUS
  <2>1. Slots(m, X) \subseteq Slots(m, B)  BY Onward
  <2>2. Targets(m, Slots(m, X)) \subseteq Targets(m, Slots(m, B))  BY <2>1, Onward
  <2> QED  BY <2>2
<1> HIDE DEF N, next
<1>4. \A i \in 1..N : \A X \in Good[i - 1] : G[i][X] \in Good[i]
  <2> SUFFICES ASSUME NEW i \in 1..N, NEW X \in Good[i - 1]  PROVE G[i][X] \in Good[i]
    OBVIOUS
  <2>1. i \in 0..N /\ i - 1 \in 0..N  BY <1>1
  <2> QED  BY <1>3, <2>1
<1>5. {} \in Good[0]  BY <1>1
<1>6. PICK f : Loop(f, N, {}, G) /\ \A i \in 0..N : f[i] \in Good[i]
  <2> HIDE DEF Good, G, round
  <2> QED  BY <1>1, <1>4, <1>5, LoopExists
<1>7. \A i \in 0..N : f[i] \in SUBSET B  BY <1>6
<1>8. \A i \in 0..N : f[i] = IF i = 0 THEN {} ELSE next(f[i - 1])
  <2> SUFFICES ASSUME NEW i \in 0..N, i # 0  PROVE f[i] = next(f[i - 1])
    BY <1>6 DEF Loop
  <2>1. i \in 1..N /\ i - 1 \in 0..N  BY <1>1
  <2>2. f[i] = G[i][f[i - 1]]  BY <1>6 DEF Loop
  <2> QED  BY <1>7, <2>1, <2>2
<1>9. f = [n \in 0..N |->
             IF n = 0 THEN {} ELSE LET X == f[n - 1] IN X \cup Targets(m, Slots(m, X))]
  <2>1. f = [i \in 0..N |-> f[i]]  BY <1>6 DEF Loop
  <2> QED  BY <1>8, <2>1 DEF next
<1>10. round = [n \in 0..N |->
                 IF n = 0 THEN {} ELSE LET X == round[n - 1] IN X \cup Targets(m, Slots(m, X))]
  BY <1>9 DEF round
<1> HIDE DEF round, Good, G
<1>11. round[0] = {} /\ \A i \in 1..N : round[i] = round[i - 1] \cup Targets(m, Slots(m, round[i - 1]))
  <2>1. 0 \in 0..N /\ \A i \in 1..N : i \in 0..N /\ i # 0  BY <1>1
  <2> QED  BY <1>10, <2>1
<1>12. \A i \in 0..N : round[i] \in SUBSET B
  <2> DEFINE S == {i \in 0..N : round[i] \in SUBSET B}
  <2>1. 0 \in S  BY <1>1, <1>11
  <2>2. \A i \in 1..N : i - 1 \in S => i \in S  BY <1>3, <1>11 DEF next
  <2>3. \A i \in 0..N : i \in S
    <3> HIDE DEF S
    <3> QED  BY <1>1, <2>1, <2>2, Climb
  <2> QED  BY <2>3
<1> QED  BY <1>2, <1>11, <1>12 DEF N

\* The rounds stop at the least set that the variables and its own fields do
\* not lead out of: each round before adds a block.
LEMMA ReachLeast ==
    ASSUME NEW m, NEW B, Targets(m, Slots(m, B)) \subseteq B, B \subseteq Titles(m)
    PROVE  /\ Reach(m) \subseteq B
           /\ Targets(m, Slots(m, Reach(m))) \subseteq Reach(m)
           /\ \A X : Targets(m, Slots(m, X)) \subseteq X => Reach(m) \subseteq X
<1> DEFINE N == Cardinality(Titles(m))
           Closed(X) == Targets(m, Slots(m, X)) \subseteq X
<1>1. IsFiniteSet(Titles(m)) /\ N \in Nat  BY TitlesFinite
<1>2. PICK f : /\ f[0] = {}
               /\ \A i \in 1..N : f[i] = f[i - 1] \cup Targets(m, Slots(m, f[i - 1]))
               /\ \A i \in 0..N : f[i] \subseteq B
               /\ Reach(m) = f[N]
  BY Rounds
<1>3. \A i \in 0..N : IsFiniteSet(f[i]) /\ Cardinality(f[i]) \in Nat
  <2> SUFFICES ASSUME NEW i \in 0..N  PROVE IsFiniteSet(f[i]) /\ Cardinality(f[i]) \in Nat
    OBVIOUS
  <2>1. f[i] \in SUBSET Titles(m)  BY <1>2
  <2> QED  BY <1>1, <2>1, FS_Subset, FS_CardinalityType
<1> HIDE DEF N
<1>4. Closed(f[N])
  <2> DEFINE S == {i \in 0..N : Closed(f[i]) \/ Cardinality(f[i]) >= i}
  <2>1. 0 \in S  BY <1>1, <1>3
  <2>2. \A i \in 1..N : i - 1 \in S => i \in S
    <3> SUFFICES ASSUME NEW i \in 1..N, i - 1 \in S  PROVE i \in S
      OBVIOUS
    <3>1. i - 1 \in 0..N /\ i \in 0..N /\ i \in Nat  BY <1>1
    <3>2. f[i] = f[i - 1] \cup Targets(m, Slots(m, f[i - 1]))  BY <1>2
    <3>3. CASE Closed(f[i - 1])
      <4>1. f[i] = f[i - 1]  BY <3>2, <3>3
      <4> QED  BY <3>1, <3>3, <4>1
    <3>4. CASE ~ Closed(f[i - 1])
      <4>1. Cardinality(f[i - 1]) >= i - 1
        <5> HIDE DEF Closed
        <5> QED  BY <3>4
      <4>2. f[i - 1] \in SUBSET f[i] /\ f[i - 1] # f[i]  BY <3>2, <3>4
      <4>3. IsFiniteSet(f[i]) /\ Cardinality(f[i]) \in Nat /\ Cardinality(f[i - 1]) \in Nat
        BY <1>3, <3>1
      <4>4. Cardinality(f[i - 1]) <= Cardinality(f[i])
            /\ Cardinality(f[i - 1]) # Cardinality(f[i])
        BY <4>2, <4>3, FS_Subset
      <4>5. Cardinality(f[i]) >= i  BY <3>1, <4>1, <4>3, <4>4
      <4> QED  BY <3>1, <4>5
    <3> QED  BY <3>3, <3>4
  <2>3. N \in S
    <3> HIDE DEF S
    <3>1. \A i \in 0..N : i \in S  BY <1>1, <2>1, <2>2, Climb
    <3> QED  BY <1>1, <3>1
  <2>4. CASE Cardinality(f[N]) >= N
    <3>1. N \in 0..N  BY <1>1
    <3>2. f[N] \in SUBSET Titles(m) /\ f[N] \subseteq B  BY <1>2, <3>1
    <3>3. Cardinality(f[N]) <= N /\ (N = Cardinality(f[N]) => Titles(m) = f[N])
      BY <1>1, <3>2, FS_Subset DEF N
    <3>4. Cardinality(f[N]) \in Nat  BY <1>3, <3>1
    <3>5. Titles(m) = f[N]  BY <1>1, <2>4, <3>3, <3>4
    <3>6. f[N] = B  BY <3>2, <3>5
    <3> QED  BY <3>6
  <2> QED  BY <2>3, <2>4
<1>5. ASSUME NEW X, Closed(X)  PROVE f[N] \subseteq X
  <2> DEFINE S == {i \in 0..N : f[i] \subseteq X}
  <2>1. 0 \in S  BY <1>1, <1>2
  <2>2. \A i \in 1..N : i - 1 \in S => i \in S
    <3> SUFFICES ASSUME NEW i \in 1..N, i - 1 \in S  PROVE i \in S
      OBVIOUS
    <3>1. f[i - 1] \subseteq X /\ i \in 0..N  BY <1>1
    <3>2. Slots(m, f[i - 1]) \subseteq Slots(m, X)  BY <3>1, Onward
    <3>3. Targets(m, Slots(m, f[i - 1])) \subseteq Targets(m, Slots(m, X))  BY <3>2, Onward
    <3>4. f[i] = f[i - 1] \cup Targets(m, Slots(m, f[i - 1]))  BY <1>2
    <3>5. f[i] \subseteq X  BY <1>5, <3>1, <3>3, <3>4
    <3> QED  BY <3>1, <3>5
  <2>3. \A i \in 0..N : i \in S
    <3> HIDE DEF S
    <3> QED  BY <1>1, <2>1, <2>2, Climb
  <2> QED  BY <1>1, <2>3
<1>6. N \in 0..N  BY <1>1
<1> QED  BY <1>2, <1>4, <1>5, <1>6

\* What can be reached is a heap, the least there is.
LEMMA ReachHeap ==
    ASSUME NEW m, NEW fr, NEW B, Heap(m, fr, B)
    PROVE  /\ Reach(m) \subseteq B /\ Heap(m, fr, Reach(m))
           /\ \A X : Targets(m, Slots(m, X)) \subseteq X => Reach(m) \subseteq X
<1>1. B \subseteq Titles(m)  BY DEF Heap, Blocks, Used, Titles
<1>2. Targets(m, Slots(m, B)) \subseteq B  BY DEF Heap
<1>3. /\ Reach(m) \subseteq B
      /\ Targets(m, Slots(m, Reach(m))) \subseteq Reach(m)
      /\ \A X : Targets(m, Slots(m, X)) \subseteq X => Reach(m) \subseteq X
  BY <1>1, <1>2, ReachLeast
<1> QED  BY <1>3 DEF Heap

\* A reference in a slot leads to a block that is reached.
LEMMA Followed ==
    ASSUME NEW m, NEW fr, NEW B, Heap(m, fr, B), NEW l \in Slots(m, B), Is(m[l], "ref")
    PROVE  m[l][2] \in B /\ m[l] = Ref(m[l][2])
<1>1. m[l][2] \in B  BY DEF Heap, Targets
<1>2. m[l] \in Word  BY SlotFacts DEF Heap
<1> QED  BY <1>1, <1>2, WordKinds

-----------------------------------------------------------------------------
(* Chains *)

\* The locations of V that refer to a in m.
Refs(m, V, a) == {l \in V : m[l] = Ref(a)}

\* Those of S that were visited before l, where pos numbers the visits.
Below(S, pos, l) == {k \in S : pos[k] < pos[l]}

Latest(S, pos) == CHOOSE l \in S : \A k \in S : pos[k] <= pos[l]

\* What a chain of the locations S with w at its end starts with.
Top(S, pos, w) == IF S = {} THEN w ELSE Ref(Latest(S, pos))

\* A location that refers to a block of the current region.
Threaded(m, l) == Is(m[l], "ref") /\ InRegion(curblock, m[l][2])

\* n is the memory m in which the locations V have been visited and the chains
\* of the blocks of the current region before x been undone, with the
\* addresses in to.
Thread(n, m, V, pos, x, to) ==
    /\ n \in [Locations -> Word]
    /\ \A l \in V : Threaded(m, l) =>
         n[l] = IF m[l][2] < x THEN Ref(to[m[l][2]])
                ELSE Top(Below(Refs(m, V, m[l][2]), pos, l), pos, m[m[l][2]])
    /\ \A a \in Blocks(m, free) :
         n[a] = IF Refs(m, V, a) = {} THEN m[a]
                ELSE IF InRegion(curblock, a) /\ a >= x THEN Top(Refs(m, V, a), pos, m[a])
                ELSE Marked(m[a][2])
    /\ \A l \in Locations : l \notin Blocks(m, free) /\ ~(l \in V /\ Threaded(m, l)) =>
         n[l] = m[l]

\* pos with loc visited at i.
Later(pos, V, loc, i) == [l \in V \cup {loc} |-> IF l = loc THEN i ELSE pos[l]]

Numbered(pos, V, i) ==
    /\ pos \in [V -> Nat] /\ i \in Nat
    /\ \A l \in V : pos[l] < i
    /\ \A k, l \in V : pos[k] = pos[l] => k = l

LEMMA LaterNumbered ==
    ASSUME NEW V, NEW pos, NEW i, Numbered(pos, V, i), NEW loc, loc \notin V
    PROVE  Numbered(Later(pos, V, loc, i), V \cup {loc}, i + 1)
<1> DEFINE p == Later(pos, V, loc, i)
<1>1. p = [l \in V \cup {loc} |-> IF l = loc THEN i ELSE pos[l]]  BY DEF Later
<1>2. p[loc] = i /\ \A l \in V : p[l] = pos[l]  BY <1>1
<1> HIDE DEF p
<1>3. \A l \in V \cup {loc} : p[l] \in Nat /\ p[l] < i + 1  BY <1>2 DEF Numbered
<1>4. p \in [V \cup {loc} -> Nat]
  <2>1. p = [l \in V \cup {loc} |-> p[l]]  BY <1>1
  <2> QED  BY <1>3, <2>1
<1>5. ASSUME NEW k \in V \cup {loc}, NEW l \in V \cup {loc}, p[k] = p[l]  PROVE k = l
  <2>1. CASE k \in V /\ l \in V  BY <1>2, <1>5, <2>1 DEF Numbered
  <2>2. CASE k = loc /\ l \in V
    <3>1. p[l] = pos[l] /\ pos[l] \in Nat /\ pos[l] < i /\ i \in Nat  BY <1>2, <2>2 DEF Numbered
    <3> QED  BY <1>2, <1>5, <2>2, <3>1
  <2>3. CASE k \in V /\ l = loc
    <3>1. p[k] = pos[k] /\ pos[k] \in Nat /\ pos[k] < i /\ i \in Nat  BY <1>2, <2>3 DEF Numbered
    <3> QED  BY <1>2, <1>5, <2>3, <3>1
  <2> QED  BY <2>1, <2>2, <2>3
<1>6. i + 1 \in Nat  BY DEF Numbered
<1> QED  BY <1>2, <1>3, <1>4, <1>5, <1>6 DEF p, Numbered

\* The visits before do not change with another.
LEMMA SameChain ==
    ASSUME NEW V, NEW pos, NEW p, \A l \in V : p[l] = pos[l], NEW S, S \subseteq V, NEW w
    PROVE  /\ Top(S, p, w) = Top(S, pos, w)
           /\ \A l \in V : Below(S, p, l) = Below(S, pos, l)
<1>1. \A l \in V : Below(S, p, l) = Below(S, pos, l)  BY DEF Below
<1>2. \A l : (l \in S /\ \A k \in S : p[k] <= p[l]) <=> (l \in S /\ \A k \in S : pos[k] <= pos[l])
  OBVIOUS
<1>3. Latest(S, p) = Latest(S, pos)  BY <1>2, Zenon DEF Latest
<1> QED  BY <1>1, <1>3 DEF Top

\* The location visited last is on top of the chain.
LEMMA LongerChain ==
    ASSUME NEW V, NEW pos, NEW i, Numbered(pos, V, i), NEW loc, loc \notin V,
           NEW S, S \subseteq V
    PROVE  /\ \A w : Top(S \cup {loc}, Later(pos, V, loc, i), w) = Ref(loc)
           /\ Below(S \cup {loc}, Later(pos, V, loc, i), loc) = S
           /\ \A l \in V : Below(S \cup {loc}, Later(pos, V, loc, i), l) = Below(S, pos, l)
<1>0. /\ Later(pos, V, loc, i)[loc] = i
      /\ \A l \in V : Later(pos, V, loc, i)[l] = pos[l]
  BY DEF Later
<1> DEFINE p == Later(pos, V, loc, i)
           T == S \cup {loc}
<1>1. p[loc] = i /\ \A l \in V : p[l] = pos[l]  BY <1>0
<1>2. i \in Nat /\ \A l \in V : pos[l] \in Nat /\ pos[l] < i  BY DEF Numbered
<1> HIDE DEF p
<1>3. \A l \in V : p[l] < i /\ ~(i <= p[l]) /\ p[l] <= i /\ ~(i < p[l])  BY <1>1, <1>2
<1>4. i <= i /\ ~(i < i)  BY <1>2
<1>5. \A l : (l \in T /\ \A k \in T : p[k] <= p[l]) <=> l = loc  BY <1>1, <1>3, <1>4
<1>6. Latest(T, p) = loc
  <2> HIDE DEF T
  <2> QED  BY <1>5 DEF Latest
<1>7. \A w : Top(T, p, w) = Ref(loc)
  <2>1. T # {}  OBVIOUS
  <2> HIDE DEF T
  <2> QED  BY <1>6, <2>1 DEF Top
<1>8. Below(T, p, loc) = S  BY <1>1, <1>3, <1>4 DEF Below
<1>9. \A l \in V : Below(T, p, l) = Below(S, pos, l)
  <2> SUFFICES ASSUME NEW l \in V  PROVE Below(T, p, l) = Below(S, pos, l)
    OBVIOUS
  <2>1. ~(p[loc] < p[l])  BY <1>1, <1>3
  <2>2. \A k \in S : p[k] = pos[k] /\ p[l] = pos[l]  BY <1>1
  <2> QED  BY <2>1, <2>2 DEF Below
<1> QED  BY <1>7, <1>8, <1>9 DEF p

\* A chain that is not empty starts with its location visited last.
LEMMA TopOf ==
    ASSUME NEW V \in SUBSET Locations, NEW pos, NEW i, Numbered(pos, V, i),
           NEW S, S \subseteq V, S # {}, NEW w
    PROVE  \E l \in S : /\ Top(S, pos, w) = Ref(l)
                        /\ \A k \in S : pos[k] <= pos[l]
                        /\ Below(S, pos, l) = S \ {l}
<1> DEFINE P(l) == \A k \in S : pos[k] <= pos[l]
           U == {j \in Nat : \E l \in S : j = i - pos[l]}
<1>1. i \in Nat /\ \A l \in S : pos[l] \in Nat /\ pos[l] < i  BY DEF Numbered
<1>2. \A l \in S : i - pos[l] \in U  BY <1>1
<1>3. U # {} /\ U \in SUBSET Nat  BY <1>2
<1>4. PICK j \in U : \A k \in U : j <= k
  <2> HIDE DEF U
  <2> QED  BY <1>3, LeastNat
<1>5. PICK l \in S : j = i - pos[l]  OBVIOUS
<1>6. P(l)
  <2> SUFFICES ASSUME NEW k \in S  PROVE pos[k] <= pos[l]
    OBVIOUS
  <2>1. i - pos[l] <= i - pos[k]  BY <1>2, <1>4, <1>5
  <2> QED  BY <1>1, <2>1
<1>7. (CHOOSE x \in S : P(x)) \in S /\ P(CHOOSE x \in S : P(x))
  <2> HIDE DEF P
  <2> QED  BY <1>6
<1> DEFINE t == CHOOSE x \in S : P(x)
<1>8. t \in S /\ \A k \in S : pos[k] <= pos[t]  BY <1>7
<1>9. Top(S, pos, w) = Ref(t)  BY DEF Top, Latest
<1> HIDE DEF t
<1>10. Below(S, pos, t) = S \ {t}
  <2>1. \A k \in S : k # t => pos[k] # pos[t]  BY <1>8 DEF Numbered
  <2>2. \A k \in S : k # t => pos[k] < pos[t]  BY <1>1, <1>8, <2>1
  <2>3. ~(pos[t] < pos[t])  BY <1>1, <1>8
  <2> QED  BY <2>2, <2>3 DEF Below
<1> QED  BY <1>8, <1>9, <1>10

LEMMA TopWord ==
    ASSUME NEW V \in SUBSET Locations, NEW pos, NEW i, Numbered(pos, V, i),
           NEW S, S \subseteq V, NEW w \in Word
    PROVE  /\ Top(S, pos, w) \in Word
           /\ S = {} => Top(S, pos, w) = w
           /\ S # {} => Is(Top(S, pos, w), "ref") /\ Top(S, pos, w)[2] \in S
<1>1. CASE S = {}  BY <1>1 DEF Top
<1>2. CASE S # {}
  <2>1. PICK l \in S : Top(S, pos, w) = Ref(l)  BY <1>2, TopOf
  <2>2. l \in Locations  OBVIOUS
  <2> QED  BY <1>2, <2>1, <2>2, KindsOfWords
<1> QED  BY <1>1, <1>2

LEMMA OneMoreRef ==
    ASSUME NEW m, NEW V, NEW loc, NEW a
    PROVE  Refs(m, V \cup {loc}, a) = IF m[loc] = Ref(a) THEN Refs(m, V, a) \cup {loc}
                                      ELSE Refs(m, V, a)
BY DEF Refs

LEMMA RefsIn ==
    ASSUME NEW m \in [Locations -> Word], NEW V \in SUBSET Locations, NEW a
    PROVE  Refs(m, V, a) \subseteq V /\ (Refs(m, V, a) # {} <=> a \in Targets(m, V))
<1>1. Refs(m, V, a) \subseteq V  BY DEF Refs
<1>2. ASSUME NEW l \in V, m[l] = Ref(a)  PROVE a \in Targets(m, V)
  <2>1. Is(m[l], "ref") /\ m[l][2] = a  BY <1>2, KindsOfWords
  <2> QED  BY <2>1 DEF Targets
<1>3. ASSUME a \in Targets(m, V)  PROVE Refs(m, V, a) # {}
  <2>1. PICK l \in V : Is(m[l], "ref") /\ m[l][2] = a  BY <1>3 DEF Targets
  <2>2. m[l] \in Word  OBVIOUS
  <2>3. m[l] = Ref(a)  BY <2>1, <2>2, WordKinds
  <2> QED  BY <2>3 DEF Refs
<1> QED  BY <1>1, <1>2, <1>3 DEF Refs

-----------------------------------------------------------------------------
(* Marking *)

\* n is the memory m in which the locations V have been visited.
Threads(n, m, V, pos) ==
    /\ n \in [Locations -> Word]
    /\ \A l \in V : Threaded(m, l) =>
         n[l] = Top(Below(Refs(m, V, m[l][2]), pos, l), pos, m[m[l][2]])
    /\ \A a \in Blocks(m, free) :
         n[a] = IF Refs(m, V, a) = {} THEN m[a]
                ELSE IF InRegion(curblock, a) THEN Top(Refs(m, V, a), pos, m[a])
                ELSE Marked(m[a][2])
    /\ \A l \in Locations : l \notin Blocks(m, free) /\ ~(l \in V /\ Threaded(m, l)) =>
         n[l] = m[l]

\* What a visit leaves as it is.
LEMMA OldChains ==
    ASSUME NEW m, NEW V, NEW pos, NEW i, NEW loc, loc \notin V
    PROVE  /\ \A a, w : Top(Refs(m, V, a), Later(pos, V, loc, i), w) = Top(Refs(m, V, a), pos, w)
           /\ \A a, w : \A l \in V :
                Top(Below(Refs(m, V, a), Later(pos, V, loc, i), l), Later(pos, V, loc, i), w)
                  = Top(Below(Refs(m, V, a), pos, l), pos, w)
<1> DEFINE p == Later(pos, V, loc, i)
<1>1. \A l \in V : p[l] = pos[l]  BY DEF Later
<1> HIDE DEF p
<1>2. \A a : Refs(m, V, a) \subseteq V  BY DEF Refs
<1>3. \A a : \A l \in V : Below(Refs(m, V, a), pos, l) \subseteq V  BY <1>2 DEF Below
<1>4. \A a, w : Top(Refs(m, V, a), p, w) = Top(Refs(m, V, a), pos, w)  BY <1>1, <1>2, SameChain
<1>5. ASSUME NEW a, NEW w, NEW l \in V
      PROVE  Top(Below(Refs(m, V, a), p, l), p, w) = Top(Below(Refs(m, V, a), pos, l), pos, w)
  <2>1. Below(Refs(m, V, a), p, l) = Below(Refs(m, V, a), pos, l)  BY <1>1, <1>2, SameChain
  <2>2. Top(Below(Refs(m, V, a), pos, l), p, w) = Top(Below(Refs(m, V, a), pos, l), pos, w)
    BY <1>1, <1>3, SameChain
  <2> QED  BY <2>1, <2>2
<1> QED  BY <1>4, <1>5 DEF p

\* A visit of a location that is not a reference.
LEMMA VisitPlain ==
    ASSUME NEW m, Shape(m, free), NEW n, NEW V \in SUBSET Locations, NEW pos, NEW i,
           Threads(n, m, V, pos), NEW loc \in Locations, loc \notin V, ~ Is(m[loc], "ref")
    PROVE  Threads(n, m, V \cup {loc}, Later(pos, V, loc, i))
<1> DEFINE p == Later(pos, V, loc, i)
           W == V \cup {loc}
<1>1. \A a : m[loc] # Ref(a)  BY KindsOfWords
<1>2. \A a : Refs(m, W, a) = Refs(m, V, a)  BY <1>1, OneMoreRef
<1>3. ~ Threaded(m, loc)  BY DEF Threaded
<1>4. /\ \A a, w : Top(Refs(m, V, a), p, w) = Top(Refs(m, V, a), pos, w)
      /\ \A a, w : \A l \in V :
           Top(Below(Refs(m, V, a), p, l), p, w) = Top(Below(Refs(m, V, a), pos, l), pos, w)
  BY OldChains
<1>5. \A l : l \in W /\ Threaded(m, l) <=> l \in V /\ Threaded(m, l)  BY <1>3
<1> HIDE DEF p, W
<1>6. Threads(n, m, W, p)  BY <1>2, <1>4, <1>5 DEF Threads
<1> QED  BY <1>6 DEF p, W

MarkedAt(n, a, t) == [n EXCEPT ![a] = Marked(t)]

\* The location loc joins the chain of the block at a.
Joined(n, loc, a) == [n EXCEPT ![loc] = n[a], ![a] = Ref(loc)]

\* The visits so far, and loc, which refers to the block at a and comes next.
Due(n, m, V, pos, i, loc, a) ==
    /\ Shape(m, free) /\ V \in SUBSET Locations
    /\ Numbered(pos, V, i) /\ Threads(n, m, V, pos)
    /\ loc \in Locations /\ loc \notin V /\ loc \notin Blocks(m, free)
    /\ a \in Blocks(m, free) /\ m[loc] = Ref(a)

\* A visit of a reference to a block of another region.
LEMMA VisitOther ==
    ASSUME NEW m, NEW n, NEW V, NEW pos, NEW i, NEW loc, NEW a,
           Due(n, m, V, pos, i, loc, a), ~ InRegion(curblock, a)
    PROVE  /\ Threads(MarkedAt(n, a, m[a][2]), m, V \cup {loc}, Later(pos, V, loc, i))
           /\ Is(n[a], "title") => n[a] = m[a] /\ Refs(m, V, a) = {}
           /\ ~ Is(n[a], "title") => n[a] = Marked(m[a][2]) /\ Refs(m, V, a) # {}
<1> DEFINE p == Later(pos, V, loc, i)
           W == V \cup {loc}
           k == MarkedAt(n, a, m[a][2])
<1>0. /\ Shape(m, free) /\ V \in SUBSET Locations /\ Threads(n, m, V, pos)
      /\ loc \in Locations /\ loc \notin V /\ loc \notin Blocks(m, free)
      /\ a \in Blocks(m, free) /\ m[loc] = Ref(a)
  BY DEF Due
<1> USE <1>0
<1>1. a \in Locations /\ m[a][2] \in Types /\ Is(m[a], "title")  BY BlockFacts DEF Blocks
<1>2. m[loc][2] = a /\ \A b : m[loc] = Ref(b) <=> b = a  BY KindsOfWords
<1>3. ~ Threaded(m, loc)  BY <1>2 DEF Threaded
<1>4. Refs(m, W, a) # {} /\ \A b : b # a => Refs(m, W, b) = Refs(m, V, b)
  <2> HIDE DEF p, k
  <2>1. \A b : Refs(m, W, b) = IF m[loc] = Ref(b) THEN Refs(m, V, b) \cup {loc} ELSE Refs(m, V, b)
    BY OneMoreRef
  <2> HIDE DEF W
  <2> QED  BY <1>2, <2>1
<1>5. /\ \A b, w : Top(Refs(m, V, b), p, w) = Top(Refs(m, V, b), pos, w)
      /\ \A b, w : \A l \in V :
           Top(Below(Refs(m, V, b), p, l), p, w) = Top(Below(Refs(m, V, b), pos, l), pos, w)
  BY OldChains
<1>6. \A l : l \in W /\ Threaded(m, l) <=> l \in V /\ Threaded(m, l)  BY <1>3
<1>7. n \in [Locations -> Word]  BY DEF Threads
<1>8. k \in [Locations -> Word] /\ k[a] = Marked(m[a][2])
      /\ \A l \in Locations : l # a => k[l] = n[l]
  BY <1>1, <1>7, KindsOfWords DEF MarkedAt
<1>9. \A l \in V : Threaded(m, l) => m[l][2] # a /\ l # a
  <2> SUFFICES ASSUME NEW l \in V, Threaded(m, l)  PROVE m[l][2] # a /\ l # a
    OBVIOUS
  <2>1. InRegion(curblock, m[l][2]) /\ Is(m[l], "ref")  BY DEF Threaded
  <2>2. l # a  BY <1>1, <2>1, OneKind
  <2> QED  BY <2>1, <2>2
<1> HIDE DEF p, W, k
<1>10. Threads(k, m, W, p)
  <2>1. \A l \in W : Threaded(m, l) =>
          k[l] = Top(Below(Refs(m, W, m[l][2]), p, l), p, m[m[l][2]])
    <3> SUFFICES ASSUME NEW l \in V, Threaded(m, l)
                 PROVE  k[l] = Top(Below(Refs(m, W, m[l][2]), p, l), p, m[m[l][2]])
      BY <1>6
    <3>1. k[l] = n[l] /\ m[l][2] # a  BY <1>8, <1>9
    <3>2. n[l] = Top(Below(Refs(m, V, m[l][2]), pos, l), pos, m[m[l][2]])  BY DEF Threads
    <3> QED  BY <1>4, <1>5, <3>1, <3>2
  <2>2. \A b \in Blocks(m, free) :
          k[b] = IF Refs(m, W, b) = {} THEN m[b]
                 ELSE IF InRegion(curblock, b) THEN Top(Refs(m, W, b), p, m[b])
                 ELSE Marked(m[b][2])
    <3> SUFFICES ASSUME NEW b \in Blocks(m, free)
                 PROVE  k[b] = IF Refs(m, W, b) = {} THEN m[b]
                               ELSE IF InRegion(curblock, b) THEN Top(Refs(m, W, b), p, m[b])
                               ELSE Marked(m[b][2])
      OBVIOUS
    <3>1. CASE b = a  BY <1>4, <1>8, <3>1
    <3>2. CASE b # a
      <4>1. b \in Locations  BY BlockFacts
      <4> QED  BY <1>4, <1>5, <1>8, <3>2, <4>1 DEF Threads
    <3> QED  BY <3>1, <3>2
  <2>3. \A l \in Locations : l \notin Blocks(m, free) /\ ~(l \in W /\ Threaded(m, l)) =>
          k[l] = m[l]
    BY <1>6, <1>8 DEF Threads
  <2> QED  BY <1>8, <2>1, <2>2, <2>3 DEF Threads
<1>11. n[a] = IF Refs(m, V, a) = {} THEN m[a] ELSE Marked(m[a][2])  BY DEF Threads
<1>12. Is(Marked(m[a][2]), "marked")  BY KindsOfWords
<1>13. ~ Is(Marked(m[a][2]), "title")  BY <1>12, OneKind
<1> QED  BY <1>1, <1>10, <1>11, <1>13 DEF p, W, k

\* A visit of a reference to a block of the current region: the location joins
\* the chain of the block.
LEMMA VisitCurrent ==
    ASSUME NEW m, NEW n, NEW V, NEW pos, NEW i, NEW loc, NEW a,
           Due(n, m, V, pos, i, loc, a), InRegion(curblock, a)
    PROVE  /\ Threads(Joined(n, loc, a), m, V \cup {loc}, Later(pos, V, loc, i))
           /\ Is(n[a], "title") => n[a] = m[a] /\ Refs(m, V, a) = {}
           /\ ~ Is(n[a], "title") => Refs(m, V, a) # {}
<1> DEFINE p == Later(pos, V, loc, i)
           W == V \cup {loc}
           k == Joined(n, loc, a)
           S == Refs(m, V, a)
<1>0. /\ Shape(m, free) /\ V \in SUBSET Locations
      /\ Numbered(pos, V, i) /\ Threads(n, m, V, pos)
      /\ loc \in Locations /\ loc \notin V /\ loc \notin Blocks(m, free)
      /\ a \in Blocks(m, free) /\ m[loc] = Ref(a)
  BY DEF Due
<1> USE <1>0
<1>1. a \in Locations /\ m[a] \in Word /\ Is(m[a], "title") /\ a # loc
  BY BlockFacts DEF Blocks, Shape
<1>2. m[loc][2] = a /\ (\A b : m[loc] = Ref(b) <=> b = a) /\ Is(m[loc], "ref")  BY KindsOfWords
<1>3. Refs(m, W, a) = S \cup {loc} /\ \A b : b # a => Refs(m, W, b) = Refs(m, V, b)
  <2> HIDE DEF p, k
  <2>1. \A b : Refs(m, W, b) = IF m[loc] = Ref(b) THEN Refs(m, V, b) \cup {loc} ELSE Refs(m, V, b)
    BY OneMoreRef
  <2> HIDE DEF W
  <2> QED  BY <1>2, <2>1
<1>4. S \subseteq V  BY DEF Refs
<1>5. /\ \A b, w : Top(Refs(m, V, b), p, w) = Top(Refs(m, V, b), pos, w)
      /\ \A b, w : \A l \in V :
           Top(Below(Refs(m, V, b), p, l), p, w) = Top(Below(Refs(m, V, b), pos, l), pos, w)
  BY OldChains
<1>6. /\ \A w : Top(S \cup {loc}, p, w) = Ref(loc)
      /\ Below(S \cup {loc}, p, loc) = S
      /\ \A l \in V : Below(S \cup {loc}, p, l) = Below(S, pos, l)
  <2>1. Numbered(pos, V, i) /\ loc \notin V /\ S \subseteq V  BY <1>4
  <2> HIDE DEF S
  <2>2. /\ \A w : Top(S \cup {loc}, Later(pos, V, loc, i), w) = Ref(loc)
        /\ Below(S \cup {loc}, Later(pos, V, loc, i), loc) = S
        /\ \A l \in V : Below(S \cup {loc}, Later(pos, V, loc, i), l) = Below(S, pos, l)
    BY ONLY <2>1, LongerChain
  <2> QED  BY <2>2
<1>7. \A l \in V : p[l] = pos[l]  BY DEF Later
<1>8. \A w : \A l \in V : Top(Below(S, pos, l), p, w) = Top(Below(S, pos, l), pos, w)
  <2>1. \A l \in V : Below(S, pos, l) \subseteq V  BY <1>4 DEF Below
  <2> HIDE DEF S, p
  <2> QED  BY <1>7, <2>1, SameChain
<1>9. n \in [Locations -> Word]  BY DEF Threads
<1>10. n[a] = Top(S, pos, m[a])
  <2>1. S = {} => Top(S, pos, m[a]) = m[a]  BY DEF Top
  <2> QED  BY <2>1 DEF Threads
<1>11. /\ k \in [Locations -> Word] /\ k[a] = Ref(loc) /\ k[loc] = n[a]
       /\ \A l \in Locations : l # a /\ l # loc => k[l] = n[l]
  BY <1>1, <1>9, KindsOfWords DEF Joined
<1>12. \A l \in V : l # loc  OBVIOUS
<1>13. \A l \in V : Threaded(m, l) => l # a
  <2>1. \A l \in V : Threaded(m, l) => Is(m[l], "ref")  BY DEF Threaded
  <2> QED  BY <1>1, <2>1, OneKind
<1> HIDE DEF p, k
<1>14. Threads(k, m, W, p)
  <2>1. ASSUME NEW l \in W, Threaded(m, l)
        PROVE  k[l] = Top(Below(Refs(m, W, m[l][2]), p, l), p, m[m[l][2]])
    <3>1. CASE l = loc
      <4>1. Top(S, p, m[a]) = Top(S, pos, m[a])  BY <1>5
      <4> HIDE DEF W, S
      <4> QED  BY <1>2, <1>3, <1>6, <1>10, <1>11, <3>1, <4>1
    <3>2. CASE l \in V
      <4>1. k[l] = n[l]  BY <1>11, <1>12, <1>13, <2>1, <3>2
      <4>2. n[l] = Top(Below(Refs(m, V, m[l][2]), pos, l), pos, m[m[l][2]])
        BY <2>1, <3>2 DEF Threads
      <4>3. CASE m[l][2] = a
        <5>1. Below(Refs(m, W, m[l][2]), p, l) = Below(S, pos, l)  BY <1>3, <1>6, <3>2, <4>3
        <5>2. Below(Refs(m, V, m[l][2]), pos, l) = Below(S, pos, l)  BY <4>3
        <5> HIDE DEF W, S
        <5> QED  BY <1>8, <3>2, <4>1, <4>2, <5>1, <5>2
      <4>4. CASE m[l][2] # a
        <5>1. Refs(m, W, m[l][2]) = Refs(m, V, m[l][2])  BY <1>3, <4>4
        <5> HIDE DEF W, S
        <5> QED  BY <1>5, <3>2, <4>1, <4>2, <5>1
      <4> QED  BY <4>3, <4>4
    <3> QED  BY <3>1, <3>2
  <2>2. ASSUME NEW b \in Blocks(m, free)
        PROVE  k[b] = IF Refs(m, W, b) = {} THEN m[b]
                      ELSE IF InRegion(curblock, b) THEN Top(Refs(m, W, b), p, m[b])
                      ELSE Marked(m[b][2])
    <3>1. CASE b = a
      <4>1. Refs(m, W, b) # {}  BY <1>3, <3>1
      <4>2. Top(Refs(m, W, b), p, m[b]) = Ref(loc)  BY <1>3, <1>6, <3>1
      <4> QED  BY <1>11, <3>1, <4>1, <4>2
    <3>2. CASE b # a
      <4>1. b \in Locations /\ b # loc  BY BlockFacts
      <4>2. Refs(m, W, b) = Refs(m, V, b) /\ k[b] = n[b]  BY <1>3, <1>11, <3>2, <4>1
      <4> HIDE DEF W, S
      <4> QED  BY <1>5, <4>2 DEF Threads
    <3> QED  BY <3>1, <3>2
  <2>3. ASSUME NEW l \in Locations, l \notin Blocks(m, free), ~(l \in W /\ Threaded(m, l))
        PROVE  k[l] = m[l]
    <3>1. Threaded(m, loc)  BY <1>2 DEF Threaded
    <3>2. l # loc /\ l # a /\ ~(l \in V /\ Threaded(m, l))  BY <2>3, <3>1
    <3> QED  BY <1>11, <2>3, <3>2 DEF Threads
  <2> HIDE DEF W
  <2> QED  BY <1>11, <2>1, <2>2, <2>3 DEF Threads
<1>15. Is(n[a], "title") => S = {}
  <2>1. ASSUME S # {}, Is(n[a], "title")  PROVE FALSE
    <3>1. Is(Top(S, pos, m[a]), "ref")
      <4> HIDE DEF S
      <4> QED  BY <1>1, <1>4, <2>1, TopWord
    <3> QED  BY <1>10, <2>1, <3>1, OneKind
  <2> QED  BY <2>1
<1>16. S = {} => n[a] = m[a]  BY <1>10 DEF Top
<1> QED  BY <1>1, <1>14, <1>15, <1>16 DEF p, k

LEMMA HeadSplit ==
    ASSUME NEW A, NEW t \in Seq(A), t # <<>>, IsInjective(t)
    PROVE  /\ Head(t) \in ToSet(t) /\ Head(t) \in A
           /\ Tail(t) \in Seq(A) /\ IsInjective(Tail(t))
           /\ ToSet(Tail(t)) = ToSet(t) \ {Head(t)}
<1>1. Len(t) \in Nat \ {0} /\ DOMAIN t = 1 .. Len(t) /\ Head(t) = t[1]  OBVIOUS
<1>2. /\ Tail(t) \in Seq(A) /\ Len(Tail(t)) = Len(t) - 1
      /\ \A i \in 1 .. Len(Tail(t)) : Tail(t)[i] = t[i + 1]
  BY HeadTailProperties
<1>3. DOMAIN Tail(t) = 1 .. Len(t) - 1  BY <1>2, LenProperties
<1>4. Head(t) \in ToSet(t) /\ Head(t) \in A  BY <1>1 DEF ToSet
<1>5. IsInjective(Tail(t))
  <2> SUFFICES ASSUME NEW i \in 1 .. Len(t) - 1, NEW j \in 1 .. Len(t) - 1,
                      Tail(t)[i] = Tail(t)[j]
               PROVE  i = j
    BY <1>3 DEF IsInjective
  <2>1. t[i + 1] = t[j + 1] /\ i + 1 \in DOMAIN t /\ j + 1 \in DOMAIN t  BY <1>1, <1>2
  <2>2. i + 1 = j + 1  BY <2>1 DEF IsInjective
  <2> QED  BY <2>2
<1>6. \A e \in ToSet(Tail(t)) : e \in ToSet(t) /\ e # Head(t)
  <2> SUFFICES ASSUME NEW i \in 1 .. Len(t) - 1
               PROVE  Tail(t)[i] \in ToSet(t) /\ Tail(t)[i] # Head(t)
    BY <1>3 DEF ToSet
  <2>1. Tail(t)[i] = t[i + 1] /\ i + 1 \in DOMAIN t /\ 1 \in DOMAIN t /\ i + 1 # 1  BY <1>1, <1>2
  <2>2. t[i + 1] # t[1]  BY <2>1 DEF IsInjective
  <2> QED  BY <1>1, <2>1, <2>2 DEF ToSet
<1>7. \A e \in ToSet(t) : e # Head(t) => e \in ToSet(Tail(t))
  <2> SUFFICES ASSUME NEW i \in 1 .. Len(t), t[i] # Head(t)  PROVE t[i] \in ToSet(Tail(t))
    BY <1>1 DEF ToSet
  <2>1. i # 1 /\ i - 1 \in 1 .. Len(t) - 1  BY <1>1
  <2>2. Tail(t)[i - 1] = t[i]  BY <1>1, <1>2, <2>1
  <2> QED  BY <1>3, <2>1, <2>2 DEF ToSet
<1> QED  BY <1>2, <1>4, <1>5, <1>6, <1>7

LEMMA Ahead ==
    ASSUME NEW A, NEW s \in Seq(A), NEW t \in Seq(A), IsInjective(s), IsInjective(t),
           ToSet(s) \cap ToSet(t) = {}
    PROVE  s \o t \in Seq(A) /\ IsInjective(s \o t) /\ ToSet(s \o t) = ToSet(s) \cup ToSet(t)
<1> DEFINE u == s \o t
           n == Len(s)
           k == Len(t)
<1>1. /\ u \in Seq(A) /\ Len(u) = n + k
      /\ \A i \in 1 .. n + k : u[i] = IF i <= n THEN s[i] ELSE t[i - n]
  BY ConcatProperties
<1>2. n \in Nat /\ k \in Nat /\ DOMAIN s = 1..n /\ DOMAIN t = 1..k /\ DOMAIN u = 1 .. n + k
  BY <1>1, LenProperties
<1> HIDE DEF u, n, k
<1>3. \A i \in 1 .. n + k : /\ i <= n => i \in 1..n /\ u[i] = s[i] /\ u[i] \in ToSet(s)
                            /\ ~(i <= n) => i - n \in 1..k /\ u[i] = t[i - n] /\ u[i] \in ToSet(t)
  <2>1. (\A i \in 1..n : s[i] \in ToSet(s)) /\ \A i \in 1..k : t[i] \in ToSet(t)
    BY <1>2 DEF ToSet
  <2>2. \A i \in 1 .. n + k : (i <= n => i \in 1..n) /\ (~(i <= n) => i - n \in 1..k)  BY <1>2
  <2> QED  BY <1>1, <2>1, <2>2
<1>4. ASSUME NEW i \in 1 .. n + k, NEW j \in 1 .. n + k, u[i] = u[j]  PROVE i = j
  <2>1. CASE i <= n /\ j <= n  BY <1>2, <1>3, <1>4, <2>1 DEF IsInjective
  <2>2. CASE ~(i <= n) /\ ~(j <= n)
    <3>1. t[i - n] = t[j - n] /\ i - n \in DOMAIN t /\ j - n \in DOMAIN t
      BY <1>2, <1>3, <1>4, <2>2
    <3>2. i - n = j - n  BY <3>1 DEF IsInjective
    <3> QED  BY <1>2, <3>2
  <2>3. CASE (i <= n /\ ~(j <= n)) \/ (~(i <= n) /\ j <= n)
    <3>1. u[i] \in ToSet(s) \cap ToSet(t)  BY <1>3, <1>4, <2>3
    <3> QED  BY <3>1
  <2> QED  BY <2>1, <2>2, <2>3
<1>5. \A e \in ToSet(s) \cup ToSet(t) : e \in ToSet(u)
  <2>1. \A i \in 1..n : s[i] \in ToSet(u)
    <3> SUFFICES ASSUME NEW i \in 1..n  PROVE s[i] \in ToSet(u)
      OBVIOUS
    <3>1. i \in 1 .. n + k /\ u[i] = s[i]  BY <1>2, <1>3
    <3> QED  BY <1>2, <3>1 DEF ToSet
  <2>2. \A i \in 1..k : t[i] \in ToSet(u)
    <3> SUFFICES ASSUME NEW i \in 1..k  PROVE t[i] \in ToSet(u)
      OBVIOUS
    <3>1. i + n \in 1 .. n + k /\ ~(i + n <= n) /\ (i + n) - n = i  BY <1>2
    <3>2. u[i + n] = t[i]  BY <1>3, <3>1
    <3> QED  BY <1>2, <3>1, <3>2 DEF ToSet
  <2> QED  BY <1>2, <2>1, <2>2 DEF ToSet
<1>6. \A e \in ToSet(u) : e \in ToSet(s) \cup ToSet(t)  BY <1>2, <1>3 DEF ToSet
<1>7. IsInjective(u)  BY <1>2, <1>4 DEF IsInjective
<1> QED  BY <1>1, <1>5, <1>6, <1>7 DEF u

LEMMA FieldsInjective ==
    ASSUME NEW m, NEW fr, Shape(m, fr), NEW a \in Blocks(m, fr)
    PROVE  FieldsAt(a, m[a][2]) \in Seq(Locations) /\ IsInjective(FieldsAt(a, m[a][2]))
<1> DEFINE t == m[a][2]
           f == FieldsAt(a, t)
           n == Fields(t)
           k == BlkSize(t)
<1>1. t \in Types /\ a \in Nat  BY BlockFacts
<1>2. /\ DOMAIN f = 1..n /\ f \in Seq(Nat) /\ Len(f) = n
      /\ \A i \in 1..n : f[i] = a + k - n + i - 1
  BY <1>1, FieldFacts
<1>3. n \in Nat /\ k \in Nat  BY <1>1, TypeFacts
<1>4. \A e \in ToSet(f) : e \in Locations  BY FieldsInBlock
<1> HIDE DEF t, f, n, k
<1>5. \A i \in 1..n : f[i] \in Locations  BY <1>2, <1>4 DEF ToSet
<1>6. f = [i \in 1..n |-> f[i]]  BY <1>2
<1>7. f \in Seq(Locations)
  <2>1. f \in [1..n -> Locations]  BY <1>5, <1>6
  <2> QED  BY <1>3, <2>1
<1>8. IsInjective(f)
  <2> SUFFICES ASSUME NEW i \in 1..n, NEW j \in 1..n, f[i] = f[j]  PROVE i = j
    BY <1>2 DEF IsInjective
  <2>1. a + k - n + i - 1 = a + k - n + j - 1  BY <1>2
  <2> QED  BY <1>1, <1>3, <2>1
<1> QED  BY <1>7, <1>8 DEF f, t

LEMMA OneMoreTarget ==
    ASSUME NEW m, NEW V, NEW loc
    PROVE  /\ ~ Is(m[loc], "ref") => Targets(m, V \cup {loc}) = Targets(m, V)
           /\ Is(m[loc], "ref") => Targets(m, V \cup {loc}) = Targets(m, V) \cup {m[loc][2]}
BY DEF Targets

LEMMA OneMoreBlock ==
    ASSUME NEW m, NEW B, NEW a
    PROVE  Slots(m, B \cup {a}) = Slots(m, B) \cup ToSet(FieldsAt(a, m[a][2]))
BY DEF Slots

\* The fields of a block that no location visited before refers to are new.
LEMMA NewFields ==
    ASSUME NEW m, NEW fr, Shape(m, fr), NEW B \in SUBSET Blocks(m, fr),
           NEW a \in Blocks(m, fr), a \notin B
    PROVE  Slots(m, B) \cap ToSet(FieldsAt(a, m[a][2])) = {}
<1> SUFFICES ASSUME NEW l \in Slots(m, B), l \in ToSet(FieldsAt(a, m[a][2]))  PROVE FALSE
  OBVIOUS
<1>1. l \in BlockAt(m, a) /\ l \notin Roots  BY FieldsInBlock
<1>2. PICK b \in B : l \in ToSet(FieldsAt(b, m[b][2]))  BY <1>1, SlotOf
<1>3. b \in Blocks(m, fr)  OBVIOUS
<1>4. l \in BlockAt(m, b)  BY <1>2, <1>3, FieldsInBlock
<1>5. a = b  BY <1>1, <1>3, <1>4, FieldsApart
<1> QED  BY <1>5

LEMMA MarkParts ==
    ASSUME NEW n, NEW q, NEW f, NEW d
    PROVE  /\ MarkState(n, q, f, d).mem = n /\ MarkState(n, q, f, d).quals = q
           /\ MarkState(n, q, f, d).qualfail = f /\ MarkState(n, q, f, d).todo = d
BY DEF MarkState

\* The locations that are visited or to be visited are the variables and the
\* fields of the blocks that visited locations refer to.
Agenda(todo, m, V) ==
    /\ todo \in Seq(Locations) /\ IsInjective(todo)
    /\ V \cap ToSet(todo) = {}
    /\ V \cup ToSet(todo) = Slots(m, Targets(m, V))

\* The strings of the visited locations are listed, or that they could not be.
Listed(q, f, m, V) ==
    /\ q \subseteq {l \in V : Is(m[l], "str")} /\ f \in BOOLEAN
    /\ ~ f => q = {l \in V : Is(m[l], "str")}

\* The locations V have been visited, in the order of pos.
Marking(n, q, f, d, m, R, V, pos, i) ==
    /\ V \in SUBSET Locations /\ Numbered(pos, V, i)
    /\ Threads(n, m, V, pos)
    /\ Agenda(d, m, V)
    /\ Targets(m, V) \subseteq R
    /\ Listed(q, f, m, V)
    /\ d = <<>> \/ Cardinality(V) = i

MarkedTo(s, m, R, V, pos, i) ==
    \E n, q, f, d : s = MarkState(n, q, f, d) /\ Marking(n, q, f, d, m, R, V, pos, i)

LEMMA AgendaStep ==
    ASSUME NEW m, NEW fr, Shape(m, fr), NEW V \in SUBSET Locations, NEW todo, Agenda(todo, m, V),
           todo # <<>>, Targets(m, V) \in SUBSET Blocks(m, fr)
    PROVE  /\ ~ Is(m[Head(todo)], "ref") => Agenda(Tail(todo), m, V \cup {Head(todo)})
           /\ \A a \in Blocks(m, fr) : m[Head(todo)] = Ref(a) =>
                Agenda((IF a \in Targets(m, V) THEN <<>> ELSE FieldsAt(a, m[a][2])) \o Tail(todo),
                       m, V \cup {Head(todo)})
<1> DEFINE loc == Head(todo)
           rest == Tail(todo)
           B == Targets(m, V)
           W == V \cup {loc}
<1>1. /\ loc \in ToSet(todo) /\ rest \in Seq(Locations) /\ IsInjective(rest)
      /\ ToSet(rest) = ToSet(todo) \ {loc}
  BY HeadSplit DEF Agenda
<1>2. /\ V \cap ToSet(todo) = {} /\ V \cup ToSet(todo) = Slots(m, B)  BY DEF Agenda
<1>3. W \cap ToSet(rest) = {} /\ W \cup ToSet(rest) = Slots(m, B)
  <2> HIDE DEF loc, rest, B
  <2> QED  BY <1>1, <1>2
<1>4. ASSUME ~ Is(m[loc], "ref")  PROVE Agenda(rest, m, W)
  <2>1. Targets(m, W) = B  BY <1>4, OneMoreTarget
  <2> HIDE DEF loc, rest, B, W
  <2> QED  BY <1>1, <1>3, <2>1 DEF Agenda
<1>5. ASSUME NEW a \in Blocks(m, fr), m[loc] = Ref(a)
      PROVE  Agenda((IF a \in B THEN <<>> ELSE FieldsAt(a, m[a][2])) \o rest, m, W)
  <2>1. Targets(m, W) = B \cup {a}
    <3>1. Is(m[loc], "ref") /\ m[loc][2] = a  BY <1>5, KindsOfWords
    <3> HIDE DEF loc
    <3> QED  BY <3>1, OneMoreTarget
  <2>2. CASE a \in B
    <3>1. B \cup {a} = B  BY <2>2
    <3>2. <<>> \o rest = rest  BY <1>1
    <3> HIDE DEF loc, rest, B, W
    <3> QED  BY <1>1, <1>3, <2>1, <2>2, <3>1, <3>2 DEF Agenda
  <2>3. CASE a \notin B
    <3> DEFINE f == FieldsAt(a, m[a][2])
    <3>1. f \in Seq(Locations) /\ IsInjective(f)  BY FieldsInjective
    <3>2. Slots(m, B) \cap ToSet(f) = {}
      <4> HIDE DEF B
      <4> QED  BY <2>3, NewFields DEF B
    <3>3. Slots(m, B \cup {a}) = Slots(m, B) \cup ToSet(f)  BY OneMoreBlock
    <3> HIDE DEF loc, rest, B, W, f
    <3>4. ToSet(f) \cap ToSet(rest) = {}  BY <1>3, <3>2
    <3>5. f \o rest \in Seq(Locations) /\ IsInjective(f \o rest)
          /\ ToSet(f \o rest) = ToSet(f) \cup ToSet(rest)
      BY <1>1, <3>1, <3>4, Ahead
    <3>6. W \cap ToSet(f \o rest) = {} /\ W \cup ToSet(f \o rest) = Slots(m, B \cup {a})
      BY <1>3, <3>2, <3>3, <3>5
    <3>7. Agenda(f \o rest, m, W)  BY <2>1, <3>5, <3>6 DEF Agenda
    <3> QED  BY <2>3, <3>7 DEF f
  <2> QED  BY <2>2, <2>3
<1> QED  BY <1>4, <1>5

\* The fields that a visit adds where n is the memory and a the block.
Unseen(n, a) == IF Is(n[a], "title") THEN FieldsAt(a, n[a][2]) ELSE <<>>

\* t follows a visit of a string, the head of d, from n, q, f and d.
Listing(t, n, q, f, d) ==
    \/ t = MarkState(n, q \cup {Head(d)}, f, <<>> \o Tail(d))
    \/ t = MarkState(n, q, TRUE, <<>> \o Tail(d))

\* What Mark does with a string.
LEMMA MarkString ==
    ASSUME NEW n, NEW q, NEW f, NEW d, NEW ok, Is(n[Head(d)], "str")
    PROVE  Listing(Mark(MarkState(n, q, f, d), ok), n, q, f, d)
<1> DEFINE s == MarkState(n, q, f, d)
           e == <<>> \o Tail(d)
           rest == MarkState(n, q, f, e)
<1>1. s.mem = n /\ s.todo = d /\ s.quals = q /\ s.qualfail = f  BY MarkParts
<1> HIDE DEF s
<1>2. Mark(s, ok) = postqual(MarkState(s.mem, s.quals, s.qualfail, <<>> \o Tail(s.todo)),
                             Head(s.todo), ok)
  <2>1. Is(s.mem[Head(s.todo)], "str") /\ ~ Is(s.mem[Head(s.todo)], "ref")  BY <1>1, OneKind
  <2> QED  BY <2>1 DEF Mark
<1>3. Mark(s, ok) = postqual(rest, Head(d), ok)  BY <1>1, <1>2, Zenon
<1> HIDE DEF e
<1>4. rest.mem = n /\ rest.todo = e /\ rest.quals = q /\ rest.qualfail = f  BY MarkParts
<1> HIDE DEF rest
<1>5. \/ postqual(rest, Head(d), ok) = MarkState(n, q \cup {Head(d)}, f, e)
      \/ postqual(rest, Head(d), ok) = MarkState(n, q, TRUE, e)
  BY <1>4 DEF postqual
<1> QED  BY <1>3, <1>5 DEF e, s, Listing

\* With a reference to the current region.
LEMMA MarkCurrent ==
    ASSUME NEW n, NEW q, NEW f, NEW d, NEW ok, NEW loc, loc = Head(d),
           NEW a, n[loc] = Ref(a), InRegion(curblock, a)
    PROVE  Mark(MarkState(n, q, f, d), ok)
             = MarkState(Joined(n, loc, a), q, f, Unseen(n, a) \o Tail(d))
<1> DEFINE s == MarkState(n, q, f, d)
<1>1. s.mem = n /\ s.todo = d /\ s.quals = q /\ s.qualfail = f  BY MarkParts
<1>2. Is(n[loc], "ref") /\ n[loc][2] = a /\ ~ Is(n[loc], "str")  BY KindsOfWords, OneKind
<1> HIDE DEF s
<1>3. Mark(s, ok) = MarkState(Joined(n, loc, a), q, f, Unseen(n, a) \o Tail(d))
  BY <1>1, <1>2 DEF Mark, Joined, Unseen
<1> QED  BY <1>3 DEF s

\* With a reference to a block of another region.
LEMMA MarkOther ==
    ASSUME NEW n, NEW q, NEW f, NEW d, NEW ok, NEW loc, loc = Head(d),
           NEW a, n[loc] = Ref(a), ~ InRegion(curblock, a)
    PROVE  Mark(MarkState(n, q, f, d), ok)
             = MarkState(IF Is(n[a], "title") THEN MarkedAt(n, a, n[a][2]) ELSE n, q, f,
                         Unseen(n, a) \o Tail(d))
<1> DEFINE s == MarkState(n, q, f, d)
<1>1. s.mem = n /\ s.todo = d /\ s.quals = q /\ s.qualfail = f  BY MarkParts
<1>2. Is(n[loc], "ref") /\ n[loc][2] = a /\ ~ Is(n[loc], "str")  BY KindsOfWords, OneKind
<1> HIDE DEF s
<1>3. ASSUME Is(n[a], "title")
      PROVE  Mark(s, ok) = MarkState(MarkedAt(n, a, n[a][2]), q, f, Unseen(n, a) \o Tail(d))
  BY <1>1, <1>2, <1>3 DEF Mark, MarkedAt, Unseen
<1>4. ASSUME ~ Is(n[a], "title")
      PROVE  Mark(s, ok) = MarkState(n, q, f, Unseen(n, a) \o Tail(d))
  BY <1>1, <1>2, <1>4 DEF Mark, Unseen
<1> QED  BY <1>3, <1>4 DEF s

\* With null.
LEMMA MarkNull ==
    ASSUME NEW n, NEW q, NEW f, NEW d, NEW ok, NEW loc, loc = Head(d), Is(n[loc], "nil")
    PROVE  Mark(MarkState(n, q, f, d), ok) = MarkState(n, q, f, <<>> \o Tail(d))
<1> DEFINE s == MarkState(n, q, f, d)
<1>1. s.mem = n /\ s.todo = d /\ s.quals = q /\ s.qualfail = f  BY MarkParts
<1>2. ~ Is(n[loc], "ref") /\ ~ Is(n[loc], "str")  BY OneKind
<1> HIDE DEF s
<1>3. Mark(s, ok) = MarkState(n, q, f, <<>> \o Tail(d))  BY <1>1, <1>2 DEF Mark
<1> QED  BY <1>3 DEF s
LEMMA OneMoreListed ==
    ASSUME NEW q, NEW f, NEW m, NEW V, Listed(q, f, m, V), NEW loc
    PROVE  /\ ~ Is(m[loc], "str") => Listed(q, f, m, V \cup {loc})
           /\ Is(m[loc], "str") => /\ Listed(q \cup {loc}, f, m, V \cup {loc})
                                   /\ Listed(q, TRUE, m, V \cup {loc})
<1> DEFINE S == {l \in V : Is(m[l], "str")}
           T == {l \in V \cup {loc} : Is(m[l], "str")}
<1>1. ~ Is(m[loc], "str") => T = S  OBVIOUS
<1>2. Is(m[loc], "str") => T = S \cup {loc}  OBVIOUS
<1>3. q \subseteq S /\ f \in BOOLEAN /\ (~ f => q = S)  BY DEF Listed
<1>4. \A x, y : Listed(x, y, m, V \cup {loc}) <=> x \subseteq T /\ y \in BOOLEAN /\ (~ y => x = T)
  BY DEF Listed
<1> HIDE DEF S, T
<1> QED  BY <1>1, <1>2, <1>3, <1>4

\* A step of marking is a visit.
LEMMA MarkStep ==
    ASSUME NEW m, NEW R, Heap(m, free, R), NEW n, NEW q, NEW f, NEW d, NEW V, NEW pos, NEW i,
           Marking(n, q, f, d, m, R, V, pos, i), d # <<>>, NEW ok
    PROVE  MarkedTo(Mark(MarkState(n, q, f, d), ok),
                    m, R, V \cup {Head(d)}, Later(pos, V, Head(d), i), i + 1)
<1> SUFFICES \E k, r, g, e :
               /\ Mark(MarkState(n, q, f, d), ok) = MarkState(k, r, g, e)
               /\ Marking(k, r, g, e, m, R, V \cup {Head(d)}, Later(pos, V, Head(d), i), i + 1)
  BY DEF MarkedTo
<1> DEFINE loc == Head(d)
           W == V \cup {loc}
           p == Later(pos, V, loc, i)
           s == MarkState(n, q, f, d)
<1>1. /\ Shape(m, free) /\ R \in SUBSET Blocks(m, free)
      /\ V \in SUBSET Locations /\ Numbered(pos, V, i) /\ Threads(n, m, V, pos)
      /\ Agenda(d, m, V) /\ Targets(m, V) \in SUBSET R /\ Listed(q, f, m, V)
      /\ Cardinality(V) = i
  BY DEF Heap, Marking
<1>2. loc \in ToSet(d) /\ loc \in Locations /\ loc \notin V
  BY <1>1, HeadSplit DEF Agenda
<1>3. loc \in Slots(m, R)
  <2>1. loc \in Slots(m, Targets(m, V))  BY <1>1, <1>2 DEF Agenda
  <2> HIDE DEF loc
  <2> QED  BY <1>1, <2>1, Onward
<1> HIDE DEF loc
<1>4. loc \notin Blocks(m, free) /\ m[loc] \in Word /\ ~ Is(m[loc], "title") /\ ~ Is(m[loc], "marked")
  BY <1>1, <1>3, SlotFacts
<1>5. n[loc] = m[loc]  BY <1>1, <1>2, <1>4 DEF Threads
<1>6. W \in SUBSET Locations /\ Numbered(p, W, i + 1) /\ Cardinality(W) = i + 1
  <2>1. Numbered(p, W, i + 1)  BY <1>1, <1>2, LaterNumbered
  <2>2. IsFiniteSet(V)  BY <1>1, WordsFacts, FS_Subset
  <2>3. Cardinality(W) = i + 1  BY <1>1, <1>2, <2>2, FS_AddElement
  <2> HIDE DEF p
  <2> QED  BY <1>1, <1>2, <2>1, <2>3
<1>7. Is(m[loc], "ref") => /\ m[loc][2] \in R /\ m[loc] = Ref(m[loc][2])
                           /\ Targets(m, W) \subseteq R
  <2> SUFFICES ASSUME Is(m[loc], "ref")
               PROVE  m[loc][2] \in R /\ m[loc] = Ref(m[loc][2]) /\ Targets(m, W) \subseteq R
    OBVIOUS
  <2>1. m[loc][2] \in R /\ m[loc] = Ref(m[loc][2])  BY <1>3, Followed
  <2>2. Targets(m, W) = Targets(m, V) \cup {m[loc][2]}  BY OneMoreTarget
  <2> QED  BY <1>1, <2>1, <2>2
<1>8. ~ Is(m[loc], "ref") => Targets(m, W) \subseteq R  BY <1>1, OneMoreTarget
<1>9. /\ ~ Is(m[loc], "ref") => Agenda(Tail(d), m, W) /\ <<>> \o Tail(d) = Tail(d)
      /\ \A a \in Blocks(m, free) : m[loc] = Ref(a) =>
            Agenda((IF a \in Targets(m, V) THEN <<>> ELSE FieldsAt(a, m[a][2])) \o Tail(d), m, W)
  <2>1. Targets(m, V) \in SUBSET Blocks(m, free)  BY <1>1
  <2>2. <<>> \o Tail(d) = Tail(d)
    <3>1. Tail(d) \in Seq(Locations)  BY <1>1, HeadSplit DEF Agenda
    <3> HIDE DEF W, p, s
    <3> QED  BY <3>1
  <2> QED  BY <1>1, <2>1, <2>2, AgendaStep DEF loc
<1>10. ASSUME NEW k, NEW r, NEW g, NEW e, Mark(s, ok) = MarkState(k, r, g, e),
              Threads(k, m, W, p), Agenda(e, m, W), Targets(m, W) \subseteq R, Listed(r, g, m, W)
       PROVE  /\ Mark(s, ok) = MarkState(k, r, g, e)
              /\ Marking(k, r, g, e, m, R, W, p, i + 1)
  <2> HIDE DEF W, p, s
  <2> QED  BY <1>6, <1>10 DEF Marking
<1>11. CASE Is(m[loc], "str")
  <2>1. ~ Is(m[loc], "ref")  BY <1>11, OneKind
  <2>2. Threads(n, m, W, p)  BY <1>1, <1>2, <2>1, VisitPlain
  <2>3. Listed(q \cup {loc}, f, m, W) /\ Listed(q, TRUE, m, W)  BY <1>1, <1>11, OneMoreListed
  <2>4. \/ Mark(s, ok) = MarkState(n, q \cup {loc}, f, Tail(d))
        \/ Mark(s, ok) = MarkState(n, q, TRUE, Tail(d))
    <3>1. \/ Mark(s, ok) = MarkState(n, q \cup {loc}, f, <<>> \o Tail(d))
          \/ Mark(s, ok) = MarkState(n, q, TRUE, <<>> \o Tail(d))
      <4>1. Is(n[Head(d)], "str")  BY <1>5, <1>11 DEF loc
      <4>2. Listing(Mark(s, ok), n, q, f, d)  BY ONLY <4>1, MarkString
      <4> QED  BY <4>2 DEF loc, Listing
    <3> HIDE DEF s
    <3> QED  BY <1>9, <2>1, <3>1
  <2>5. CASE Mark(s, ok) = MarkState(n, q \cup {loc}, f, Tail(d))
    <3>1. Marking(n, q \cup {loc}, f, Tail(d), m, R, W, p, i + 1)
      BY <1>8, <1>9, <1>10, <2>1, <2>2, <2>3, <2>5
    <3> HIDE DEF s, W, p
    <3>2. \E k, r, g, e : Mark(s, ok) = MarkState(k, r, g, e) /\ Marking(k, r, g, e, m, R, W, p, i + 1)
      BY <2>5, <3>1
    <3> QED  BY <3>2 DEF s, W, p, loc
  <2>6. CASE Mark(s, ok) = MarkState(n, q, TRUE, Tail(d))
    <3>1. Marking(n, q, TRUE, Tail(d), m, R, W, p, i + 1)
      BY <1>8, <1>9, <1>10, <2>1, <2>2, <2>3, <2>6
    <3> HIDE DEF s, W, p
    <3>2. \E k, r, g, e : Mark(s, ok) = MarkState(k, r, g, e) /\ Marking(k, r, g, e, m, R, W, p, i + 1)
      BY <2>6, <3>1
    <3> QED  BY <3>2 DEF s, W, p, loc
  <2> QED  BY <2>4, <2>5, <2>6
<1>12. CASE Is(m[loc], "nil")
  <2>1. ~ Is(m[loc], "ref") /\ ~ Is(m[loc], "str")  BY <1>12, OneKind
  <2>2. Threads(n, m, W, p)  BY <1>1, <1>2, <2>1, VisitPlain
  <2>3. Listed(q, f, m, W)  BY <1>1, <2>1, OneMoreListed
  <2>4. Mark(s, ok) = MarkState(n, q, f, Tail(d))
    <3>1. Mark(s, ok) = MarkState(n, q, f, <<>> \o Tail(d))  BY <1>5, <1>12, MarkNull DEF loc
    <3> HIDE DEF s
    <3> QED  BY <1>9, <2>1, <3>1
  <2>5. Marking(n, q, f, Tail(d), m, R, W, p, i + 1)
    BY <1>8, <1>9, <1>10, <2>1, <2>2, <2>3, <2>4
  <2> HIDE DEF s, W, p
  <2>6. \E k, r, g, e : Mark(s, ok) = MarkState(k, r, g, e) /\ Marking(k, r, g, e, m, R, W, p, i + 1)
    BY <2>4, <2>5
  <2> QED  BY <2>6 DEF s, W, p, loc
<1>13. CASE Is(m[loc], "ref")
  <2> DEFINE a == m[loc][2]
             e == Unseen(n, a) \o Tail(d)
             g == (IF a \in Targets(m, V) THEN <<>> ELSE FieldsAt(a, m[a][2])) \o Tail(d)
  <2>1. /\ a \in R /\ a \in Blocks(m, free) /\ m[loc] = Ref(a) /\ n[loc] = Ref(a)
        /\ Targets(m, W) \subseteq R /\ Agenda(g, m, W)
    BY <1>1, <1>5, <1>7, <1>9, <1>13
  <2>2. Listed(q, f, m, W)
    <3>1. ~ Is(m[loc], "str")  BY <1>13, OneKind
    <3> QED  BY <1>1, <3>1, OneMoreListed
  <2>3. Refs(m, V, a) # {} <=> a \in Targets(m, V)  BY <1>1, RefsIn DEF Shape
  <2> HIDE DEF a
  <2>4. ASSUME /\ Is(n[a], "title") => n[a] = m[a] /\ Refs(m, V, a) = {}
               /\ ~ Is(n[a], "title") => Refs(m, V, a) # {}
        PROVE  e = g
    <3>1. Unseen(n, a) = IF a \in Targets(m, V) THEN <<>> ELSE FieldsAt(a, m[a][2])
      BY <2>3, <2>4 DEF Unseen
    <3> QED  BY <3>1
  <2>5. ASSUME NEW k, Mark(s, ok) = MarkState(k, q, f, e), e = g, Threads(k, m, W, p)
        PROVE  \E x, r, y, z : /\ Mark(s, ok) = MarkState(x, r, y, z)
                               /\ Marking(x, r, y, z, m, R, W, p, i + 1)
    <3> HIDE DEF s, W, p, e, g
    <3>1. Marking(k, q, f, e, m, R, W, p, i + 1)  BY <1>10, <2>1, <2>2, <2>5
    <3> QED  BY <2>5, <3>1
  <2>6. CASE InRegion(curblock, a)
    <3>1. /\ Threads(Joined(n, loc, a), m, W, p)
          /\ Is(n[a], "title") => n[a] = m[a] /\ Refs(m, V, a) = {}
          /\ ~ Is(n[a], "title") => Refs(m, V, a) # {}
      <4>1. Due(n, m, V, pos, i, loc, a)  BY <1>1, <1>2, <1>4, <2>1 DEF Due
      <4> HIDE DEF s, e, g
      <4>2. /\ Threads(Joined(n, loc, a), m, V \cup {loc}, Later(pos, V, loc, i))
            /\ Is(n[a], "title") => n[a] = m[a] /\ Refs(m, V, a) = {}
            /\ ~ Is(n[a], "title") => Refs(m, V, a) # {}
        BY ONLY <2>6, <4>1, VisitCurrent
      <4> QED  BY <4>2
    <3>2. Mark(s, ok) = MarkState(Joined(n, loc, a), q, f, e)
      BY <2>1, <2>6, MarkCurrent DEF loc
    <3> HIDE DEF s, W, p, e, g
    <3>3. \E x, r, y, z : /\ Mark(s, ok) = MarkState(x, r, y, z)
                          /\ Marking(x, r, y, z, m, R, W, p, i + 1)
      BY <2>4, <2>5, <3>1, <3>2
    <3> QED  BY <3>3 DEF s, W, p, loc
  <2>7. CASE ~ InRegion(curblock, a)
    <3> DEFINE k == IF Is(n[a], "title") THEN MarkedAt(n, a, n[a][2]) ELSE n
    <3>1. /\ Threads(MarkedAt(n, a, m[a][2]), m, W, p)
          /\ Is(n[a], "title") => n[a] = m[a] /\ Refs(m, V, a) = {}
          /\ ~ Is(n[a], "title") => n[a] = Marked(m[a][2]) /\ Refs(m, V, a) # {}
      <4>1. Due(n, m, V, pos, i, loc, a)  BY <1>1, <1>2, <1>4, <2>1 DEF Due
      <4> HIDE DEF s, e, g, k
      <4>2. /\ Threads(MarkedAt(n, a, m[a][2]), m, V \cup {loc}, Later(pos, V, loc, i))
            /\ Is(n[a], "title") => n[a] = m[a] /\ Refs(m, V, a) = {}
            /\ ~ Is(n[a], "title") => n[a] = Marked(m[a][2]) /\ Refs(m, V, a) # {}
        BY ONLY <2>7, <4>1, VisitOther
      <4> QED  BY <4>2
    <3>2. k = MarkedAt(n, a, m[a][2])
      <4>1. n \in [Locations -> Word] /\ a \in Locations
        BY <1>1, <2>1, BlockFacts DEF Threads
      <4>2. ASSUME n[a] = Marked(m[a][2])  PROVE MarkedAt(n, a, m[a][2]) = n
        BY <4>1, <4>2 DEF MarkedAt
      <4> QED  BY <3>1, <4>2
    <3>3. Mark(s, ok) = MarkState(k, q, f, e)  BY <2>1, <2>7, MarkOther DEF loc
    <3> HIDE DEF s, W, p, e, g, k
    <3>4. \E x, r, y, z : /\ Mark(s, ok) = MarkState(x, r, y, z)
                          /\ Marking(x, r, y, z, m, R, W, p, i + 1)
      BY <2>4, <2>5, <3>1, <3>2, <3>3
    <3> QED  BY <3>4 DEF s, W, p, loc
  <2> QED  BY <2>6, <2>7
<1> QED  BY <1>4, <1>11, <1>12, <1>13, WordKinds

\* A sequence of the elements of a set has each of them once.
LEMMA ListOf ==
    ASSUME NEW S, IsFiniteSet(S)
    PROVE  /\ SetToSeq(S) \in Seq(S) /\ IsInjective(SetToSeq(S)) /\ ToSet(SetToSeq(S)) = S
           /\ Len(SetToSeq(S)) = Cardinality(S)
<1> DEFINE c == Cardinality(S)
           f == SetToSeq(S)
<1>1. c \in Nat /\ ExistsBijection(1..c, S)  BY FS_CardinalityType
<1>2. \E g \in [1..c -> S] : IsInjective(g)
  BY <1>1 DEF ExistsBijection, Bijection, Injection
<1>3. f \in [1..c -> S] /\ IsInjective(f)
  <2> HIDE DEF c
  <2> QED  BY <1>2 DEF SetToSeq, c
<1> HIDE DEF c, f
<1>4. f \in Seq(S) /\ Len(f) = c /\ DOMAIN f = 1..c  BY <1>1, <1>3
<1>5. ToSet(f) \in SUBSET S /\ f \in [1..c -> ToSet(f)] /\ \A t \in ToSet(f) : \E i \in 1..c : f[i] = t
  BY <1>3, <1>4 DEF ToSet
<1>6. ExistsBijection(1..c, ToSet(f))
  BY <1>3, <1>5 DEF ExistsBijection, Bijection, Injection, Surjection
<1>7. IsFiniteSet(1..c) /\ Cardinality(1..c) = c  BY <1>1, FS_Interval
<1>8. Cardinality(ToSet(f)) = c  BY <1>6, <1>7, FS_Bijection
<1>9. ToSet(f) = S  BY <1>5, <1>8, FS_Subset DEF c
<1> QED  BY <1>3, <1>4, <1>9 DEF f, c

\* Before anything is visited.
LEMMA MarkStart ==
    ASSUME NEW m, NEW R, Heap(m, free, R)
    PROVE  \E V, pos : Marking(m, {}, FALSE, SetToSeq(Roots), m, R, V, pos, 0)
<1> DEFINE pos == [l \in {} |-> 0]
           d == SetToSeq(Roots)
<1>1. m \in [Locations -> Word]  BY DEF Heap, Shape
<1>2. \A a : Refs(m, {}, a) = {}  BY DEF Refs
<1>3. Threads(m, m, {}, pos)
  <2> HIDE DEF pos
  <2> QED  BY <1>1, <1>2 DEF Threads
<1>4. Numbered(pos, {}, 0)  BY DEF Numbered
<1>5. Targets(m, {}) = {}  BY DEF Targets
<1>6. d \in Seq(Roots) /\ IsInjective(d) /\ ToSet(d) = Roots
  <2>1. IsFiniteSet(Roots)  BY CollectorAssumption
  <2> QED  BY <2>1, ListOf
<1>7. Slots(m, {}) = Roots  BY DEF Slots
<1> HIDE DEF d, pos
<1>8. d \in Seq(Locations)  BY <1>6 DEF Locations
<1>9. Agenda(d, m, {})  BY <1>5, <1>6, <1>7, <1>8 DEF Agenda
<1>10. Listed({}, FALSE, m, {})  BY DEF Listed
<1>11. Marking(m, {}, FALSE, d, m, R, {}, pos, 0)
  BY <1>3, <1>4, <1>5, <1>9, <1>10, FS_EmptySet DEF Marking
<1>12. \E V, p : Marking(m, {}, FALSE, d, m, R, V, p, 0)  BY <1>11
<1> QED  BY <1>12 DEF d

MarkStates ==
    [mem : [Locations -> Word], quals : SUBSET Locations, qualfail : BOOLEAN, todo : Seq(Locations)]

\* The states of the marking of m after i steps.
MarkedIn(m, R, i) ==
    {s \in MarkStates : \E n, q, f, d, V, pos, j :
        /\ s = MarkState(n, q, f, d) /\ Marking(n, q, f, d, m, R, V, pos, j)
        /\ d = <<>> \/ j = i}

LEMMA InMarked ==
    ASSUME NEW n, NEW q, NEW f, NEW d, NEW m, NEW R, NEW V, NEW pos, NEW j,
           Marking(n, q, f, d, m, R, V, pos, j)
    PROVE  MarkState(n, q, f, d) \in MarkStates
<1>1. n \in [Locations -> Word] /\ d \in Seq(Locations) /\ f \in BOOLEAN /\ q \in SUBSET Locations
  BY DEF Marking, Threads, Agenda, Listed
<1> QED  BY <1>1 DEF MarkStates, MarkState

MarkNext(s, ok) == IF s.todo = <<>> THEN s ELSE Mark(s, ok)

LEMMA MarkedOn ==
    ASSUME NEW m, NEW R, Heap(m, free, R), NEW ok, NEW i, NEW s \in MarkedIn(m, R, i)
    PROVE  MarkNext(s, ok) \in MarkedIn(m, R, i + 1)
<1>1. PICK n, q, f, d, V, pos, j :
        /\ s = MarkState(n, q, f, d) /\ Marking(n, q, f, d, m, R, V, pos, j)
        /\ d = <<>> \/ j = i
  BY DEF MarkedIn
<1>2. s.todo = d  BY <1>1, MarkParts
<1>3. CASE d = <<>>
  <2>1. MarkNext(s, ok) = s  BY <1>2, <1>3 DEF MarkNext
  <2>2. s \in MarkStates  BY <1>1, InMarked
  <2> QED  BY <1>1, <1>3, <2>1, <2>2 DEF MarkedIn
<1>4. CASE d # <<>>
  <2>1. MarkNext(s, ok) = Mark(MarkState(n, q, f, d), ok)  BY <1>1, <1>2, <1>4 DEF MarkNext
  <2>2. Marking(n, q, f, d, m, R, V, pos, i)  BY <1>1, <1>4
  <2>3. PICK k, r, g, e :
          /\ Mark(MarkState(n, q, f, d), ok) = MarkState(k, r, g, e)
          /\ Marking(k, r, g, e, m, R, V \cup {Head(d)}, Later(pos, V, Head(d), i), i + 1)
    <3>1. MarkedTo(Mark(MarkState(n, q, f, d), ok),
                   m, R, V \cup {Head(d)}, Later(pos, V, Head(d), i), i + 1)
      BY <1>4, <2>2, MarkStep
    <3> QED  BY <3>1 DEF MarkedTo
  <2>4. MarkState(k, r, g, e) \in MarkStates  BY <2>3, InMarked
  <2>5. \E x, y, z, u, U, p, h :
          /\ MarkState(k, r, g, e) = MarkState(x, y, z, u) /\ Marking(x, y, z, u, m, R, U, p, h)
          /\ u = <<>> \/ h = i + 1
    BY <2>3
  <2> QED  BY <2>1, <2>3, <2>4, <2>5 DEF MarkedIn
<1> QED  BY <1>3, <1>4

\* Marking ends: by then it can have visited every location.
LEMMA MarkRootsEnd ==
    ASSUME NEW R, Heap(mem, free, R), NEW ok
    PROVE  \E n, q, f, V, pos, i :
             /\ MarkRoots(ok) = MarkState(n, q, f, <<>>)
             /\ Marking(n, q, f, <<>>, mem, R, V, pos, i)
<1> DEFINE N == Cardinality(Locations)
           start == MarkState(mem, {}, FALSE, SetToSeq(Roots))
           Good == [i \in 0..N |-> MarkedIn(mem, R, i)]
           G == [i \in 1..N |-> [s \in MarkedIn(mem, R, i - 1) |-> MarkNext(s, ok)]]
           marking[n \in 0..N] ==
               IF n = 0 THEN start
               ELSE LET s == marking[n - 1] IN IF s.todo = <<>> THEN s ELSE Mark(s, ok)
<1>1. DOMAIN mem = Locations  BY DEF Heap, Shape
<1>2. N \in Nat /\ IsFiniteSet(Locations)  BY WordsFacts
<1>3. MarkRoots(ok) = marking[N]  BY <1>1 DEF MarkRoots
<1> HIDE DEF N
<1>4. start \in Good[0]
  <2>1. PICK V, pos : Marking(mem, {}, FALSE, SetToSeq(Roots), mem, R, V, pos, 0)  BY MarkStart
  <2>2. start \in MarkStates  BY <2>1, InMarked
  <2>3. start \in MarkedIn(mem, R, 0)
    <3>1. \E n, q, f, d, U, p, j :
            /\ start = MarkState(n, q, f, d) /\ Marking(n, q, f, d, mem, R, U, p, j)
            /\ d = <<>> \/ j = 0
      BY <2>1
    <3> HIDE DEF start
    <3> QED  BY <2>2, <3>1 DEF MarkedIn
  <2> HIDE DEF start
  <2> QED  BY <1>2, <2>3
<1> HIDE DEF start
<1>5. \A i \in 1..N : \A s \in Good[i - 1] : G[i][s] \in Good[i]
  <2> SUFFICES ASSUME NEW i \in 1..N, NEW s \in Good[i - 1]  PROVE G[i][s] \in Good[i]
    OBVIOUS
  <2>1. i \in 0..N /\ i - 1 \in 0..N /\ (i - 1) + 1 = i  BY <1>2
  <2>2. s \in MarkedIn(mem, R, i - 1)  BY <2>1
  <2>3. MarkNext(s, ok) \in MarkedIn(mem, R, i)
    <3>1. MarkNext(s, ok) \in MarkedIn(mem, R, (i - 1) + 1)
      <4> DEFINE j == i - 1
      <4> HIDE DEF j, Good, G, marking
      <4> QED  BY <2>2, MarkedOn DEF j
    <3> QED  BY <2>1, <3>1
  <2> QED  BY <2>1, <2>2, <2>3
<1>6. PICK f : Loop(f, N, start, G) /\ \A i \in 0..N : f[i] \in Good[i]
  <2> HIDE DEF Good, G, marking
  <2> QED  BY <1>2, <1>4, <1>5, LoopExists
<1>7. \A i \in 0..N : f[i] \in MarkedIn(mem, R, i)  BY <1>6
<1>8. \A i \in 0..N : f[i] = IF i = 0 THEN start ELSE MarkNext(f[i - 1], ok)
  <2> SUFFICES ASSUME NEW i \in 0..N, i # 0  PROVE f[i] = MarkNext(f[i - 1], ok)
    BY <1>6 DEF Loop
  <2>1. i \in 1..N /\ i - 1 \in 0..N  BY <1>2
  <2>2. f[i] = G[i][f[i - 1]]  BY <1>6 DEF Loop
  <2> QED  BY <1>7, <2>1, <2>2
<1>9. f = [n \in 0..N |->
             IF n = 0 THEN start
             ELSE LET s == f[n - 1] IN IF s.todo = <<>> THEN s ELSE Mark(s, ok)]
  <2>1. f = [i \in 0..N |-> f[i]]  BY <1>6 DEF Loop
  <2> QED  BY <1>8, <2>1 DEF MarkNext
<1>10. marking = [n \in 0..N |->
             IF n = 0 THEN start
             ELSE LET s == marking[n - 1] IN IF s.todo = <<>> THEN s ELSE Mark(s, ok)]
  BY <1>9 DEF marking
<1> HIDE DEF marking, Good, G
<1>11. marking[0] = start /\ \A i \in 1..N : marking[i] = MarkNext(marking[i - 1], ok)
  <2>1. 0 \in 0..N /\ \A i \in 1..N : i \in 0..N /\ i # 0  BY <1>2
  <2> QED  BY <1>10, <2>1 DEF MarkNext
<1>12. marking[N] \in MarkedIn(mem, R, N)
  <2> DEFINE S == {i \in 0..N : marking[i] \in MarkedIn(mem, R, i)}
  <2>1. 0 \in S  BY <1>2, <1>4, <1>11 DEF Good
  <2>2. \A i \in 1..N : i - 1 \in S => i \in S
    <3> SUFFICES ASSUME NEW i \in 1..N, i - 1 \in S  PROVE i \in S
      OBVIOUS
    <3> DEFINE j == i - 1
    <3>1. marking[j] \in MarkedIn(mem, R, j) /\ marking[i] = MarkNext(marking[j], ok)
          /\ i \in 0..N /\ j + 1 = i
      BY <1>2, <1>11
    <3> HIDE DEF j
    <3>2. MarkNext(marking[j], ok) \in MarkedIn(mem, R, j + 1)  BY <3>1, MarkedOn
    <3> QED  BY <3>1, <3>2
  <2>3. \A i \in 0..N : i \in S
    <3> HIDE DEF S
    <3> QED  BY <1>2, <2>1, <2>2, Climb
  <2> QED  BY <1>2, <2>3
<1>13. PICK n, q, g, d, V, pos, j :
         /\ marking[N] = MarkState(n, q, g, d) /\ Marking(n, q, g, d, mem, R, V, pos, j)
         /\ d = <<>> \/ j = N
  BY <1>12 DEF MarkedIn
<1>14. d = <<>>
  <2> SUFFICES ASSUME d # <<>>  PROVE FALSE
    OBVIOUS
  <2>1. V \in SUBSET Locations /\ Cardinality(V) = N /\ Agenda(d, mem, V)  BY <1>13 DEF Marking
  <2>2. V = Locations  BY <1>2, <2>1, FS_Subset DEF N
  <2>3. Head(d) \in ToSet(d) /\ Head(d) \in Locations  BY <2>1, HeadSplit DEF Agenda
  <2>4. V \cap ToSet(d) = {}  BY <2>1 DEF Agenda
  <2> QED  BY <2>2, <2>3, <2>4
<1> QED  BY <1>3, <1>13, <1>14

\* Everything that can be reached is visited.
LEMMA MarkRootsResult ==
    ASSUME NEW R, Heap(mem, free, R), NEW ok
    PROVE  \E n, q, f, pos, i :
             /\ MarkRoots(ok) = MarkState(n, q, f, <<>>)
             /\ Threads(n, mem, Slots(mem, Reach(mem)), pos)
             /\ Numbered(pos, Slots(mem, Reach(mem)), i)
             /\ Listed(q, f, mem, Slots(mem, Reach(mem)))
             /\ Targets(mem, Slots(mem, Reach(mem))) = Reach(mem)
             /\ Slots(mem, Reach(mem)) \in SUBSET Locations
<1> DEFINE L == Reach(mem)
<1>1. Heap(mem, free, L) /\ \A X : Targets(mem, Slots(mem, X)) \subseteq X => L \subseteq X
  BY ReachHeap
<1>2. PICK n, q, f, V, pos, i :
        /\ MarkRoots(ok) = MarkState(n, q, f, <<>>)
        /\ Marking(n, q, f, <<>>, mem, L, V, pos, i)
  <2> HIDE DEF L
  <2> QED  BY <1>1, MarkRootsEnd
<1>3. ToSet(<<>>) = {}  BY DEF ToSet
<1>4. V = Slots(mem, Targets(mem, V))  BY <1>2, <1>3 DEF Marking, Agenda
<1>5. Targets(mem, V) \subseteq L  BY <1>2 DEF Marking
<1>6. L \subseteq Targets(mem, V)
  <2> DEFINE X == Targets(mem, V)
  <2>1. Targets(mem, Slots(mem, X)) \subseteq X  BY <1>4
  <2> HIDE DEF X, L
  <2> QED  BY <1>1, <2>1 DEF X
<1>7. Targets(mem, V) = L /\ V = Slots(mem, L)  BY <1>4, <1>5, <1>6
<1>8. /\ Threads(n, mem, V, pos) /\ Numbered(pos, V, i) /\ Listed(q, f, mem, V)
      /\ V \in SUBSET Locations
  BY <1>2 DEF Marking
<1> HIDE DEF L
<1>9. /\ Threads(n, mem, Slots(mem, L), pos) /\ Numbered(pos, Slots(mem, L), i)
      /\ Listed(q, f, mem, Slots(mem, L)) /\ Targets(mem, Slots(mem, L)) = L
      /\ Slots(mem, L) \in SUBSET Locations
  BY <1>7, <1>8
<1>10. MarkRoots(ok) = MarkState(n, q, f, <<>>)  BY <1>2
<1> QED  BY <1>9, <1>10 DEF L

-----------------------------------------------------------------------------
(* Undoing a chain *)

\* The locations S of a chain of the locations Q are those at its end.
Lower(S, Q, pos) ==
    S \subseteq Q /\ \A l \in S, k \in Q : pos[k] < pos[l] => k \in S

\* n is the memory n0, where the chain of Q has been undone but for S.
Unlinked(n, n0, Q, S, pos, w, dest) ==
    /\ n \in [Locations -> Word]
    /\ \A l \in Q : n[l] = IF l \in S THEN Top(Below(Q, pos, l), pos, w) ELSE Ref(dest)
    /\ \A l \in Locations \ Q : n[l] = n0[l]

LEMMA UnlinkStep ==
    ASSUME NEW V \in SUBSET Locations, NEW pos, NEW i, Numbered(pos, V, i),
           NEW Q, Q \subseteq V, NEW S, Lower(S, Q, pos), S # {}, NEW w \in Word,
           NEW dest \in Locations, NEW n, NEW n0, Unlinked(n, n0, Q, S, pos, w, dest)
    PROVE  \E l \in S : \E k :
             /\ Unlink(LinkState(n, Top(S, pos, w)), dest)
                  = LinkState(k, Top(S \ {l}, pos, w))
             /\ Lower(S \ {l}, Q, pos)
             /\ Unlinked(k, n0, Q, S \ {l}, pos, w, dest)
<1>1. S \subseteq V /\ S \subseteq Q  BY DEF Lower
<1>2. PICK l \in S : /\ Top(S, pos, w) = Ref(l)
                     /\ \A k \in S : pos[k] <= pos[l]
                     /\ Below(S, pos, l) = S \ {l}
  BY <1>1, TopOf
<1>3. l \in Q /\ l \in Locations  BY <1>1
<1>4. \A k \in V : pos[k] \in Nat  BY DEF Numbered
<1>5. Below(Q, pos, l) = S \ {l}
  <2>1. \A k \in Q : pos[k] < pos[l] => k \in S  BY DEF Lower
  <2>2. \A k \in Q : k \in Below(Q, pos, l) <=> k \in Below(S, pos, l)  BY <1>1, <2>1 DEF Below
  <2>3. Below(Q, pos, l) \subseteq Q /\ Below(S, pos, l) \subseteq Q  BY <1>1 DEF Below
  <2> QED  BY <1>2, <2>2, <2>3
<1>6. n \in [Locations -> Word] /\ n[l] = Top(S \ {l}, pos, w)
  BY <1>3, <1>5 DEF Unlinked
<1> DEFINE k == [n EXCEPT ![l] = Ref(dest)]
<1>7. /\ k \in [Locations -> Word] /\ k[l] = Ref(dest)
      /\ \A j \in Locations : j # l => k[j] = n[j]
  BY <1>3, <1>6, KindsOfWords
<1>8. Unlink(LinkState(n, Top(S, pos, w)), dest) = LinkState(k, Top(S \ {l}, pos, w))
  <2> DEFINE u == LinkState(n, Top(S, pos, w))
  <2>1. u.mem = n /\ u.word = Ref(l)  BY <1>2 DEF LinkState
  <2>2. Is(Ref(l), "ref") /\ Ref(l)[2] = l  BY KindsOfWords
  <2> HIDE DEF u
  <2>3. Unlink(u, dest) = LinkState(k, n[l])  BY <2>1, <2>2 DEF Unlink
  <2> HIDE DEF k
  <2> QED  BY <1>6, <2>3 DEF u
<1> HIDE DEF k
<1>9. Lower(S \ {l}, Q, pos)
  <2> SUFFICES ASSUME NEW x \in S \ {l}, NEW y \in Q, pos[y] < pos[x]  PROVE y \in S \ {l}
    BY <1>1 DEF Lower
  <2>1. y \in S  BY DEF Lower
  <2>2. pos[x] <= pos[l] /\ pos[x] \in Nat /\ pos[l] \in Nat /\ pos[y] \in Nat
    BY <1>1, <1>2, <1>4, <2>1
  <2>3. y # l  BY <2>2
  <2> QED  BY <2>1, <2>3
<1>10. Unlinked(k, n0, Q, S \ {l}, pos, w, dest)
  <2>1. \A j \in Q : k[j] = IF j \in S \ {l} THEN Top(Below(Q, pos, j), pos, w) ELSE Ref(dest)
    <3>1. \A j \in Q : j \in Locations  OBVIOUS
    <3> QED  BY <1>7, <3>1 DEF Unlinked
  <2>2. \A j \in Locations \ Q : k[j] = n0[j]  BY <1>3, <1>7 DEF Unlinked
  <2> QED  BY <1>7, <2>1, <2>2 DEF Unlinked
<1> QED  BY <1>8, <1>9, <1>10

\* The chain of Q undone in n.
Unhooked(n, Q, dest) == [l \in Locations |-> IF l \in Q THEN Ref(dest) ELSE n[l]]

\* The states of Unchain after j steps.
UnlinkedIn(n0, Q, pos, w, dest, j) ==
    {u \in [mem : [Locations -> Word], word : Word] : \E n, S :
        /\ u = LinkState(n, Top(S, pos, w)) /\ Lower(S, Q, pos)
        /\ Unlinked(n, n0, Q, S, pos, w, dest)
        /\ S = {} \/ Cardinality(S) + j <= Cardinality(Q)}

LEMMA UnlinkedOn ==
    ASSUME NEW V \in SUBSET Locations, NEW pos, NEW i, Numbered(pos, V, i),
           NEW Q, Q \subseteq V, NEW w \in Word, ~ Is(w, "ref"),
           NEW dest \in Locations, NEW n0, NEW j \in Nat,
           NEW u \in UnlinkedIn(n0, Q, pos, w, dest, j)
    PROVE  Unlink(u, dest) \in UnlinkedIn(n0, Q, pos, w, dest, j + 1)
<1>1. PICK n, S :
        /\ u = LinkState(n, Top(S, pos, w)) /\ Lower(S, Q, pos)
        /\ Unlinked(n, n0, Q, S, pos, w, dest)
        /\ S = {} \/ Cardinality(S) + j <= Cardinality(Q)
  BY DEF UnlinkedIn
<1>2. S \subseteq V /\ S \subseteq Q  BY <1>1 DEF Lower
<1>3. CASE S = {}
  <2>1. u.word = w  BY <1>1, <1>3 DEF LinkState, Top
  <2>2. Unlink(u, dest) = u  BY <2>1 DEF Unlink
  <2> QED  BY <1>1, <1>3, <2>2 DEF UnlinkedIn
<1>4. CASE S # {}
  <2>1. PICK l \in S : \E k :
             /\ Unlink(LinkState(n, Top(S, pos, w)), dest)
                  = LinkState(k, Top(S \ {l}, pos, w))
             /\ Lower(S \ {l}, Q, pos)
             /\ Unlinked(k, n0, Q, S \ {l}, pos, w, dest)
    BY <1>1, <1>4, UnlinkStep
  <2>2. PICK k :
             /\ Unlink(LinkState(n, Top(S, pos, w)), dest)
                  = LinkState(k, Top(S \ {l}, pos, w))
             /\ Lower(S \ {l}, Q, pos)
             /\ Unlinked(k, n0, Q, S \ {l}, pos, w, dest)
    BY <2>1
  <2>3. IsFiniteSet(Q) /\ IsFiniteSet(S)
    <3>1. Q \in SUBSET Locations /\ S \in SUBSET Locations  BY <1>2
    <3> QED  BY <3>1, WordsFacts, FS_Subset
  <2>4. Cardinality(S \ {l}) = Cardinality(S) - 1 /\ Cardinality(S) \in Nat /\ Cardinality(Q) \in Nat
    BY <2>3, FS_RemoveElement, FS_CardinalityType
  <2>5. Cardinality(S \ {l}) + (j + 1) <= Cardinality(Q)  BY <1>1, <1>4, <2>4
  <2>6. LinkState(k, Top(S \ {l}, pos, w)) \in [mem : [Locations -> Word], word : Word]
    <3>1. Top(S \ {l}, pos, w) \in Word  BY <1>2, TopWord
    <3>2. k \in [Locations -> Word]  BY <2>2 DEF Unlinked
    <3> QED  BY <3>1, <3>2 DEF LinkState
  <2> DEFINE T == S \ {l}
  <2>7. \E n2, S2 :
          /\ LinkState(k, Top(T, pos, w)) = LinkState(n2, Top(S2, pos, w)) /\ Lower(S2, Q, pos)
          /\ Unlinked(n2, n0, Q, S2, pos, w, dest)
          /\ S2 = {} \/ Cardinality(S2) + (j + 1) <= Cardinality(Q)
    <3> HIDE DEF T
    <3> QED  BY <2>2, <2>5 DEF T
  <2>8. LinkState(k, Top(T, pos, w)) \in UnlinkedIn(n0, Q, pos, w, dest, j + 1)
    BY <2>6, <2>7 DEF UnlinkedIn
  <2> QED  BY <1>1, <2>2, <2>8
<1> QED  BY <1>3, <1>4

\* Unchain gives every location of a chain the address and finds its end.
LEMMA UnchainEnd ==
    ASSUME NEW V \in SUBSET Locations, NEW pos, NEW i, Numbered(pos, V, i),
           NEW Q, Q \subseteq V, NEW w \in Word, ~ Is(w, "ref"),
           NEW dest \in Locations, NEW n0 \in [Locations -> Word],
           \A l \in Q : n0[l] = Top(Below(Q, pos, l), pos, w)
    PROVE  Unchain(n0, Top(Q, pos, w), dest) = LinkState(Unhooked(n0, Q, dest), w)
<1> DEFINE N == Cardinality(Locations)
           start == LinkState(n0, Top(Q, pos, w))
           In(j) == UnlinkedIn(n0, Q, pos, w, dest, j)
           Good == [j \in 0..N |-> In(j)]
           G == [j \in 1..N |-> [u \in In(j - 1) |-> Unlink(u, dest)]]
           link[n \in 0..N] == IF n = 0 THEN start ELSE Unlink(link[n - 1], dest)
<1>1. DOMAIN n0 = Locations  OBVIOUS
<1>2. N \in Nat /\ IsFiniteSet(Locations)  BY WordsFacts
<1>3. Unchain(n0, Top(Q, pos, w), dest) = link[N]  BY <1>1 DEF Unchain
<1> HIDE DEF N
<1>4. Q \in SUBSET Locations  OBVIOUS
<1>5. IsFiniteSet(Q) /\ Cardinality(Q) \in Nat /\ Cardinality(Q) <= N
  BY <1>2, <1>4, FS_Subset, FS_CardinalityType DEF N
<1>6. start \in In(0)
  <2>1. start \in [mem : [Locations -> Word], word : Word]
    <3>1. Top(Q, pos, w) \in Word  BY TopWord
    <3> QED  BY <3>1 DEF LinkState
  <2>2. Lower(Q, Q, pos)  BY DEF Lower
  <2>3. Unlinked(n0, n0, Q, Q, pos, w, dest)  BY DEF Unlinked
  <2>4. Cardinality(Q) + 0 <= Cardinality(Q)  BY <1>5
  <2>5. \E n, S :
          /\ start = LinkState(n, Top(S, pos, w)) /\ Lower(S, Q, pos)
          /\ Unlinked(n, n0, Q, S, pos, w, dest)
          /\ S = {} \/ Cardinality(S) + 0 <= Cardinality(Q)
    BY <2>2, <2>3, <2>4
  <2> HIDE DEF start
  <2> QED  BY <2>1, <2>5 DEF UnlinkedIn
<1> HIDE DEF start
<1>7. \A j \in Nat : \A u \in In(j) : Unlink(u, dest) \in In(j + 1)
  <2> HIDE DEF Good, G, link
  <2> SUFFICES ASSUME NEW j \in Nat, NEW u \in In(j)  PROVE Unlink(u, dest) \in In(j + 1)
    OBVIOUS
  <2> QED  BY UnlinkedOn
<1> HIDE DEF In
<1>8. \A j \in 1..N : \A u \in Good[j - 1] : G[j][u] \in Good[j]
  <2> SUFFICES ASSUME NEW j \in 1..N, NEW u \in Good[j - 1]  PROVE G[j][u] \in Good[j]
    OBVIOUS
  <2>1. j \in 0..N /\ j - 1 \in 0..N /\ j - 1 \in Nat /\ (j - 1) + 1 = j  BY <1>2
  <2>2. u \in In(j - 1)  BY <2>1
  <2>3. Unlink(u, dest) \in In(j)  BY <1>7, <2>1, <2>2
  <2> QED  BY <2>1, <2>2, <2>3
<1>9. start \in Good[0]  BY <1>2, <1>6
<1>10. PICK f : Loop(f, N, start, G) /\ \A j \in 0..N : f[j] \in Good[j]
  <2> HIDE DEF Good, G, link
  <2> QED  BY <1>2, <1>8, <1>9, LoopExists
<1>11. \A j \in 0..N : f[j] \in In(j)  BY <1>10
<1>12. f = [n \in 0..N |-> IF n = 0 THEN start ELSE Unlink(f[n - 1], dest)]
  <2>1. \A j \in 0..N : f[j] = IF j = 0 THEN start ELSE Unlink(f[j - 1], dest)
    <3> SUFFICES ASSUME NEW j \in 0..N, j # 0  PROVE f[j] = Unlink(f[j - 1], dest)
      BY <1>10 DEF Loop
    <3>1. j \in 1..N /\ j - 1 \in 0..N  BY <1>2
    <3>2. f[j] = G[j][f[j - 1]]  BY <1>10 DEF Loop
    <3> QED  BY <1>11, <3>1, <3>2
  <2>2. f = [j \in 0..N |-> f[j]]  BY <1>10 DEF Loop
  <2> QED  BY <2>1, <2>2
<1>13. link = [n \in 0..N |-> IF n = 0 THEN start ELSE Unlink(link[n - 1], dest)]
  BY <1>12 DEF link
<1> HIDE DEF link, Good, G
<1>14. link[N] \in In(N)
  <2> DEFINE S == {j \in 0..N : link[j] \in In(j)}
  <2>1. 0 \in S  BY <1>2, <1>6, <1>13
  <2>2. \A j \in 1..N : j - 1 \in S => j \in S
    <3> SUFFICES ASSUME NEW j \in 1..N, j - 1 \in S  PROVE j \in S
      OBVIOUS
    <3>1. link[j - 1] \in In(j - 1) /\ j \in 0..N /\ j # 0 /\ j - 1 \in Nat /\ (j - 1) + 1 = j
      BY <1>2
    <3>2. link[j] = Unlink(link[j - 1], dest)  BY <1>13, <3>1
    <3>3. Unlink(link[j - 1], dest) \in In(j)  BY <1>7, <3>1
    <3> QED  BY <3>1, <3>2, <3>3
  <2>3. \A j \in 0..N : j \in S
    <3> HIDE DEF S
    <3> QED  BY <1>2, <2>1, <2>2, Climb
  <2> QED  BY <1>2, <2>3
<1>15. PICK n, S : /\ link[N] = LinkState(n, Top(S, pos, w)) /\ Lower(S, Q, pos)
                   /\ Unlinked(n, n0, Q, S, pos, w, dest)
                   /\ S = {} \/ Cardinality(S) + N <= Cardinality(Q)
  BY <1>14 DEF In, UnlinkedIn
<1>16. S = {}
  <2> SUFFICES ASSUME S # {}  PROVE FALSE
    OBVIOUS
  <2>1. S \in SUBSET Q  BY <1>15 DEF Lower
  <2>2. IsFiniteSet(S) /\ Cardinality(S) \in Nat  BY <1>5, <2>1, FS_Subset, FS_CardinalityType
  <2>3. Cardinality(S) = 0  BY <1>2, <1>5, <1>15, <2>2
  <2> QED  BY <2>2, <2>3, FS_EmptySet
<1>17. Top(S, pos, w) = w  BY <1>16 DEF Top
<1>18. n = Unhooked(n0, Q, dest)
  <2>1. /\ n \in [Locations -> Word] /\ \A l \in Q : n[l] = Ref(dest)
        /\ \A l \in Locations \ Q : n[l] = n0[l]
    BY <1>15, <1>16 DEF Unlinked
  <2>2. \A l \in Locations : n[l] = IF l \in Q THEN Ref(dest) ELSE n0[l]  BY <2>1
  <2> QED  BY <2>1, <2>2 DEF Unhooked
<1> QED  BY <1>3, <1>15, <1>17, <1>18

-----------------------------------------------------------------------------
(* Where blocks slide *)

Base == RegionBase[curblock]

End == free[curblock]

\* to is the address of each word of the current region, if it starts a block,
\* after the blocks at L have slid down in m.
Slides(to, m, L) ==
    /\ to[Base] = Base
    /\ \A a \in Base .. End - 1 :
         to[a + 1] = to[a] + (IF a \in L THEN BlkSize(m[a][2]) ELSE 0)

\* A block of the current region starts at b, or the free words do.
Start(m, b) == b = End \/ (b \in Blocks(m, free) /\ InRegion(curblock, b))

LEMMA Bounds ==
    ASSUME NEW m, Shape(m, free), curblock \in Regions
    PROVE  Base \in Nat /\ End \in Nat /\ Base <= End
BY CollectorAssumption DEF Shape, Fits, Base, End

LEMMA StartFacts ==
    ASSUME NEW m, Shape(m, free), curblock \in Regions, NEW b, Start(m, b)
    PROVE  /\ b \in Nat /\ Base <= b /\ b <= End
           /\ b # End => /\ b \in Blocks(m, free) /\ b < End
                         /\ BlkSize(m[b][2]) \in Nat /\ BlkSize(m[b][2]) > 0
                         /\ b + BlkSize(m[b][2]) <= End
                         /\ Start(m, b + BlkSize(m[b][2]))
<1>1. Base \in Nat /\ End \in Nat /\ Base <= End  BY Bounds
<1>2. CASE b = End  BY <1>1, <1>2
<1>3. CASE b # End
  <2>1. b \in Blocks(m, free) /\ InRegion(curblock, b)  BY <1>3 DEF Start
  <2> DEFINE n == BlkSize(m[b][2])
  <2>2. b \in Nat /\ n \in Nat /\ n > 0  BY <2>1, BlockFacts
  <2>3. Base <= b /\ b < End  BY <2>1 DEF InRegion, Base, End
  <2>4. PICK p \in Regions : /\ Within(p, free, b) /\ b + n <= free[p]
                             /\ b + n = free[p] \/ b + n \in Blocks(m, free)
    BY <2>1, BlockFacts
  <2>5. Fits(free)  BY DEF Shape
  <2>6. Base <= b /\ b < RegionEnd[curblock]
    <3>1. free[curblock] \in Nat /\ RegionEnd[curblock] \in Nat /\ free[curblock] <= RegionEnd[curblock]
      BY <2>5, CollectorAssumption DEF Fits
    <3> QED  BY <2>2, <2>3, <3>1 DEF End
  <2>7. p = curblock
    <3>1. b \in Int  BY <2>2
    <3> HIDE DEF n
    <3> QED  BY <2>4, <2>5, <2>6, <3>1, OneRegion DEF Base
  <2> HIDE DEF n
  <2>8. b + n <= End /\ (b + n = End \/ b + n \in Blocks(m, free))  BY <2>4, <2>7 DEF End
  <2>9. b + n # End => InRegion(curblock, b + n)
    <3>1. b + n # End => Base <= b + n /\ b + n < End  BY <1>1, <2>2, <2>3, <2>8
    <3> QED  BY <3>1 DEF InRegion, Base, End
  <2>10. Start(m, b + n)  BY <2>8, <2>9 DEF Start
  <2> QED  BY <1>1, <2>1, <2>2, <2>3, <2>8, <2>10 DEF n
<1> QED  BY <1>2, <1>3

\* A block of the current region that starts before b ends before it.
LEMMA StartsApart ==
    ASSUME NEW m, Shape(m, free), curblock \in Regions, NEW a, Start(m, a), NEW b, Start(m, b),
           a < b
    PROVE  a \in Blocks(m, free) /\ a + BlkSize(m[a][2]) <= b
<1>1. a \in Nat /\ b \in Nat /\ b <= End /\ End \in Nat  BY StartFacts, Bounds
<1>2. a # End  BY <1>1
<1>3. a \in Blocks(m, free) /\ a + BlkSize(m[a][2]) <= End  BY <1>2, StartFacts
<1>4. CASE b = End  BY <1>3, <1>4
<1>5. CASE b # End
  <2>1. b \in Blocks(m, free)  BY <1>5 DEF Start
  <2> QED  BY <1>3, <2>1, BlocksApart
<1> QED  BY <1>4, <1>5

LEMMA SlideTypes ==
    ASSUME NEW m, Shape(m, free), curblock \in Regions, NEW L \in SUBSET Blocks(m, free),
           NEW to, Slides(to, m, L)
    PROVE  /\ \A y \in Base .. End : to[y] \in Nat /\ Base <= to[y]
           /\ \A y \in Base .. End - 1 : to[y] <= to[y + 1]
           /\ \A y \in Base .. End : \A b : Start(m, b) /\ y <= b => to[y] <= b
<1>1. Base \in Nat /\ End \in Nat /\ Base <= End  BY Bounds
<1>2. \A a \in L : BlkSize(m[a][2]) \in Nat  BY BlockFacts
<1> DEFINE g(a) == IF a \in L THEN BlkSize(m[a][2]) ELSE 0
<1>3. \A a : g(a) \in Nat  BY <1>2
<1>4. to[Base] = Base /\ \A a \in Base .. End - 1 : to[a + 1] = to[a] + g(a)  BY DEF Slides
<1> DEFINE N == End - Base
<1>5. N \in Nat  BY <1>1
<1>6. ASSUME NEW a \in Base .. End - 1, to[a] \in Nat, Base <= to[a],
             \A b : Start(m, b) /\ a <= b => to[a] <= b
      PROVE  \A b : Start(m, b) /\ a + 1 <= b => to[a + 1] <= b
  <2> SUFFICES ASSUME NEW b, Start(m, b), a + 1 <= b  PROVE to[a + 1] <= b
    OBVIOUS
  <2>1. b \in Nat /\ b <= End  BY StartFacts
  <2>2. a \in Int /\ a <= b /\ a < b  BY <1>1, <2>1
  <2>3. CASE a \notin L
    <3>1. to[a + 1] = to[a]  BY <1>4, <1>6, <2>3
    <3> QED  BY <1>6, <2>2, <3>1
  <2>4. CASE a \in L
    <3>1. a \in Blocks(m, free) /\ InRegion(curblock, a)  BY <1>1, <2>4 DEF InRegion, Base, End
    <3>2. Start(m, a)  BY <3>1 DEF Start
    <3>3. a + BlkSize(m[a][2]) <= b  BY <2>2, <3>2, StartsApart
    <3>4. to[a] <= a  BY <1>1, <1>6, <3>2
    <3>5. to[a + 1] = to[a] + BlkSize(m[a][2]) /\ BlkSize(m[a][2]) \in Nat  BY <1>2, <1>4, <2>4
    <3> HIDE DEF BlkSize
    <3> QED  BY <1>1, <1>6, <2>1, <2>2, <3>3, <3>4, <3>5
  <2> QED  BY <2>3, <2>4
<1> HIDE DEF g
<1> DEFINE S == {i \in 0..N : /\ to[Base + i] \in Nat /\ Base <= to[Base + i]
                              /\ \A b : Start(m, b) /\ Base + i <= b => to[Base + i] <= b}
<1>7. 0 \in S
  <2>1. Base + 0 = Base  BY <1>1
  <2> QED  BY <1>1, <1>4, <1>5, <2>1
<1>8. \A i \in 1..N : i - 1 \in S => i \in S
  <2> SUFFICES ASSUME NEW i \in 1..N, i - 1 \in S  PROVE i \in S
    OBVIOUS
  <2> DEFINE a == Base + (i - 1)
  <2>1. to[a] \in Nat /\ Base <= to[a] /\ \A b : Start(m, b) /\ a <= b => to[a] <= b  OBVIOUS
  <2>2. a \in Base .. End - 1 /\ a + 1 = Base + i /\ i \in 0..N  BY <1>1
  <2> HIDE DEF a, S, N
  <2>3. \A b : Start(m, b) /\ a + 1 <= b => to[a + 1] <= b  BY <1>6, <2>1, <2>2
  <2>4. to[a + 1] = to[a] + g(a) /\ g(a) \in Nat  BY <1>3, <1>4, <2>2
  <2>5. to[a + 1] \in Nat /\ Base <= to[a + 1]  BY <1>1, <2>1, <2>4
  <2> QED  BY <2>2, <2>3, <2>5 DEF S
<1>9. \A i \in 0..N : i \in S
  <2> HIDE DEF S, N
  <2> QED  BY <1>5, <1>7, <1>8, Climb
<1>10. ASSUME NEW y \in Base .. End
       PROVE  /\ to[y] \in Nat /\ Base <= to[y]
              /\ \A b : Start(m, b) /\ y <= b => to[y] <= b
  <2>1. y - Base \in 0..N /\ Base + (y - Base) = y  BY <1>1
  <2>2. y - Base \in S  BY <1>9, <2>1
  <2> QED  BY <2>1, <2>2
<1>11. \A y \in Base .. End - 1 : to[y] <= to[y + 1]
  <2> SUFFICES ASSUME NEW y \in Base .. End - 1  PROVE to[y] <= to[y + 1]
    OBVIOUS
  <2>1. y \in Base .. End  BY <1>1
  <2>2. to[y + 1] = to[y] + g(y) /\ g(y) \in Nat /\ to[y] \in Nat  BY <1>3, <1>4, <1>10, <2>1
  <2> QED  BY <2>2
<1> QED  BY <1>10, <1>11

LEMMA SlideOrder ==
    ASSUME NEW m, Shape(m, free), curblock \in Regions, NEW L \in SUBSET Blocks(m, free),
           NEW to, Slides(to, m, L), NEW y \in Base .. End, NEW z \in Base .. End, y <= z
    PROVE  to[y] <= to[z]
<1>1. Base \in Nat /\ End \in Nat /\ Base <= End  BY Bounds
<1>2. /\ \A x \in Base .. End : to[x] \in Nat
      /\ \A x \in Base .. End - 1 : to[x] <= to[x + 1]
  BY SlideTypes
<1> DEFINE N == z - y
           S == {i \in 0..N : to[y] <= to[y + i]}
<1>3. N \in Nat  OBVIOUS
<1>4. 0 \in S
  <2>1. y + 0 = y  OBVIOUS
  <2> QED  BY <1>2, <1>3, <2>1
<1>5. \A i \in 1..N : i - 1 \in S => i \in S
  <2> SUFFICES ASSUME NEW i \in 1..N, i - 1 \in S  PROVE i \in S
    OBVIOUS
  <2> DEFINE x == y + (i - 1)
  <2>1. to[y] <= to[x] /\ x \in Base .. End - 1 /\ x \in Base .. End /\ x + 1 = y + i
        /\ x + 1 \in Base .. End /\ i \in 0..N
    BY <1>1
  <2> HIDE DEF x, S
  <2>2. to[y] <= to[x + 1]  BY <1>2, <2>1
  <2> QED  BY <2>1, <2>2 DEF S
<1>6. N \in S
  <2>1. \A i \in 0..N : i \in S
    <3> HIDE DEF S, N
    <3> QED  BY <1>3, <1>4, <1>5, Climb
  <2> QED  BY <1>3, <2>1
<1>7. y + N = z  OBVIOUS
<1> QED  BY <1>6, <1>7

\* Beyond a block everything has slid by what the block has freed, or the
\* block's size is added.
LEMMA SlidePast ==
    ASSUME NEW m, Shape(m, free), curblock \in Regions, NEW L \in SUBSET Blocks(m, free),
           NEW to, Slides(to, m, L), NEW a, Start(m, a), a # End
    PROVE  /\ to[a] <= a
           /\ a + BlkSize(m[a][2]) \in Base .. End /\ a \in Base .. End
           /\ to[a + BlkSize(m[a][2])] = to[a] + (IF a \in L THEN BlkSize(m[a][2]) ELSE 0)
<1> DEFINE n == BlkSize(m[a][2])
           g == IF a \in L THEN n ELSE 0
<1>1. Base \in Nat /\ End \in Nat /\ Base <= End  BY Bounds
<1>2. /\ a \in Nat /\ Base <= a /\ a < End /\ n \in Nat /\ n > 0 /\ a + n <= End
      /\ a \in Blocks(m, free)
  BY StartFacts
<1>3. a \in Base .. End /\ a + n \in Base .. End /\ a \in Base .. End - 1
  <2> HIDE DEF n
  <2> QED  BY <1>1, <1>2
<1>4. to[a] <= a /\ \A y \in Base .. End : to[y] \in Nat
  <2>1. /\ \A y \in Base .. End : to[y] \in Nat
        /\ \A y \in Base .. End : \A b : Start(m, b) /\ y <= b => to[y] <= b
    BY SlideTypes
  <2> QED  BY <1>2, <1>3, <2>1
<1>5. to[a + 1] = to[a] + g  BY <1>3 DEF Slides
<1>6. \A b \in Int : a < b /\ b < a + n => b \notin L
  <2> SUFFICES ASSUME NEW b \in Int, a < b, b < a + n, b \in L  PROVE FALSE
    OBVIOUS
  <2>1. b \in Blocks(m, free)  OBVIOUS
  <2>2. a + n <= b
    <3> HIDE DEF g
    <3> QED  BY <1>2, <2>1, BlocksApart
  <2> HIDE DEF n
  <2> QED  BY <1>2, <2>2
<1> HIDE DEF g
<1> DEFINE S == {i \in 0 .. n - 1 : to[a + 1 + i] = to[a] + g}
<1>7. n - 1 \in Nat  BY <1>2
<1>8. 0 \in S
  <2>1. a + 1 + 0 = a + 1  BY <1>2
  <2> QED  BY <1>5, <1>7, <2>1
<1>9. \A i \in 1 .. n - 1 : i - 1 \in S => i \in S
  <2> SUFFICES ASSUME NEW i \in 1 .. n - 1, i - 1 \in S  PROVE i \in S
    OBVIOUS
  <2> DEFINE b == a + 1 + (i - 1)
  <2>1. to[b] = to[a] + g  OBVIOUS
  <2> HIDE DEF n, S
  <2>2. b \in Base .. End - 1 /\ b + 1 = a + 1 + i /\ i \in 0 .. n - 1 /\ b \in Base .. End
        /\ b \in Int /\ a < b /\ b < a + n
    BY <1>1, <1>2
  <2> HIDE DEF b
  <2>3. b \notin L  BY <1>6, <2>2
  <2>4. to[b + 1] = to[b] + (IF b \in L THEN BlkSize(m[b][2]) ELSE 0)  BY <2>2 DEF Slides
  <2>5. to[b + 1] = to[b]  BY <1>4, <2>2, <2>3, <2>4
  <2> QED  BY <2>1, <2>2, <2>5 DEF S
<1>10. n - 1 \in S
  <2>1. \A i \in 0 .. n - 1 : i \in S
    <3> DEFINE k == n - 1
    <3> HIDE DEF n, S
    <3>1. k \in Nat /\ 0 \in S /\ \A i \in 1..k : i - 1 \in S => i \in S  BY <1>7, <1>8, <1>9
    <3> HIDE DEF k
    <3>2. \A i \in 0..k : i \in S  BY <3>1, Climb
    <3> QED  BY <3>2 DEF k
  <2> QED  BY <1>7, <2>1
<1>11. to[a + n] = to[a] + g
  <2>1. to[a + 1 + (n - 1)] = to[a] + g  BY <1>10
  <2>2. a + 1 + (n - 1) = a + n
    <3> HIDE DEF n
    <3> QED  BY <1>2
  <2> QED  BY <2>1, <2>2
<1> QED  BY <1>3, <1>4, <1>11 DEF g, n

\* Every word below the address where a word slides is one of a block that
\* has slid.
LEMMA SlideCover ==
    ASSUME NEW m, Shape(m, free), curblock \in Regions, NEW L \in SUBSET Blocks(m, free),
           NEW to, Slides(to, m, L), NEW y \in Base .. End, NEW w \in Int, Base <= w, w < to[y]
    PROVE  \E a \in L : /\ InRegion(curblock, a) /\ a < y
                        /\ to[a] <= w /\ w < to[a] + BlkSize(m[a][2])
<1>1. Base \in Nat /\ End \in Nat /\ Base <= End  BY Bounds
<1>2. \A x \in Base .. End : to[x] \in Nat  BY SlideTypes
<1> DEFINE N == y - Base
           In(a) == a \in L /\ InRegion(curblock, a) /\ to[a] <= w /\ w < to[a] + BlkSize(m[a][2])
           S == {i \in 0..N : w < to[Base + i] => \E a \in Base .. Base + i - 1 : In(a)}
<1>3. N \in Nat  BY <1>1
<1>4. 0 \in S
  <2>1. Base + 0 = Base /\ to[Base] = Base  BY <1>1 DEF Slides
  <2> QED  BY <1>1, <1>3, <2>1
<1>5. \A i \in 1..N : i - 1 \in S => i \in S
  <2> SUFFICES ASSUME NEW i \in 1..N, i - 1 \in S  PROVE i \in S
    OBVIOUS
  <2> DEFINE b == Base + (i - 1)
  <2>1. b \in Base .. End - 1 /\ b \in Base .. End /\ b + 1 = Base + i /\ i \in 0..N
        /\ b \in Base .. Base + i - 1 /\ b - 1 < Base + i
    BY <1>1
  <2>2. w < to[b] => \E a \in Base .. b - 1 : In(a)
    <3> DEFINE j == i - 1
    <3>1. j \in S  OBVIOUS
    <3> HIDE DEF In, j, b, N
    <3>2. w < to[Base + j] => \E a \in Base .. Base + j - 1 : In(a)  BY <3>1
    <3>3. Base + j = b /\ Base + j - 1 = b - 1  BY <1>1 DEF b, j
    <3> HIDE DEF S
    <3> QED  BY <3>2, <3>3
  <2>3. to[b + 1] = to[b] + (IF b \in L THEN BlkSize(m[b][2]) ELSE 0)  BY <2>1 DEF Slides
  <2>4. to[b] \in Nat  BY <1>2, <2>1
  <2>5. \A a \in Base .. b - 1 : a \in Base .. Base + i - 1  BY <1>1
  <2> HIDE DEF b, S, In
  <2>6. ASSUME w < to[b + 1]  PROVE \E a \in Base .. Base + i - 1 : In(a)
    <3>1. CASE w < to[b]  BY <2>2, <2>5, <3>1
    <3>2. CASE ~(w < to[b])
      <4>1. b \in L /\ to[b + 1] = to[b] + BlkSize(m[b][2])
        <5> HIDE DEF BlkSize
        <5>1. b \notin L => to[b + 1] = to[b]  BY <2>3, <2>4
        <5> QED  BY <2>3, <2>6, <3>2, <5>1
      <4>2. to[b] <= w /\ w < to[b] + BlkSize(m[b][2])  BY <2>4, <2>6, <3>2, <4>1
      <4>3. InRegion(curblock, b)  BY <1>1, <2>1 DEF InRegion, Base, End
      <4>4. In(b)  BY <4>1, <4>2, <4>3 DEF In
      <4> QED  BY <2>1, <4>4
    <3> QED  BY <3>1, <3>2
  <2> QED  BY <2>1, <2>6 DEF S
<1>6. N \in S
  <2>1. \A i \in 0..N : i \in S
    <3> HIDE DEF S, N
    <3> QED  BY <1>3, <1>4, <1>5, Climb
  <2> QED  BY <1>3, <2>1
<1>7. Base + N = y  BY <1>1
<1>8. PICK a \in Base .. y - 1 : In(a)
  <2>1. w < to[Base + N] => \E a \in Base .. Base + N - 1 : In(a)
    <3> HIDE DEF In, N
    <3> QED  BY <1>6
  <2>2. Base + N - 1 = y - 1  BY <1>1
  <2> HIDE DEF In, N
  <2> QED  BY <1>7, <2>1, <2>2
<1>9. a < y  BY <1>1
<1> QED  BY <1>8, <1>9

Indexed(f) == [a \in Base .. End |-> f[a - Base]]

\* The address to which a block is moved.
LEMMA MovedSlides ==
    ASSUME Shape(mem, free), curblock \in Regions, NEW L \in SUBSET Blocks(mem, free)
    PROVE  \E to : /\ Slides(to, mem, L)
                   /\ \A a \in Int : Moved(L, a) = IF InRegion(curblock, a) THEN to[a] ELSE a
<1> DEFINE N == InUse(curblock)
           base == RegionBase[curblock]
           g(a) == IF a \in L THEN BlkSize(mem[a][2]) ELSE 0
           Good == [j \in 0..N |-> Nat]
           G == [j \in 1..N |-> [x \in Nat |-> x + g(base + j - 1)]]
           slid[n \in 0..N] ==
               IF n = 0 THEN base
               ELSE slid[n - 1] + IF base + n - 1 \in L THEN BlkSize(mem[base + n - 1][2]) ELSE 0
<1>1. base \in Nat /\ base = Base /\ N \in Nat /\ End \in Nat /\ N = End - Base /\ Base <= End
  BY Bounds DEF Base, End, InUse
<1>2. \A a : g(a) \in Nat  BY BlockFacts
<1>3. \A a : Moved(L, a) = IF InRegion(curblock, a) THEN slid[a - base] ELSE a
  BY DEF Moved
<1> HIDE DEF N, base, g
<1>4. \A j \in 1..N : \A x \in Good[j - 1] : G[j][x] \in Good[j]
  <2> SUFFICES ASSUME NEW j \in 1..N, NEW x \in Good[j - 1]  PROVE G[j][x] \in Good[j]
    OBVIOUS
  <2>1. j \in 0..N /\ j - 1 \in 0..N  BY <1>1
  <2> QED  BY <1>2, <2>1
<1>5. base \in Good[0]  BY <1>1
<1>6. PICK f : Loop(f, N, base, G) /\ \A j \in 0..N : f[j] \in Good[j]
  <2> HIDE DEF Good, G, slid
  <2> QED  BY <1>1, <1>4, <1>5, LoopExists
<1>7. \A j \in 0..N : f[j] \in Nat  BY <1>6
<1>8. f = [n \in 0..N |->
             IF n = 0 THEN base
             ELSE f[n - 1] + IF base + n - 1 \in L THEN BlkSize(mem[base + n - 1][2]) ELSE 0]
  <2>1. \A j \in 0..N : f[j] = IF j = 0 THEN base ELSE f[j - 1] + g(base + j - 1)
    <3> SUFFICES ASSUME NEW j \in 0..N, j # 0  PROVE f[j] = f[j - 1] + g(base + j - 1)
      BY <1>6 DEF Loop
    <3>1. j \in 1..N /\ j - 1 \in 0..N  BY <1>1
    <3>2. f[j] = G[j][f[j - 1]]  BY <1>6 DEF Loop
    <3> QED  BY <1>7, <3>1, <3>2
  <2>2. f = [j \in 0..N |-> f[j]]  BY <1>6 DEF Loop
  <2> QED  BY <2>1, <2>2 DEF g
<1>9. slid = [n \in 0..N |->
             IF n = 0 THEN base
             ELSE slid[n - 1] + IF base + n - 1 \in L THEN BlkSize(mem[base + n - 1][2]) ELSE 0]
  BY <1>8 DEF slid
<1> HIDE DEF slid, Good, G
<1>10. slid[0] = base /\ \A n \in 1..N : slid[n] = slid[n - 1] + g(base + n - 1)
  <2>1. 0 \in 0..N /\ \A n \in 1..N : n \in 0..N /\ n # 0  BY <1>1
  <2> QED  BY <1>9, <2>1 DEF g
<1> DEFINE to == Indexed(slid)
<1>11. \A a \in Base .. End : to[a] = slid[a - Base]  BY DEF Indexed
<1> HIDE DEF to
<1>12. Slides(to, mem, L)
  <2>1. to[Base] = Base
    <3>1. Base \in Base .. End /\ Base - Base = 0  BY <1>1
    <3> QED  BY <1>1, <1>10, <1>11, <3>1
  <2>2. ASSUME NEW a \in Base .. End - 1
        PROVE  to[a + 1] = to[a] + g(a)
    <3> DEFINE n == a + 1 - Base
    <3>1. n \in 1..N /\ a + 1 \in Base .. End /\ a \in Base .. End
          /\ n - 1 = a - Base /\ base + n - 1 = a
      BY <1>1
    <3>2. slid[n] = slid[n - 1] + g(base + n - 1)  BY <1>10, <3>1
    <3>3. to[a + 1] = slid[n] /\ to[a] = slid[n - 1]
      <4>1. a + 1 - Base = (a + 1) - Base  BY <1>1
      <4> QED  BY <1>11, <3>1, <4>1
    <3> HIDE DEF n
    <3> QED  BY <3>1, <3>2, <3>3
  <2> QED  BY <2>1, <2>2 DEF Slides, g
<1>13. ASSUME NEW a \in Int
       PROVE  Moved(L, a) = IF InRegion(curblock, a) THEN to[a] ELSE a
  <2>1. InRegion(curblock, a) => a \in Base .. End  BY <1>1 DEF InRegion, Base, End
  <2> QED  BY <1>1, <1>3, <1>11, <2>1
<1> QED  BY <1>12, <1>13

-----------------------------------------------------------------------------
(* Adjusting *)

LEMMA WalkParts ==
    ASSUME NEW n, NEW x, NEW d
    PROVE  /\ WalkState(n, x, d).mem = n /\ WalkState(n, x, d).source = x
           /\ WalkState(n, x, d).dest = d
BY DEF WalkState

\* Of the blocks only the one at a starts before the end of the block at a and
\* not before its start.
LEMMA NextStart ==
    ASSUME NEW m, Shape(m, free), NEW a \in Blocks(m, free), NEW b \in Blocks(m, free), b # a
    PROVE  (b < a <=> b < a + BlkSize(m[a][2])) /\ (b >= a <=> b >= a + BlkSize(m[a][2]))
<1>1. a \in Nat /\ b \in Nat /\ BlkSize(m[a][2]) \in Nat  BY BlockFacts
<1>2. a < b => a + BlkSize(m[a][2]) <= b  BY BlocksApart
<1> HIDE DEF BlkSize
<1> QED  BY <1>1, <1>2

\* A location that refers to a is threaded into the chain of a.
LEMMA InChain ==
    ASSUME NEW m, Shape(m, free), NEW V \in SUBSET Locations, NEW a \in Blocks(m, free),
           InRegion(curblock, a)
    PROVE  /\ \A l \in Refs(m, V, a) : Threaded(m, l) /\ m[l][2] = a /\ l \in V
           /\ \A l \in V : Threaded(m, l) /\ m[l][2] = a => l \in Refs(m, V, a)
           /\ a \notin Refs(m, V, a)
<1>1. \A l \in Refs(m, V, a) : m[l] = Ref(a) /\ l \in V  BY DEF Refs
<1>2. Is(Ref(a), "ref") /\ Ref(a)[2] = a  BY KindsOfWords
<1>3. \A l \in Refs(m, V, a) : Threaded(m, l) /\ m[l][2] = a  BY <1>1, <1>2 DEF Threaded
<1>4. ASSUME NEW l \in V, Threaded(m, l), m[l][2] = a  PROVE l \in Refs(m, V, a)
  <2>1. m[l] \in Word  BY DEF Shape
  <2>2. m[l] = Ref(a)  BY <1>4, <2>1, WordKinds DEF Threaded
  <2> QED  BY <2>2 DEF Refs
<1>5. a \notin Refs(m, V, a)
  <2>1. Is(m[a], "title")  BY DEF Blocks
  <2>2. m[a] # Ref(a)  BY <1>2, <2>1, OneKind
  <2> QED  BY <2>2 DEF Refs
<1> QED  BY <1>1, <1>3, <1>4, <1>5

\* A block that nothing refers to is passed.
LEMMA AdjustFree ==
    ASSUME NEW m, Shape(m, free), curblock \in Regions, NEW V \in SUBSET Locations,
           NEW pos, NEW i, Numbered(pos, V, i),
           Targets(m, V) \subseteq Blocks(m, free), NEW to, NEW x, Start(m, x), x # End,
           NEW n, Thread(n, m, V, pos, x, to), x \notin Targets(m, V), NEW d \in Locations
    PROVE  /\ AdjustBlock(WalkState(n, x, d)) = WalkState(n, x + BlkSize(m[x][2]), d)
           /\ Thread(n, m, V, pos, x + BlkSize(m[x][2]), to)
<1> DEFINE y == x + BlkSize(m[x][2])
           s == WalkState(n, x, d)
<1>1. x \in Blocks(m, free) /\ x \in Nat /\ x < End /\ End \in Nat /\ InRegion(curblock, x)
      /\ BlkSize(m[x][2]) \in Nat /\ BlkSize(m[x][2]) > 0
  BY StartFacts, Bounds DEF Start
<1>2. Refs(m, V, x) = {}  BY RefsIn DEF Shape
<1>3. n[x] = m[x] /\ n \in [Locations -> Word]  BY <1>1, <1>2 DEF Thread
<1>4. Is(m[x], "title") /\ ~ Is(m[x], "ref") /\ m[x] \in Word
  <2>1. Is(m[x], "title") /\ x \in Locations  BY <1>1, BlockFacts DEF Blocks
  <2> QED  BY <2>1, OneKind DEF Shape
<1>5. Unchain(n, m[x], d) = LinkState(n, m[x])
  <2>1. Top({}, pos, m[x]) = m[x]  BY DEF Top
  <2>2. Unchain(n, Top({}, pos, m[x]), d) = LinkState(Unhooked(n, {}, d), m[x])
    <3>1. {} \subseteq V /\ \A l \in {} : n[l] = Top(Below({}, pos, l), pos, m[x])  OBVIOUS
    <3> HIDE DEF y, s
    <3> QED  BY <1>3, <1>4, <3>1, UnchainEnd
  <2>3. Unhooked(n, {}, d) = n  BY <1>3 DEF Unhooked
  <2> QED  BY <2>1, <2>2, <2>3
<1>6. AdjustBlock(s) = WalkState(n, y, d)
  <2>1. s.mem = n /\ s.source = x /\ s.dest = d  BY WalkParts
  <2>2. ~(x >= free[curblock])  BY <1>1 DEF End
  <2>3. LinkState(n, m[x]).word = m[x]  BY DEF LinkState
  <2> HIDE DEF s
  <2> QED  BY <1>3, <1>4, <1>5, <2>1, <2>2, <2>3 DEF AdjustBlock
<1>7. Thread(n, m, V, pos, y, to)
  <2>1. ASSUME NEW l \in V, Threaded(m, l)  PROVE m[l][2] < x <=> m[l][2] < y
    <3>1. m[l][2] \in Targets(m, V)  BY <2>1 DEF Threaded, Targets
    <3> QED  BY <1>1, <3>1, NextStart
  <2>2. ASSUME NEW b \in Blocks(m, free), Refs(m, V, b) # {}  PROVE b >= x <=> b >= y
    <3>1. b # x  BY <1>2, <2>2
    <3> QED  BY <1>1, <3>1, NextStart
  <2> HIDE DEF y
  <2> QED  BY <2>1, <2>2 DEF Thread
<1> QED  BY <1>6, <1>7

\* The chain of a live block is undone.
LEMMA AdjustLive ==
    ASSUME NEW m, Shape(m, free), curblock \in Regions, NEW V \in SUBSET Locations,
           NEW pos, NEW i, Numbered(pos, V, i),
           Targets(m, V) \subseteq Blocks(m, free), NEW to, NEW x, Start(m, x), x # End,
           NEW n, Thread(n, m, V, pos, x, to), x \in Targets(m, V), to[x] \in Locations
    PROVE  \E k : /\ AdjustBlock(WalkState(n, x, to[x]))
                       = WalkState(k, x + BlkSize(m[x][2]), to[x] + BlkSize(m[x][2]))
                  /\ Thread(k, m, V, pos, x + BlkSize(m[x][2]), to)
<1> DEFINE y == x + BlkSize(m[x][2])
           d == to[x]
           s == WalkState(n, x, d)
           Q == Refs(m, V, x)
           h == Unhooked(n, Q, d)
           k == MarkedAt(h, x, m[x][2])
<1>1. x \in Blocks(m, free) /\ x \in Nat /\ x < End /\ End \in Nat /\ InRegion(curblock, x)
      /\ BlkSize(m[x][2]) \in Nat /\ BlkSize(m[x][2]) > 0 /\ x \in Locations
      /\ m[x][2] \in Types /\ Is(m[x], "title")
  BY StartFacts, Bounds, BlockFacts DEF Start, Blocks
<1>2. Q # {} /\ Q \subseteq V  BY RefsIn DEF Shape
<1>3. /\ \A l \in Q : Threaded(m, l) /\ m[l][2] = x /\ l \in V
      /\ \A l \in V : Threaded(m, l) /\ m[l][2] = x => l \in Q
      /\ x \notin Q
  BY <1>1, InChain
<1>4. n[x] = Top(Q, pos, m[x]) /\ n \in [Locations -> Word]
  <2>1. x >= x  BY <1>1
  <2> QED  BY <1>1, <1>2, <2>1 DEF Thread
<1>5. m[x] \in Word /\ ~ Is(m[x], "ref")  BY <1>1, OneKind DEF Shape
<1>6. \A l \in Q : n[l] = Top(Below(Q, pos, l), pos, m[x])
  <2> SUFFICES ASSUME NEW l \in Q  PROVE n[l] = Top(Below(Q, pos, l), pos, m[x])
    OBVIOUS
  <2>1. Threaded(m, l) /\ m[l][2] = x /\ l \in V /\ ~(x < x)  BY <1>1, <1>3
  <2> QED  BY <2>1 DEF Thread
<1>7. Unchain(n, n[x], d) = LinkState(h, m[x])
  <2>1. d \in Locations  OBVIOUS
  <2> HIDE DEF y, d, s, Q, k
  <2> QED  BY <1>2, <1>4, <1>5, <1>6, <2>1, UnchainEnd
<1>8. Is(n[x], "ref")  BY <1>2, <1>4, <1>5, TopWord
<1>9. h \in [Locations -> Word] /\ (\A l \in Q : h[l] = Ref(d))
      /\ \A l \in Locations : l \notin Q => h[l] = n[l]
  <2>1. Ref(d) \in Word  BY KindsOfWords
  <2>2. Q \subseteq Locations  BY <1>2
  <2> HIDE DEF d, Q
  <2> QED  BY <1>4, <2>1, <2>2 DEF Unhooked
<1>10. AdjustBlock(s) = WalkState(k, y, d + BlkSize(m[x][2]))
  <2>1. s.mem = n /\ s.source = x /\ s.dest = d  BY WalkParts
  <2>2. ~(x >= free[curblock])  BY <1>1 DEF End
  <2>3. LinkState(h, m[x]).word = m[x] /\ LinkState(h, m[x]).mem = h  BY DEF LinkState
  <2> HIDE DEF s, h, d
  <2> QED  BY <1>7, <1>8, <2>1, <2>2, <2>3 DEF AdjustBlock, MarkedAt
<1>11. k \in [Locations -> Word] /\ k[x] = Marked(m[x][2])
       /\ \A l \in Locations : l # x => k[l] = h[l]
  <2> HIDE DEF h
  <2> QED  BY <1>1, <1>9, KindsOfWords DEF MarkedAt
<1>12. \A l \in V : Threaded(m, l) => l # x
  <2>1. \A l \in V : Threaded(m, l) => Is(m[l], "ref")  BY DEF Threaded
  <2> QED  BY <1>5, <2>1
<1> HIDE DEF h, k, Q
<1>13. Thread(k, m, V, pos, y, to)
  <2>1. ASSUME NEW l \in V, Threaded(m, l)
        PROVE  k[l] = IF m[l][2] < y THEN Ref(to[m[l][2]])
                      ELSE Top(Below(Refs(m, V, m[l][2]), pos, l), pos, m[m[l][2]])
    <3>1. l # x /\ l \in Locations /\ k[l] = h[l]  BY <1>11, <1>12, <2>1
    <3>2. CASE m[l][2] = x
      <4>1. l \in Q /\ k[l] = Ref(d)  BY <1>3, <1>9, <2>1, <3>1, <3>2
      <4>2. m[l][2] < y  BY <1>1, <3>2
      <4> QED  BY <3>2, <4>1, <4>2
    <3>3. CASE m[l][2] # x
      <4>1. l \notin Q /\ k[l] = n[l]  BY <1>3, <1>9, <3>1, <3>3
      <4>2. m[l][2] \in Blocks(m, free)  BY <2>1 DEF Threaded, Targets
      <4>3. m[l][2] < x <=> m[l][2] < y  BY <1>1, <3>3, <4>2, NextStart
      <4> HIDE DEF y
      <4> QED  BY <2>1, <4>1, <4>3 DEF Thread
    <3> QED  BY <3>2, <3>3
  <2>2. ASSUME NEW b \in Blocks(m, free)
        PROVE  k[b] = IF Refs(m, V, b) = {} THEN m[b]
                      ELSE IF InRegion(curblock, b) /\ b >= y THEN Top(Refs(m, V, b), pos, m[b])
                      ELSE Marked(m[b][2])
    <3>1. CASE b = x
      <4>1. ~(x >= y)  BY <1>1
      <4> QED  BY <1>2, <1>11, <3>1, <4>1 DEF Q
    <3>2. CASE b # x
      <4>1. b >= x <=> b >= y  BY <1>1, <3>2, NextStart
      <4>2. b \in Locations /\ Is(m[b], "title")  BY BlockFacts DEF Blocks
      <4>3. b \notin Q
        <5>1. b \in Q => Is(m[b], "ref")  BY <1>3 DEF Threaded
        <5> QED  BY <4>2, <5>1, OneKind
      <4>4. k[b] = n[b]  BY <1>9, <1>11, <3>2, <4>2, <4>3
      <4> HIDE DEF y
      <4> QED  BY <4>1, <4>4 DEF Thread
    <3> QED  BY <3>1, <3>2
  <2>3. ASSUME NEW l \in Locations, l \notin Blocks(m, free), ~(l \in V /\ Threaded(m, l))
        PROVE  k[l] = m[l]
    <3>1. l # x /\ l \notin Q  BY <1>1, <1>3, <2>3
    <3>2. k[l] = n[l]  BY <1>9, <1>11, <3>1
    <3> QED  BY <2>3, <3>2 DEF Thread
  <2> HIDE DEF y
  <2> QED  BY <1>11, <2>1, <2>2, <2>3 DEF Thread
<1> HIDE DEF s, y, d
<1> QED  BY <1>10, <1>13 DEF s, y, d

WalkStates == [mem : [Locations -> Word], source : Nat, dest : Nat]

\* The states of adjust() after j blocks.
AdjustedIn(m, V, pos, to, j) ==
    {s \in WalkStates : \E n, x :
        /\ s = WalkState(n, x, to[x]) /\ Start(m, x) /\ Thread(n, m, V, pos, x, to)
        /\ x = End \/ x >= Base + j}

\* A block that slides stays in the region.
LEMMA SlideWithin ==
    ASSUME NEW m, Shape(m, free), curblock \in Regions, NEW L \in SUBSET Blocks(m, free),
           NEW to, Slides(to, m, L), NEW x, Start(m, x)
    PROVE  /\ to[x] \in Nat /\ Base <= to[x] /\ to[x] <= x /\ x \in Base .. End
           /\ x # End => InRegion(curblock, to[x]) /\ to[x] \in Locations /\ to[x] \in Used(free)
<1>1. x \in Nat /\ Base <= x /\ x <= End /\ Base \in Nat /\ End \in Nat
  BY StartFacts, Bounds
<1>2. x \in Base .. End  BY <1>1
<1>3. to[x] \in Nat /\ Base <= to[x] /\ to[x] <= x
  <2>1. x <= x  BY <1>1
  <2> QED  BY <1>2, <2>1, SlideTypes
<1>4. ASSUME x # End
      PROVE  InRegion(curblock, to[x]) /\ to[x] \in Locations /\ to[x] \in Used(free)
  <2>1. Within(curblock, free, to[x]) /\ to[x] \in Int  BY <1>1, <1>3, <1>4 DEF Within, Base, End
  <2>2. Fits(free)  BY DEF Shape
  <2>3. to[x] \in Words /\ to[x] \in Used(free)  BY <2>1, <2>2, WithinWords
  <2> QED  BY <2>1, <2>3 DEF Within, InRegion, Locations
<1> QED  BY <1>2, <1>3, <1>4

LEMMA AdjustedOn ==
    ASSUME NEW m, Shape(m, free), curblock \in Regions, NEW V \in SUBSET Locations,
           NEW pos, NEW i, Numbered(pos, V, i),
           Targets(m, V) \subseteq Blocks(m, free), NEW to, Slides(to, m, Targets(m, V)),
           NEW j \in Nat, NEW s \in AdjustedIn(m, V, pos, to, j)
    PROVE  AdjustBlock(s) \in AdjustedIn(m, V, pos, to, j + 1)
<1>1. PICK n, x : /\ s = WalkState(n, x, to[x]) /\ Start(m, x) /\ Thread(n, m, V, pos, x, to)
                  /\ x = End \/ x >= Base + j
  BY DEF AdjustedIn
<1>2. Base \in Nat /\ End \in Nat /\ x \in Nat  BY <1>1, StartFacts, Bounds
<1>3. CASE x = End
  <2>1. s.source >= free[curblock]  BY <1>1, <1>2, <1>3, WalkParts DEF End
  <2>2. AdjustBlock(s) = s  BY <2>1 DEF AdjustBlock
  <2> QED  BY <1>1, <1>3, <2>2 DEF AdjustedIn
<1>4. CASE x # End
  <2> DEFINE y == x + BlkSize(m[x][2])
             L == Targets(m, V)
  <2>1. Start(m, y) /\ y \in Nat /\ y >= Base + (j + 1)
    <3>1. Start(m, y) /\ BlkSize(m[x][2]) \in Nat /\ BlkSize(m[x][2]) > 0
      BY <1>1, <1>4, StartFacts
    <3>2. x >= Base + j  BY <1>1, <1>4
    <3> HIDE DEF BlkSize
    <3> QED  BY <1>2, <3>1, <3>2
  <2>2. to[y] = to[x] + (IF x \in L THEN BlkSize(m[x][2]) ELSE 0)
    <3> HIDE DEF L
    <3> QED  BY <1>1, <1>4, SlidePast DEF L
  <2>3. to[x] \in Nat /\ to[x] \in Locations /\ to[y] \in Nat
    BY <1>1, <1>4, <2>1, SlideWithin
  <2>4. \E k : AdjustBlock(s) = WalkState(k, y, to[y]) /\ Thread(k, m, V, pos, y, to)
    <3>1. CASE x \in L
      <4>1. to[y] = to[x] + BlkSize(m[x][2])  BY <2>2, <3>1
      <4>2. PICK k : /\ AdjustBlock(WalkState(n, x, to[x]))
                          = WalkState(k, x + BlkSize(m[x][2]), to[x] + BlkSize(m[x][2]))
                     /\ Thread(k, m, V, pos, x + BlkSize(m[x][2]), to)
        BY <1>1, <1>4, <2>3, <3>1, AdjustLive
      <4>3. AdjustBlock(s) = WalkState(k, y, to[y]) /\ Thread(k, m, V, pos, y, to)
        BY <1>1, <4>1, <4>2
      <4> HIDE DEF y
      <4> QED  BY <4>3
    <3>2. CASE x \notin L
      <4>1. to[y] = to[x]
        <5> HIDE DEF y
        <5> QED  BY <2>2, <2>3, <3>2
      <4>2. /\ AdjustBlock(WalkState(n, x, to[x])) = WalkState(n, x + BlkSize(m[x][2]), to[x])
            /\ Thread(n, m, V, pos, x + BlkSize(m[x][2]), to)
        BY <1>1, <1>4, <2>3, <3>2, AdjustFree
      <4>3. AdjustBlock(s) = WalkState(n, y, to[y]) /\ Thread(n, m, V, pos, y, to)
        BY <1>1, <4>1, <4>2
      <4> HIDE DEF y
      <4> QED  BY <4>3
    <3> QED  BY <3>1, <3>2
  <2> HIDE DEF y, L
  <2>5. PICK k : AdjustBlock(s) = WalkState(k, y, to[y]) /\ Thread(k, m, V, pos, y, to)  BY <2>4
  <2>6. WalkState(k, y, to[y]) \in WalkStates
    <3>1. k \in [Locations -> Word]  BY <2>5 DEF Thread
    <3> QED  BY <2>1, <2>3, <3>1 DEF WalkStates, WalkState
  <2>7. \E n2, x2 :
          /\ WalkState(k, y, to[y]) = WalkState(n2, x2, to[x2]) /\ Start(m, x2)
          /\ Thread(n2, m, V, pos, x2, to) /\ (x2 = End \/ x2 >= Base + (j + 1))
    BY <2>1, <2>5
  <2> QED  BY <2>5, <2>6, <2>7 DEF AdjustedIn
<1> QED  BY <1>3, <1>4

\* adjust() undoes all chains of the current region.
LEMMA AdjustEnd ==
    ASSUME NEW m, Shape(m, free), curblock \in Regions, NEW V \in SUBSET Locations,
           NEW pos, NEW i, Numbered(pos, V, i),
           Targets(m, V) \subseteq Blocks(m, free), NEW to, Slides(to, m, Targets(m, V)),
           NEW n, Thread(n, m, V, pos, Base, to), Start(m, Base)
    PROVE  Thread(adjust(n), m, V, pos, End, to)
<1> DEFINE N == InUse(curblock)
           start == WalkState(n, Base, Base)
           In(j) == AdjustedIn(m, V, pos, to, j)
           Good == [j \in 0..N |-> In(j)]
           G == [j \in 1..N |-> [u \in In(j - 1) |-> AdjustBlock(u)]]
           walk[k \in 0..N] == IF k = 0 THEN start ELSE AdjustBlock(walk[k - 1])
<1>1. Base \in Nat /\ N \in Nat /\ End \in Nat /\ N = End - Base
  BY Bounds DEF Base, End, InUse
<1>2. adjust(n) = walk[N].mem  BY DEF adjust, Base
<1> HIDE DEF N
<1>3. start \in In(0)
  <2>1. to[Base] = Base  BY DEF Slides
  <2>2. start \in WalkStates
    <3>1. n \in [Locations -> Word]  BY DEF Thread
    <3> QED  BY <1>1, <3>1 DEF WalkStates, WalkState
  <2>3. Base >= Base + 0  BY <1>1
  <2>4. \E k, x :
          /\ start = WalkState(k, x, to[x]) /\ Start(m, x) /\ Thread(k, m, V, pos, x, to)
          /\ x = End \/ x >= Base + 0
    BY <2>1, <2>3
  <2> HIDE DEF start
  <2> QED  BY <2>2, <2>4 DEF AdjustedIn
<1> HIDE DEF start
<1>4. \A j \in Nat : \A u \in In(j) : AdjustBlock(u) \in In(j + 1)
  <2> HIDE DEF Good, G, walk
  <2> SUFFICES ASSUME NEW j \in Nat, NEW u \in In(j)  PROVE AdjustBlock(u) \in In(j + 1)
    OBVIOUS
  <2> QED  BY AdjustedOn
<1> HIDE DEF In
<1>5. \A j \in 1..N : \A u \in Good[j - 1] : G[j][u] \in Good[j]
  <2> SUFFICES ASSUME NEW j \in 1..N, NEW u \in Good[j - 1]  PROVE G[j][u] \in Good[j]
    OBVIOUS
  <2>1. j \in 0..N /\ j - 1 \in 0..N /\ j - 1 \in Nat /\ (j - 1) + 1 = j  BY <1>1
  <2>2. u \in In(j - 1)  BY <2>1
  <2>3. AdjustBlock(u) \in In(j)  BY <1>4, <2>1, <2>2
  <2> QED  BY <2>1, <2>2, <2>3
<1>6. start \in Good[0]  BY <1>1, <1>3
<1>7. PICK f : Loop(f, N, start, G) /\ \A j \in 0..N : f[j] \in Good[j]
  <2> HIDE DEF Good, G, walk
  <2> QED  BY <1>1, <1>5, <1>6, LoopExists
<1>8. \A j \in 0..N : f[j] \in In(j)  BY <1>7
<1>9. f = [k \in 0..N |-> IF k = 0 THEN start ELSE AdjustBlock(f[k - 1])]
  <2>1. \A j \in 0..N : f[j] = IF j = 0 THEN start ELSE AdjustBlock(f[j - 1])
    <3> SUFFICES ASSUME NEW j \in 0..N, j # 0  PROVE f[j] = AdjustBlock(f[j - 1])
      BY <1>7 DEF Loop
    <3>1. j \in 1..N /\ j - 1 \in 0..N  BY <1>1
    <3>2. f[j] = G[j][f[j - 1]]  BY <1>7 DEF Loop
    <3> QED  BY <1>8, <3>1, <3>2
  <2>2. f = [j \in 0..N |-> f[j]]  BY <1>7 DEF Loop
  <2> QED  BY <2>1, <2>2
<1>10. walk = [k \in 0..N |-> IF k = 0 THEN start ELSE AdjustBlock(walk[k - 1])]
  BY <1>9 DEF walk
<1> HIDE DEF walk, Good, G
<1>11. walk[N] \in In(N)
  <2> DEFINE S == {j \in 0..N : walk[j] \in In(j)}
  <2>1. 0 \in S  BY <1>1, <1>3, <1>10
  <2>2. \A j \in 1..N : j - 1 \in S => j \in S
    <3> SUFFICES ASSUME NEW j \in 1..N, j - 1 \in S  PROVE j \in S
      OBVIOUS
    <3>1. walk[j - 1] \in In(j - 1) /\ j \in 0..N /\ j # 0 /\ j - 1 \in Nat /\ (j - 1) + 1 = j
      BY <1>1
    <3>2. walk[j] = AdjustBlock(walk[j - 1])  BY <1>10, <3>1
    <3>3. AdjustBlock(walk[j - 1]) \in In(j)  BY <1>4, <3>1
    <3> QED  BY <3>1, <3>2, <3>3
  <2>3. \A j \in 0..N : j \in S
    <3> HIDE DEF S
    <3> QED  BY <1>1, <2>1, <2>2, Climb
  <2> QED  BY <1>1, <2>3
<1>12. PICK k, x : /\ walk[N] = WalkState(k, x, to[x]) /\ Start(m, x)
                   /\ Thread(k, m, V, pos, x, to)
                   /\ x = End \/ x >= Base + N
  BY <1>11 DEF In, AdjustedIn
<1>13. x = End
  <2>1. x \in Nat /\ x <= End  BY <1>12, StartFacts
  <2> QED  BY <1>1, <1>12, <2>1
<1> QED  BY <1>2, <1>12, <1>13, WalkParts

-----------------------------------------------------------------------------
(* Compacting *)

\* n is the memory A, of which the blocks at L before x have been moved, with
\* the titles they have in m.
Compacted(n, A, m, L, to, x) ==
    /\ n \in [Locations -> Word]
    /\ \A a \in L : InRegion(curblock, a) /\ a < x =>
         /\ n[to[a]] = m[a]
         /\ \A j \in 1 .. BlkSize(m[a][2]) - 1 : n[to[a] + j] = A[a + j]
    /\ \A l \in Locations : l \notin Base .. x - 1 => n[l] = A[l]

\* A is the memory after adjust().
Adjusted(A, m, L) ==
    /\ A \in [Locations -> Word]
    /\ \A a \in Blocks(m, free) : InRegion(curblock, a) =>
         A[a] = IF a \in L THEN Marked(m[a][2]) ELSE m[a]

\* Blocks that have slid keep apart.
LEMMA SlidApart ==
    ASSUME NEW m, Shape(m, free), curblock \in Regions, NEW L \in SUBSET Blocks(m, free),
           NEW to, Slides(to, m, L), NEW a, Start(m, a), a \in L, NEW b, Start(m, b), a < b
    PROVE  to[a] + BlkSize(m[a][2]) <= to[b]
<1> DEFINE n == BlkSize(m[a][2])
<1>1. a \in Nat /\ b \in Nat /\ b <= End /\ Base <= a /\ Base <= b /\ End \in Nat
  BY StartFacts, Bounds
<1>2. a # End  BY <1>1
<1>3. a + n <= b  BY StartsApart
<1>4. a + n \in Base .. End /\ to[a + n] = to[a] + (IF a \in L THEN n ELSE 0)
  BY <1>2, SlidePast
<1> HIDE DEF n
<1>5. b \in Base .. End  BY <1>1, <1>2, StartFacts, Bounds
<1>6. to[a + n] <= to[b]  BY <1>3, <1>4, <1>5, SlideOrder
<1>7. to[a + n] = to[a] + n  BY <1>4
<1> QED  BY <1>6, <1>7 DEF n

\* The words of a block that has slid.
LEMMA SlidWords ==
    ASSUME NEW m, Shape(m, free), curblock \in Regions, NEW L \in SUBSET Blocks(m, free),
           NEW to, Slides(to, m, L), NEW x, Start(m, x), x # End, x \in L,
           NEW j \in 0 .. BlkSize(m[x][2]) - 1
    PROVE  /\ to[x] + j \in Locations /\ to[x] + j \in Nat /\ InRegion(curblock, to[x] + j)
           /\ to[x] + j \in Used(free)
           /\ to[x] + j < to[End] /\ Base <= to[x] + j /\ to[End] <= End
           /\ x + j \in Locations /\ x + j \in BlockAt(m, x)
<1> DEFINE n == BlkSize(m[x][2])
<1>1. /\ x \in Nat /\ Base <= x /\ x < End /\ n \in Nat /\ n > 0 /\ x + n <= End
      /\ x \in Blocks(m, free) /\ Start(m, x + n) /\ Base \in Nat /\ End \in Nat
  BY StartFacts, Bounds
<1>2. to[x] \in Nat /\ Base <= to[x] /\ to[x] <= x  BY SlideWithin
<1>3. x \in Base .. End /\ x < End
  <2> HIDE DEF n
  <2> QED  BY <1>1
<1>4. End \in Base .. End /\ Start(m, End)  BY <1>1 DEF Start
<1>5. to[x] + n <= to[End]
  <2>1. Start(m, End) /\ x < End  BY <1>3, <1>4
  <2> QED  BY <2>1, SlidApart
<1>6. to[End] <= End /\ to[End] \in Nat  BY <1>4, SlideWithin
<1> HIDE DEF n
<1>7. j \in 0 .. n - 1  BY DEF n
<1>8. to[x] + j \in Nat /\ Base <= to[x] + j /\ to[x] + j < to[End] /\ to[x] + j < End
  BY <1>1, <1>2, <1>5, <1>6, <1>7
<1>9. Within(curblock, free, to[x] + j) /\ InRegion(curblock, to[x] + j) /\ to[x] + j \in Int
  BY <1>8 DEF Within, InRegion, Base, End
<1>10. to[x] + j \in Words /\ to[x] + j \in Used(free)
  <2>1. Fits(free)  BY DEF Shape
  <2> DEFINE w == to[x] + j
  <2>2. w \in Int /\ Within(curblock, free, w)  BY <1>9
  <2> HIDE DEF w
  <2>3. w \in Words /\ w \in Used(free)  BY <2>1, <2>2, WithinWords
  <2> QED  BY <2>3 DEF w
<1>11. x + j \in BlockAt(m, x)
  <2>1. x + j \in x .. x + n - 1  BY <1>1, <1>7
  <2> QED  BY <2>1 DEF BlockAt, n
<1>12. x + j \in Locations
  <2> DEFINE w == x + j
  <2>1. w \in BlockAt(m, x)  BY <1>11
  <2> HIDE DEF w
  <2>2. w \in Locations  BY <1>1, <2>1, InBlock
  <2> QED  BY <2>2 DEF w
<1> QED  BY <1>6, <1>8, <1>9, <1>10, <1>11, <1>12 DEF Locations

LEMMA CompactFree ==
    ASSUME NEW m, Shape(m, free), curblock \in Regions, NEW L \in SUBSET Blocks(m, free),
           NEW A, Adjusted(A, m, L), NEW to, NEW x, Start(m, x), x # End,
           NEW n, Compacted(n, A, m, L, to, x), x \notin L, NEW d
    PROVE  /\ CompactBlock(WalkState(n, x, d)) = WalkState(n, x + BlkSize(m[x][2]), d)
           /\ Compacted(n, A, m, L, to, x + BlkSize(m[x][2]))
<1> DEFINE y == x + BlkSize(m[x][2])
           s == WalkState(n, x, d)
<1>1. x \in Blocks(m, free) /\ x \in Nat /\ x < End /\ End \in Nat /\ InRegion(curblock, x)
      /\ BlkSize(m[x][2]) \in Nat /\ x \in Locations /\ Base \in Nat
  BY StartFacts, Bounds, BlockFacts DEF Start
<1>2. x \notin Base .. x - 1  BY <1>1
<1>3. n[x] = m[x]  BY <1>1, <1>2 DEF Compacted, Adjusted
<1>4. ~ Is(m[x], "marked")
  <2>1. Is(m[x], "title")  BY <1>1 DEF Blocks
  <2> QED  BY <2>1, OneKind
<1>5. CompactBlock(s) = WalkState(n, y, d)
  <2>1. s.mem = n /\ s.source = x /\ s.dest = d  BY WalkParts
  <2>2. ~(x >= free[curblock])  BY <1>1 DEF End
  <2> HIDE DEF s
  <2> QED  BY <1>3, <1>4, <2>1, <2>2 DEF CompactBlock
<1>6. Compacted(n, A, m, L, to, y)
  <2>1. \A a \in L : a < x <=> a < y  BY <1>1, NextStart
  <2>2. \A l : l \notin Base .. y - 1 => l \notin Base .. x - 1  BY <1>1
  <2> HIDE DEF y
  <2> QED  BY <2>1, <2>2 DEF Compacted
<1> QED  BY <1>5, <1>6

LEMMA CompactLive ==
    ASSUME NEW m, Shape(m, free), curblock \in Regions, NEW L \in SUBSET Blocks(m, free),
           NEW A, Adjusted(A, m, L), NEW to, Slides(to, m, L), NEW x, Start(m, x), x # End,
           NEW n, Compacted(n, A, m, L, to, x), x \in L
    PROVE  \E k : /\ CompactBlock(WalkState(n, x, to[x]))
                       = WalkState(k, x + BlkSize(m[x][2]), to[x] + BlkSize(m[x][2]))
                  /\ Compacted(k, A, m, L, to, x + BlkSize(m[x][2]))
<1> DEFINE t == m[x][2]
           c == BlkSize(t)
           y == x + c
           d == to[x]
           s == WalkState(n, x, d)
           h == [n EXCEPT ![x] = Title(t)]
           k == mvc(h, c, x, d)
<1>1. /\ x \in Blocks(m, free) /\ x \in Nat /\ x < End /\ End \in Nat /\ InRegion(curblock, x)
      /\ c \in Nat /\ c > 0 /\ x \in Locations /\ Base \in Nat /\ Base <= x
      /\ t \in Types /\ m[x] = Title(t) /\ y <= End
  BY StartFacts, Bounds, BlockFacts DEF Start
<1>2. d \in Nat /\ Base <= d /\ d <= x  BY SlideWithin
<1>3. n[x] = Marked(t) /\ n \in [Locations -> Word]
  <2>1. x \notin Base .. x - 1  BY <1>1
  <2> QED  BY <1>1, <2>1 DEF Compacted, Adjusted
<1>4. CompactBlock(s) = WalkState(k, y, d + c)
  <2>1. s.mem = n /\ s.source = x /\ s.dest = d  BY WalkParts
  <2>2. ~(x >= free[curblock])  BY <1>1 DEF End
  <2>3. Is(n[x], "marked") /\ n[x][2] = t  BY <1>3, KindsOfWords
  <2> HIDE DEF s, d, t
  <2> QED  BY <2>1, <2>2, <2>3 DEF CompactBlock
<1> HIDE DEF y, d, t
<1>5. h \in [Locations -> Word] /\ h[x] = Title(t) /\ \A l \in Locations : l # x => h[l] = n[l]
  BY <1>1, <1>3, KindsOfWords
<1> HIDE DEF h
<1>6. /\ DOMAIN k = Locations
      /\ \A l \in Locations : k[l] = IF l \in d .. d + c - 1 THEN h[l - d + x] ELSE h[l]
  BY <1>5 DEF mvc
<1> HIDE DEF k
<1>7. \A j \in 0 .. c - 1 : d + j \in Locations /\ x + j \in Locations
  <2> SUFFICES ASSUME NEW j \in 0 .. BlkSize(m[x][2]) - 1
               PROVE  to[x] + j \in Locations /\ x + j \in Locations
    BY DEF d, t
  <2> QED  BY SlidWords
<1> HIDE DEF c
<1>8. \A j \in 0 .. c - 1 : k[d + j] = h[x + j]
  <2> SUFFICES ASSUME NEW j \in 0 .. c - 1  PROVE k[d + j] = h[x + j]
    OBVIOUS
  <2>1. d + j \in Locations /\ d + j \in d .. d + c - 1  BY <1>1, <1>2, <1>7
  <2>2. d + j - d + x = x + j  BY <1>1, <1>2
  <2>3. (d + j) - d + x = x + j  BY <1>1, <1>2
  <2> QED  BY <1>6, <2>1, <2>3
<1>9. k \in [Locations -> Word]
  <2>1. \A l \in Locations : k[l] \in Word
    <3> SUFFICES ASSUME NEW l \in Locations  PROVE k[l] \in Word
      OBVIOUS
    <3>1. CASE l \in d .. d + c - 1
      <4>1. l - d \in 0 .. c - 1 /\ d + (l - d) = l  BY <1>1, <1>2, <3>1
      <4>2. x + (l - d) \in Locations  BY <1>7, <4>1
      <4>3. k[d + (l - d)] = h[x + (l - d)]  BY <1>8, <4>1
      <4> QED  BY <1>5, <4>1, <4>2, <4>3
    <3>2. CASE l \notin d .. d + c - 1  BY <1>5, <1>6, <3>2
    <3> QED  BY <3>1, <3>2
  <2>2. k = [l \in DOMAIN k |-> k[l]]
    <3>1. k = mvc(h, c, x, d)  BY DEF k
    <3> QED  BY <1>5, <3>1 DEF mvc
  <2> QED  BY <1>6, <2>1, <2>2
<1>10. Compacted(k, A, m, L, to, y)
  <2>1. ASSUME NEW a \in L, InRegion(curblock, a), a < y
        PROVE  /\ k[to[a]] = m[a]
               /\ \A j \in 1 .. BlkSize(m[a][2]) - 1 : k[to[a] + j] = A[a + j]
    <3>1. CASE a = x
      <4>1. k[d] = m[x]
        <5>1. 0 \in 0 .. c - 1 /\ d + 0 = d /\ x + 0 = x  BY <1>1, <1>2
        <5> QED  BY <1>1, <1>5, <1>8, <5>1
      <4>2. \A j \in 1 .. c - 1 : k[d + j] = A[x + j]
        <5> SUFFICES ASSUME NEW j \in 1 .. c - 1  PROVE k[d + j] = A[x + j]
          OBVIOUS
        <5>1. j \in 0 .. c - 1 /\ x + j # x /\ x + j \notin Base .. x - 1  BY <1>1
        <5>2. x + j \in Locations  BY <1>7, <5>1
        <5>3. h[x + j] = n[x + j]  BY <1>5, <5>1, <5>2
        <5>4. n[x + j] = A[x + j]  BY <5>1, <5>2 DEF Compacted
        <5> QED  BY <1>8, <5>1, <5>3, <5>4
      <4> QED  BY <3>1, <4>1, <4>2 DEF d, c, t
    <3>2. CASE a # x
      <4>1. a < x
        <5>1. a < x <=> a < x + BlkSize(m[x][2])  BY <1>1, <3>2, NextStart
        <5> QED  BY <2>1, <5>1 DEF y, c, t
      <4>2. Start(m, a)  BY <2>1 DEF Start
      <4>3. to[a] + BlkSize(m[a][2]) <= d  BY <4>1, <4>2, SlidApart DEF d
      <4> DEFINE e == BlkSize(m[a][2])
      <4>4. e \in Nat /\ e > 0  BY BlockFacts
      <4>5. to[a] \in Nat  BY <4>2, SlideWithin
      <4>6. a # End  BY <1>1, <4>1, <4>2, StartFacts
      <4>7. \A j \in 0 .. e - 1 : to[a] + j \in Locations  BY <4>2, <4>6, SlidWords
      <4> HIDE DEF e
      <4>8. \A j \in 0 .. e - 1 : k[to[a] + j] = n[to[a] + j]
        <5> SUFFICES ASSUME NEW j \in 0 .. e - 1  PROVE k[to[a] + j] = n[to[a] + j]
          OBVIOUS
        <5>1. to[a] + j < d
          <6>1. to[a] + e <= d  BY <4>3 DEF e
          <6> QED  BY <1>2, <4>4, <4>5, <6>1
        <5>2. to[a] + j # x /\ to[a] + j \notin d .. d + c - 1  BY <1>1, <1>2, <4>5, <5>1
        <5>3. to[a] + j \in Locations  BY <4>7
        <5> QED  BY <1>5, <1>6, <5>2, <5>3
      <4>9. /\ n[to[a]] = m[a]
            /\ \A j \in 1 .. e - 1 : n[to[a] + j] = A[a + j]
        BY <2>1, <4>1 DEF Compacted, e
      <4>10. k[to[a]] = n[to[a]]
        <5>1. 0 \in 0 .. e - 1 /\ to[a] + 0 = to[a]  BY <4>4, <4>5
        <5> QED  BY <4>8, <5>1
      <4>11. \A j \in 1 .. e - 1 : j \in 0 .. e - 1  OBVIOUS
      <4> QED  BY <4>8, <4>9, <4>10, <4>11 DEF e
    <3> QED  BY <3>1, <3>2
  <2>2. ASSUME NEW l \in Locations, l \notin Base .. y - 1  PROVE k[l] = A[l]
    <3>1. l \notin d .. d + c - 1 /\ l # x /\ l \notin Base .. x - 1
      BY <1>1, <1>2, <2>2 DEF y
    <3> QED  BY <1>5, <1>6, <3>1 DEF Compacted
  <2> QED  BY <1>9, <2>1, <2>2 DEF Compacted
<1> HIDE DEF s
<1> QED  BY <1>4, <1>10 DEF s, y, d, c, t

\* The states of compact() after j blocks.
CompactedIn(A, m, L, to, j) ==
    {s \in WalkStates : \E n, x :
        /\ s = WalkState(n, x, to[x]) /\ Start(m, x) /\ Compacted(n, A, m, L, to, x)
        /\ x = End \/ x >= Base + j}

LEMMA CompactedOn ==
    ASSUME NEW m, Shape(m, free), curblock \in Regions, NEW L \in SUBSET Blocks(m, free),
           NEW A, Adjusted(A, m, L), NEW to, Slides(to, m, L),
           NEW j \in Nat, NEW s \in CompactedIn(A, m, L, to, j)
    PROVE  CompactBlock(s) \in CompactedIn(A, m, L, to, j + 1)
<1>1. PICK n, x : /\ s = WalkState(n, x, to[x]) /\ Start(m, x) /\ Compacted(n, A, m, L, to, x)
                  /\ x = End \/ x >= Base + j
  BY DEF CompactedIn
<1>2. Base \in Nat /\ End \in Nat /\ x \in Nat  BY <1>1, StartFacts, Bounds
<1>3. CASE x = End
  <2>1. s.source >= free[curblock]  BY <1>1, <1>2, <1>3, WalkParts DEF End
  <2>2. CompactBlock(s) = s  BY <2>1 DEF CompactBlock
  <2> QED  BY <1>1, <1>3, <2>2 DEF CompactedIn
<1>4. CASE x # End
  <2> DEFINE y == x + BlkSize(m[x][2])
  <2>1. Start(m, y) /\ y \in Nat /\ y >= Base + (j + 1)
    <3>1. Start(m, y) /\ BlkSize(m[x][2]) \in Nat /\ BlkSize(m[x][2]) > 0
      BY <1>1, <1>4, StartFacts
    <3>2. x >= Base + j  BY <1>1, <1>4
    <3> HIDE DEF BlkSize
    <3> QED  BY <1>2, <3>1, <3>2
  <2>2. to[y] = to[x] + (IF x \in L THEN BlkSize(m[x][2]) ELSE 0)  BY <1>1, <1>4, SlidePast
  <2>3. to[x] \in Nat /\ to[y] \in Nat  BY <1>1, <2>1, SlideWithin
  <2>4. \E k : CompactBlock(s) = WalkState(k, y, to[y]) /\ Compacted(k, A, m, L, to, y)
    <3>1. CASE x \in L
      <4>1. to[y] = to[x] + BlkSize(m[x][2])  BY <2>2, <3>1
      <4>2. PICK k : /\ CompactBlock(WalkState(n, x, to[x]))
                          = WalkState(k, x + BlkSize(m[x][2]), to[x] + BlkSize(m[x][2]))
                     /\ Compacted(k, A, m, L, to, x + BlkSize(m[x][2]))
        BY <1>1, <1>4, <3>1, CompactLive
      <4>3. CompactBlock(s) = WalkState(k, y, to[y]) /\ Compacted(k, A, m, L, to, y)
        BY <1>1, <4>1, <4>2
      <4> HIDE DEF y
      <4> QED  BY <4>3
    <3>2. CASE x \notin L
      <4>1. to[y] = to[x]
        <5> HIDE DEF y
        <5> QED  BY <2>2, <2>3, <3>2
      <4>2. /\ CompactBlock(WalkState(n, x, to[x])) = WalkState(n, x + BlkSize(m[x][2]), to[x])
            /\ Compacted(n, A, m, L, to, x + BlkSize(m[x][2]))
        BY <1>1, <1>4, <3>2, CompactFree
      <4>3. CompactBlock(s) = WalkState(n, y, to[y]) /\ Compacted(n, A, m, L, to, y)
        BY <1>1, <4>1, <4>2
      <4> HIDE DEF y
      <4> QED  BY <4>3
    <3> QED  BY <3>1, <3>2
  <2> HIDE DEF y
  <2>5. PICK k : CompactBlock(s) = WalkState(k, y, to[y]) /\ Compacted(k, A, m, L, to, y)  BY <2>4
  <2>6. WalkState(k, y, to[y]) \in WalkStates
    <3>1. k \in [Locations -> Word]  BY <2>5 DEF Compacted
    <3> QED  BY <2>1, <2>3, <3>1 DEF WalkStates, WalkState
  <2>7. \E n2, x2 :
          /\ WalkState(k, y, to[y]) = WalkState(n2, x2, to[x2]) /\ Start(m, x2)
          /\ Compacted(n2, A, m, L, to, x2) /\ (x2 = End \/ x2 >= Base + (j + 1))
    BY <2>1, <2>5
  <2> QED  BY <2>5, <2>6, <2>7 DEF CompactedIn
<1> QED  BY <1>3, <1>4

\* compact() moves all blocks, and ends at the new free pointer.
LEMMA CompactEnd ==
    ASSUME NEW m, Shape(m, free), curblock \in Regions, NEW L \in SUBSET Blocks(m, free),
           NEW A, Adjusted(A, m, L), NEW to, Slides(to, m, L), Start(m, Base)
    PROVE  Compacted(compact(A).mem, A, m, L, to, End) /\ compact(A).dest = to[End]
<1> DEFINE N == InUse(curblock)
           start == WalkState(A, Base, Base)
           In(j) == CompactedIn(A, m, L, to, j)
           Good == [j \in 0..N |-> In(j)]
           G == [j \in 1..N |-> [u \in In(j - 1) |-> CompactBlock(u)]]
           walk[k \in 0..N] == IF k = 0 THEN start ELSE CompactBlock(walk[k - 1])
<1>1. Base \in Nat /\ N \in Nat /\ End \in Nat /\ N = End - Base
  BY Bounds DEF Base, End, InUse
<1>2. compact(A) = walk[N]  BY DEF compact, Base
<1> HIDE DEF N
<1>3. start \in In(0)
  <2>1. to[Base] = Base  BY DEF Slides
  <2>2. A \in [Locations -> Word]  BY DEF Adjusted
  <2>3. start \in WalkStates  BY <1>1, <2>2 DEF WalkStates, WalkState
  <2>4. Base >= Base + 0  BY <1>1
  <2>5. Compacted(A, A, m, L, to, Base)
    <3>1. \A a \in L : ~(InRegion(curblock, a) /\ a < Base)
      <4> SUFFICES ASSUME NEW a \in L, InRegion(curblock, a), a < Base  PROVE FALSE
        OBVIOUS
      <4>1. a \in Nat  BY BlockFacts
      <4> QED  BY <1>1, <4>1 DEF InRegion, Base
    <3> QED  BY <2>2, <3>1 DEF Compacted
  <2>6. \E k, x :
          /\ start = WalkState(k, x, to[x]) /\ Start(m, x) /\ Compacted(k, A, m, L, to, x)
          /\ x = End \/ x >= Base + 0
    BY <2>1, <2>4, <2>5
  <2> HIDE DEF start
  <2> QED  BY <2>3, <2>6 DEF CompactedIn
<1> HIDE DEF start
<1>4. \A j \in Nat : \A u \in In(j) : CompactBlock(u) \in In(j + 1)
  <2> HIDE DEF Good, G, walk
  <2> SUFFICES ASSUME NEW j \in Nat, NEW u \in In(j)  PROVE CompactBlock(u) \in In(j + 1)
    OBVIOUS
  <2> QED  BY CompactedOn
<1> HIDE DEF In
<1>5. \A j \in 1..N : \A u \in Good[j - 1] : G[j][u] \in Good[j]
  <2> SUFFICES ASSUME NEW j \in 1..N, NEW u \in Good[j - 1]  PROVE G[j][u] \in Good[j]
    OBVIOUS
  <2>1. j \in 0..N /\ j - 1 \in 0..N /\ j - 1 \in Nat /\ (j - 1) + 1 = j  BY <1>1
  <2>2. u \in In(j - 1)  BY <2>1
  <2>3. CompactBlock(u) \in In(j)  BY <1>4, <2>1, <2>2
  <2> QED  BY <2>1, <2>2, <2>3
<1>6. start \in Good[0]  BY <1>1, <1>3
<1>7. PICK f : Loop(f, N, start, G) /\ \A j \in 0..N : f[j] \in Good[j]
  <2> HIDE DEF Good, G, walk
  <2> QED  BY <1>1, <1>5, <1>6, LoopExists
<1>8. \A j \in 0..N : f[j] \in In(j)  BY <1>7
<1>9. f = [n \in 0..N |-> IF n = 0 THEN start ELSE CompactBlock(f[n - 1])]
  <2>1. \A j \in 0..N : f[j] = IF j = 0 THEN start ELSE CompactBlock(f[j - 1])
    <3> SUFFICES ASSUME NEW j \in 0..N, j # 0  PROVE f[j] = CompactBlock(f[j - 1])
      BY <1>7 DEF Loop
    <3>1. j \in 1..N /\ j - 1 \in 0..N  BY <1>1
    <3>2. f[j] = G[j][f[j - 1]]  BY <1>7 DEF Loop
    <3> QED  BY <1>8, <3>1, <3>2
  <2>2. f = [j \in 0..N |-> f[j]]  BY <1>7 DEF Loop
  <2> QED  BY <2>1, <2>2
<1>10. walk = [n \in 0..N |-> IF n = 0 THEN start ELSE CompactBlock(walk[n - 1])]
  BY <1>9 DEF walk
<1> HIDE DEF walk, Good, G
<1>11. walk[N] \in In(N)
  <2> DEFINE S == {j \in 0..N : walk[j] \in In(j)}
  <2>1. 0 \in S  BY <1>1, <1>3, <1>10
  <2>2. \A j \in 1..N : j - 1 \in S => j \in S
    <3> SUFFICES ASSUME NEW j \in 1..N, j - 1 \in S  PROVE j \in S
      OBVIOUS
    <3>1. walk[j - 1] \in In(j - 1) /\ j \in 0..N /\ j # 0 /\ j - 1 \in Nat /\ (j - 1) + 1 = j
      BY <1>1
    <3>2. walk[j] = CompactBlock(walk[j - 1])  BY <1>10, <3>1
    <3>3. CompactBlock(walk[j - 1]) \in In(j)  BY <1>4, <3>1
    <3> QED  BY <3>1, <3>2, <3>3
  <2>3. \A j \in 0..N : j \in S
    <3> HIDE DEF S
    <3> QED  BY <1>1, <2>1, <2>2, Climb
  <2> QED  BY <1>1, <2>3
<1>12. PICK k, x : /\ walk[N] = WalkState(k, x, to[x]) /\ Start(m, x)
                   /\ Compacted(k, A, m, L, to, x)
                   /\ x = End \/ x >= Base + N
  BY <1>11 DEF In, CompactedIn
<1>13. x = End
  <2>1. x \in Nat /\ x <= End  BY <1>12, StartFacts
  <2> QED  BY <1>1, <1>12, <2>1
<1> QED  BY <1>2, <1>12, <1>13, WalkParts

-----------------------------------------------------------------------------
(* The qualifiers in the order of their strings *)

\* Casting the difference does no harm to locations no further apart than an
\* int can hold.
LEMMA QlcmpExact ==
    ASSUME NEW x \in Nat, NEW y \in Nat, x - y <= IntMax, y - x <= IntMax
    PROVE  qlcmp(x, y) = x - y
<1> DEFINE half == IntMax + 1
           d == 2 * half
           a == x - y + half
<1>1. IntMax \in Nat  BY CollectorAssumption
<1>2. half \in Nat /\ d \in Nat /\ d > 0 /\ a \in Nat /\ a < d /\ a = x - y + half  BY <1>1
<1>3. qlcmp(x, y) = (a % d) - half  BY DEF qlcmp
<1> HIDE DEF half, d, a
<1>4. a % d = a  BY <1>2
<1> QED  BY <1>2, <1>3, <1>4

Ordered(c, Q, h) ==
    /\ c \in [1 .. Cardinality(Q) -> Q] /\ Q = {c[i] : i \in DOMAIN c}
    /\ \A i, j \in DOMAIN c : i < j => h[c[i]] <= h[c[j]]

Prepended(x, c, k) == [i \in 1..k |-> IF i = 1 THEN x ELSE c[i - 1]]

LEMMA OrderExists ==
    ASSUME NEW Q, IsFiniteSet(Q), NEW h \in [Q -> Nat]
    PROVE  \E c : Ordered(c, Q, h)
<1> DEFINE N == Cardinality(Q)
           S == {k \in 0..N : \A P \in SUBSET Q : Cardinality(P) = k => \E c : Ordered(c, P, h)}
<1>1. N \in Nat  BY FS_CardinalityType
<1>2. \A P \in SUBSET Q : IsFiniteSet(P) /\ Cardinality(P) \in Nat
  BY FS_Subset, FS_CardinalityType
<1>3. 0 \in S
  <2> SUFFICES ASSUME NEW P \in SUBSET Q, Cardinality(P) = 0  PROVE \E c : Ordered(c, P, h)
    BY <1>1
  <2>1. P = {}  BY <1>2, FS_EmptySet
  <2> DEFINE c == [i \in {} |-> 0]
  <2>2. 1..0 = {} /\ DOMAIN c = {} /\ c \in [{} -> {}]  OBVIOUS
  <2> HIDE DEF c
  <2>3. Ordered(c, P, h)  BY <2>1, <2>2 DEF Ordered
  <2> QED  BY <2>3
<1>4. \A k \in 1..N : k - 1 \in S => k \in S
  <2> SUFFICES ASSUME NEW k \in 1..N, k - 1 \in S, NEW P \in SUBSET Q, Cardinality(P) = k
               PROVE  \E c : Ordered(c, P, h)
    BY <1>1
  <2>1. P # {}
    <3>1. k # 0  OBVIOUS
    <3> QED  BY <3>1, FS_EmptySet
  <2> DEFINE U == {h[l] : l \in P}
  <2>2. U \in SUBSET Nat /\ U # {}  BY <2>1
  <2>3. PICK j \in U : \A i \in U : j <= i
    <3> HIDE DEF U
    <3> QED  BY <2>2, LeastNat
  <2>4. PICK x \in P : j = h[x]  OBVIOUS
  <2>5. \A l \in P : h[x] <= h[l]  BY <2>3, <2>4
  <2> DEFINE R == P \ {x}
  <2>6. IsFiniteSet(P) /\ Cardinality(R) = k - 1 /\ R \in SUBSET Q
    BY <1>2, FS_RemoveElement
  <2>7. PICK c : Ordered(c, R, h)
    <3> HIDE DEF R
    <3> QED  BY <2>6
  <2> DEFINE b == Prepended(x, c, k)
  <2>8. c \in [1 .. k - 1 -> R] /\ R = {c[i] : i \in 1 .. k - 1}
        /\ \A i, e \in 1 .. k - 1 : i < e => h[c[i]] <= h[c[e]]
    <3> HIDE DEF R, b, S, U
    <3> QED  BY <2>6, <2>7 DEF Ordered
  <2>9. /\ DOMAIN b = 1..k /\ \A i \in 1..k : b[i] = IF i = 1 THEN x ELSE c[i - 1]
        /\ b = [i \in 1..k |-> b[i]]
    BY DEF Prepended
  <2> HIDE DEF R, b, S, U
  <2>10. \A i \in 1..k : i = 1 \/ i - 1 \in 1 .. k - 1  OBVIOUS
  <2>11. R \subseteq P /\ \A e \in P : e = x \/ e \in R  BY DEF R
  <2>12. \A i \in 1..k : b[i] \in P  BY <2>8, <2>9, <2>10, <2>11
  <2>13. b \in [1..k -> P]  BY <2>9, <2>12
  <2>14. \A e \in P : \E i \in 1..k : b[i] = e
    <3> SUFFICES ASSUME NEW e \in P  PROVE \E i \in 1..k : b[i] = e
      OBVIOUS
    <3>1. CASE e = x
      <4>1. 1 \in 1..k  OBVIOUS
      <4> QED  BY <2>9, <3>1, <4>1
    <3>2. CASE e \in R
      <4>1. PICK i \in 1 .. k - 1 : c[i] = e  BY <2>8, <3>2
      <4>2. i + 1 \in 1..k /\ i + 1 # 1 /\ (i + 1) - 1 = i  OBVIOUS
      <4> QED  BY <2>9, <4>1, <4>2
    <3> QED  BY <2>11, <3>1, <3>2
  <2>15. ASSUME NEW i \in 1..k, NEW e \in 1..k, i < e  PROVE h[b[i]] <= h[b[e]]
    <3>1. e # 1 /\ e - 1 \in 1 .. k - 1  BY <2>15
    <3>2. CASE i = 1  BY <2>5, <2>9, <2>12, <3>2
    <3>3. CASE i # 1
      <4>1. i - 1 \in 1 .. k - 1 /\ i - 1 < e - 1  BY <2>15, <3>3
      <4>2. h[c[i - 1]] <= h[c[e - 1]]  BY <2>8, <3>1, <4>1
      <4> QED  BY <2>9, <3>1, <3>3, <4>2
    <3> QED  BY <3>2, <3>3
  <2>16. P = {b[i] : i \in DOMAIN b}
    <3>1. \A e : e \in P => e \in {b[i] : i \in DOMAIN b}  BY <2>9, <2>14
    <3>2. \A e : e \in {b[i] : i \in DOMAIN b} => e \in P  BY <2>9, <2>12
    <3> QED  BY <3>1, <3>2, Zenon
  <2>17. Ordered(b, P, h)  BY <2>9, <2>13, <2>15, <2>16 DEF Ordered
  <2> QED  BY <2>17
<1>5. N \in S
  <2>1. \A i \in 0..N : i \in S
    <3> HIDE DEF S, N
    <3> QED  BY <1>1, <1>3, <1>4, Climb
  <2> QED  BY <1>1, <2>1
<1> QED  BY <1>5

\* A list of as many elements as the set has them once each.
LEMMA OnceEach ==
    ASSUME NEW Q, IsFiniteSet(Q), NEW c \in [1 .. Cardinality(Q) -> Q],
           Q = {c[i] : i \in DOMAIN c}
    PROVE  IsInjective(c)
<1> DEFINE n == Cardinality(Q)
<1>1. n \in Nat  BY FS_CardinalityType
<1>2. IsFiniteSet(1..n) /\ Cardinality(1..n) = n
  <2> HIDE DEF n
  <2>1. IsFiniteSet(1..n) /\ Cardinality(1..n) = IF 1 > n THEN 0 ELSE n - 1 + 1
    BY <1>1, FS_Interval
  <2> QED  BY <1>1, <2>1
<1>3. \A t \in Q : \E s \in 1..n : c[s] = t
  <2>1. DOMAIN c = 1..n  OBVIOUS
  <2> HIDE DEF n
  <2> QED  BY <2>1
<1>4. c \in Surjection(1..n, Q)  BY <1>3 DEF Surjection
<1> HIDE DEF n
<1>5. Cardinality(1..n) = Cardinality(Q)  BY <1>2 DEF n
<1>6. c \in Injection(1..n, Q)  BY <1>2, <1>4, <1>5, FS_SurjSameCardinalityImpliesInj
<1> QED  BY <1>6 DEF Injection

-----------------------------------------------------------------------------
(* Moving strings *)

\* The word v refers to the text in C that the word w refers to in str.
Placed(v, w, C) ==
    /\ v = Str(v[2], w[3]) /\ v[2] \in Nat
    /\ v[2] >= 1 /\ v[2] + w[3] <= Len(C) + 1
    /\ \A d \in 0 .. w[3] - 1 : C[v[2] + d] = str[w[2] + d]

\* k is the memory n, of which the strings at P are those of the text C.
Retold(k, n, P, C) ==
    /\ k \in [Locations -> Word]
    /\ \A l \in P : Placed(k[l], n[l], C)
    /\ \A l \in Locations \ P : k[l] = n[l]
    /\ \A x \in 1 .. Len(C) : \E l \in P : k[l][2] <= x /\ x < k[l][2] + n[l][3]

\* The text T that has been moved and the clump from s up to e.
Clump(T, s, e) == T \o SubSeq(str, s, e - 1)

Clumps(k, T, s, e, n, P) ==
    /\ T \in Seq(Chars) /\ s \in Nat /\ e \in Nat
    /\ 1 <= s /\ s <= e /\ e <= Len(str) + 1 /\ Len(T) < s
    /\ Retold(k, n, P, Clump(T, s, e))

LEMMA ClumpFacts ==
    ASSUME str \in Seq(Chars), NEW T \in Seq(Chars), NEW s \in Nat, NEW e \in Nat,
           1 <= s, s <= e, e <= Len(str) + 1
    PROVE  /\ Clump(T, s, e) \in Seq(Chars) /\ Len(Clump(T, s, e)) = Len(T) + (e - s)
           /\ \A x \in 1 .. Len(T) : Clump(T, s, e)[x] = T[x]
           /\ \A x \in s .. e - 1 : Clump(T, s, e)[Len(T) + (x - s) + 1] = str[x]
           /\ Len(T) \in Nat /\ Len(str) \in Nat
<1> DEFINE U == SubSeq(str, s, e - 1)
<1>1. Len(str) \in Nat /\ Len(T) \in Nat  OBVIOUS
<1>2. U \in Seq(Chars) /\ Len(U) = e - s /\ \A x \in 1 .. e - s : U[x] = str[s + x - 1]
  <2> DEFINE f == e - 1
  <2>1. f \in s - 1 .. Len(str) /\ s \in 1 .. Len(str) + 1 /\ f - s + 1 = e - s  BY <1>1
  <2>2. SubSeq(str, s, f) \in Seq(Chars) /\ Len(SubSeq(str, s, f)) = f - s + 1
        /\ \A x \in 1 .. f - s + 1 : SubSeq(str, s, f)[x] = str[s + x - 1]
    <3>1. str \in Seq(Chars) /\ s \in 1 .. Len(str) + 1 /\ f \in s - 1 .. Len(str)  BY <2>1
    <3> HIDE DEF f
    <3> QED  BY ONLY <3>1, SubSeqProperties
  <2> QED  BY <2>1, <2>2
<1>3. Clump(T, s, e) = T \o U  BY DEF Clump
<1> HIDE DEF U
<1>4. /\ T \o U \in Seq(Chars) /\ Len(T \o U) = Len(T) + Len(U)
      /\ \A x \in 1 .. Len(T) + Len(U) :
           (T \o U)[x] = IF x <= Len(T) THEN T[x] ELSE U[x - Len(T)]
  BY <1>2, ConcatProperties
<1>5. \A x \in 1 .. Len(T) : (T \o U)[x] = T[x]  BY <1>1, <1>2, <1>4
<1>6. ASSUME NEW x \in s .. e - 1  PROVE (T \o U)[Len(T) + (x - s) + 1] = str[x]
  <2> DEFINE y == Len(T) + (x - s) + 1
             z == x - s + 1
  <2>1. y \in 1 .. Len(T) + Len(U) /\ ~(y <= Len(T)) /\ y - Len(T) = z
        /\ z \in 1 .. e - s /\ s + z - 1 = x
    BY <1>1, <1>2
  <2> HIDE DEF y, z
  <2>2. (T \o U)[y] = U[z]  BY <1>4, <2>1
  <2>3. U[z] = str[s + z - 1]  BY <1>2, <2>1
  <2> QED  BY <2>1, <2>2, <2>3 DEF y
<1> QED  BY <1>1, <1>2, <1>3, <1>4, <1>5, <1>6

LEMMA MoveParts ==
    ASSUME NEW k, NEW T, NEW s, NEW e
    PROVE  /\ MoveState(k, T, s, e).mem = k /\ MoveState(k, T, s, e).str = T
           /\ MoveState(k, T, s, e).source = s /\ MoveState(k, T, s, e).cend = e
           /\ Clumped(MoveState(k, T, s, e)) = Clump(T, s, e)
BY DEF MoveState, Clumped, Clump

\* A clump that is moved is the same text.
LEMMA FlushStep ==
    ASSUME str \in Seq(Chars), NEW k, NEW T, NEW s, NEW e, NEW n, NEW P,
           Clumps(k, T, s, e, n, P), NEW loc \in Nat, s <= loc, loc <= Len(str) + 1
    PROVE  \E U, b, f : /\ Flush(MoveState(k, T, s, e), loc) = MoveState(k, U, b, f)
                        /\ Clumps(k, U, b, f, n, P) /\ b <= loc /\ loc <= f
<1> DEFINE u == MoveState(k, T, s, e)
<1>1. u.mem = k /\ u.cend = e /\ Clumped(u) = Clump(T, s, e)  BY MoveParts
<1>2. /\ T \in Seq(Chars) /\ s \in Nat /\ e \in Nat
      /\ 1 <= s /\ s <= e /\ e <= Len(str) + 1 /\ Len(T) < s
      /\ Retold(k, n, P, Clump(T, s, e))
  BY DEF Clumps
<1> HIDE DEF u
<1>3. CASE loc > e
  <2> DEFINE U == Clump(T, s, e)
  <2>1. Flush(u, loc) = MoveState(k, U, loc, loc)  BY <1>1, <1>3 DEF Flush
  <2>2. U \in Seq(Chars) /\ Len(U) = Len(T) + (e - s) /\ Len(T) \in Nat /\ Len(str) \in Nat
    BY <1>2, ClumpFacts
  <2>3. 1 <= loc /\ loc <= loc /\ Len(U) < loc  BY <1>2, <1>3, <2>2
  <2>4. Retold(k, n, P, U)  BY <1>2
  <2> HIDE DEF U
  <2>5. Clump(U, loc, loc) = U
    <3>1. SubSeq(str, loc, loc - 1) = <<>>  BY <2>2
    <3>2. U \o <<>> = U  BY <2>2
    <3> QED  BY <3>1, <3>2 DEF Clump
  <2>6. Clumps(k, U, loc, loc, n, P)  BY <2>2, <2>3, <2>4, <2>5 DEF Clumps
  <2> QED  BY <2>1, <2>3, <2>6 DEF u
<1>4. CASE ~(loc > e)
  <2>1. Flush(u, loc) = u /\ loc <= e  BY <1>1, <1>2, <1>4 DEF Flush
  <2> QED  BY <2>1 DEF u
<1> QED  BY <1>3, <1>4

Rewritten(k, q, w) == [k EXCEPT ![q] = w]

Later2(x, y) == IF x > y THEN x ELSE y

\* The string of q is part of the clump.
LEMMA ExtendStep ==
    ASSUME str \in Seq(Chars), NEW k, NEW T, NEW s, NEW e, NEW n, NEW P \in SUBSET Locations,
           Clumps(k, T, s, e, n, P), NEW q \in Locations, q \notin P,
           n[q] \in Word, Is(n[q], "str"), InText(n[q], str), s <= n[q][2], n[q][2] <= e
    PROVE  \E j, f : /\ Extend(MoveState(k, T, s, e), q) = MoveState(j, T, s, f)
                     /\ Clumps(j, T, s, f, n, P \cup {q})
<1> DEFINE u == MoveState(k, T, s, e)
           loc == n[q][2]
           len == n[q][3]
           p == loc - s + Len(T) + 1
           f == Later2(loc + len, e)
           j == Rewritten(k, q, Str(p, len))
           C == Clump(T, s, e)
           D == Clump(T, s, f)
<1>1. u.mem = k /\ u.cend = e /\ u.str = T /\ u.source = s  BY MoveParts
<1>2. /\ T \in Seq(Chars) /\ s \in Nat /\ e \in Nat
      /\ 1 <= s /\ s <= e /\ e <= Len(str) + 1 /\ Len(T) < s
      /\ Retold(k, n, P, C)
  BY DEF Clumps
<1>3. loc \in Nat /\ len \in Nat /\ n[q] = Str(loc, len) /\ loc + len <= Len(str) + 1
      /\ s <= loc /\ loc <= e
  BY WordKinds DEF InText
<1>4. k \in [Locations -> Word] /\ k[q] = n[q]  BY <1>2 DEF Retold
<1>5. f = IF loc + len > e THEN loc + len ELSE e  BY DEF Later2
<1>6. Extend(u, q) = MoveState(j, T, s, f)
  <2> HIDE DEF u
  <2> QED  BY <1>1, <1>4, <1>5 DEF Extend, Rewritten
<1> HIDE DEF u, f
<1>7. f \in Nat /\ e <= f /\ f <= Len(str) + 1 /\ loc + len <= f /\ s <= f /\ Len(str) \in Nat
      /\ (f = e \/ f = loc + len)
  BY <1>2, <1>3, <1>5
<1>8. /\ Len(C) = Len(T) + (e - s) /\ Len(T) \in Nat
      /\ \A x \in 1 .. Len(T) : C[x] = T[x]
      /\ \A x \in s .. e - 1 : C[Len(T) + (x - s) + 1] = str[x]
  BY <1>2, ClumpFacts
<1>9. /\ D \in Seq(Chars) /\ Len(D) = Len(T) + (f - s)
      /\ \A x \in 1 .. Len(T) : D[x] = T[x]
      /\ \A x \in s .. f - 1 : D[Len(T) + (x - s) + 1] = str[x]
  <2> HIDE DEF p, j, loc, len, C
  <2>1. T \in Seq(Chars) /\ s \in Nat /\ f \in Nat /\ 1 <= s /\ s <= f /\ f <= Len(str) + 1
    BY <1>2, <1>7
  <2> QED  BY <2>1, ClumpFacts
<1> HIDE DEF C, D
<1>10. \A x \in 1 .. Len(C) : D[x] = C[x]
  <2> SUFFICES ASSUME NEW x \in 1 .. Len(C)  PROVE D[x] = C[x]
    OBVIOUS
  <2>1. CASE x <= Len(T)
    <3>1. x \in 1 .. Len(T)  BY <1>8, <2>1
    <3> QED  BY <1>8, <1>9, <3>1
  <2>2. CASE ~(x <= Len(T))
    <3> DEFINE y == x - Len(T) - 1 + s
    <3>1. y \in s .. e - 1 /\ y \in s .. f - 1 /\ Len(T) + (y - s) + 1 = x
      BY <1>2, <1>7, <1>8, <2>2
    <3> HIDE DEF y
    <3>2. C[Len(T) + (y - s) + 1] = str[y] /\ D[Len(T) + (y - s) + 1] = str[y]
      BY <1>8, <1>9, <3>1
    <3> QED  BY <3>1, <3>2
  <2> QED  BY <2>1, <2>2
<1>11. Len(C) <= Len(D) /\ Len(C) \in Nat /\ Len(D) \in Nat  BY <1>2, <1>7, <1>8, <1>9
<1>12. p \in Nat /\ p >= 1 /\ p + len <= Len(D) + 1
  <2> DEFINE c == Len(T)
             d == Len(D)
  <2>1. /\ loc \in Nat /\ len \in Nat /\ s \in Nat /\ f \in Nat /\ c \in Nat
        /\ s <= loc /\ loc + len <= f /\ d = c + (f - s)
    BY <1>2, <1>3, <1>7, <1>8, <1>9
  <2>2. p = loc - s + c + 1  OBVIOUS
  <2> HIDE DEF loc, len, p, c, d, f
  <2>3. p \in Nat /\ p >= 1 /\ p + len <= d + 1  BY ONLY <2>1, <2>2
  <2> QED  BY <2>3 DEF d
<1>13. j \in [Locations -> Word] /\ j[q] = Str(p, len)
       /\ \A l \in Locations : l # q => j[l] = k[l]
  <2>1. Str(p, len) \in Word  BY <1>3, <1>12, KindsOfWords
  <2> DEFINE w == Str(p, len)
  <2> HIDE DEF w
  <2>2. w \in Word  BY <2>1 DEF w
  <2>3. Rewritten(k, q, w) \in [Locations -> Word] /\ Rewritten(k, q, w)[q] = w
        /\ \A l \in Locations : l # q => Rewritten(k, q, w)[l] = k[l]
    BY <1>4, <2>2 DEF Rewritten
  <2> QED  BY <2>3 DEF w
<1>14. j[q][2] = p /\ j[q][3] = len  BY <1>13, KindsOfWords
<1>15. Placed(j[q], n[q], D)
  <2>1. \A d \in 0 .. len - 1 : D[p + d] = str[loc + d]
    <3> SUFFICES ASSUME NEW d \in 0 .. len - 1  PROVE D[p + d] = str[loc + d]
      OBVIOUS
    <3> DEFINE x == loc + d
    <3>1. x \in s .. f - 1 /\ p + d = Len(T) + (x - s) + 1
      <4>1. d \in Nat /\ d < len  BY <1>3
      <4> HIDE DEF loc, len, j
      <4>2. loc \in Nat /\ len \in Nat /\ s \in Nat /\ f \in Nat /\ s <= loc /\ loc + len <= f
            /\ Len(T) \in Nat
        BY <1>2, <1>3, <1>7, <1>8
      <4> QED  BY <4>1, <4>2
    <3> HIDE DEF x, p
    <3>2. D[Len(T) + (x - s) + 1] = str[x]  BY <1>9, <3>1
    <3> QED  BY <3>1, <3>2 DEF x
  <2> HIDE DEF p, len, loc, j
  <2> QED  BY <1>12, <1>13, <1>14, <2>1 DEF Placed, len, loc
<1> HIDE DEF j, p
<1>16. ASSUME NEW l \in P  PROVE Placed(j[l], n[l], D)
  <2>1. Placed(k[l], n[l], C) /\ j[l] = k[l]  BY <1>2, <1>13 DEF Retold
  <2> DEFINE h == n[l][3]
             v == k[l][2]
  <2>2. v \in Nat /\ v >= 1 /\ v + h <= Len(C) + 1 /\ k[l] = Str(v, h)
        /\ \A d \in 0 .. h - 1 : C[v + d] = str[n[l][2] + d]
    BY <2>1 DEF Placed
  <2>3. h \in Nat
    <3>1. k[l] \in Word /\ Is(k[l], "str") /\ k[l][3] = h  BY <1>4, <2>2, KindsOfWords
    <3> QED  BY <3>1, WordKinds
  <2> HIDE DEF h, v
  <2>4. \A d \in 0 .. h - 1 : D[v + d] = C[v + d]
    <3> SUFFICES ASSUME NEW d \in 0 .. h - 1  PROVE D[v + d] = C[v + d]
      OBVIOUS
    <3>1. v + d \in 1 .. Len(C)  BY <1>11, <2>2, <2>3
    <3> QED  BY <1>10, <3>1
  <2>5. v + h <= Len(D) + 1  BY <1>11, <2>2, <2>3
  <2> QED  BY <2>1, <2>2, <2>4, <2>5 DEF Placed, h, v
<1>17. ASSUME NEW x \in 1 .. Len(D)
       PROVE  \E l \in P \cup {q} : j[l][2] <= x /\ x < j[l][2] + n[l][3]
  <2>1. CASE x <= Len(C)
    <3>1. x \in 1 .. Len(C)  BY <1>11, <2>1
    <3>2. PICK l \in P : k[l][2] <= x /\ x < k[l][2] + n[l][3]  BY <1>2, <3>1 DEF Retold
    <3>3. j[l] = k[l]  BY <1>13
    <3> QED  BY <3>2, <3>3
  <2>2. CASE ~(x <= Len(C))
    <3>1. p <= x /\ x < p + len
      <4> DEFINE tl == Len(T)
                 cl == Len(C)
                 dl == Len(D)
      <4>1. /\ x \in Nat /\ x <= dl /\ ~(x <= cl) /\ tl \in Nat
            /\ cl = tl + (e - s) /\ dl = tl + (f - s) /\ p = loc - s + tl + 1
        BY <1>8, <1>9, <1>11, <2>2 DEF p
      <4>2. /\ s \in Nat /\ e \in Nat /\ f \in Nat /\ loc \in Nat /\ len \in Nat /\ loc <= e
            /\ (f = e \/ f = loc + len)
        BY <1>2, <1>3, <1>7
      <4> HIDE DEF loc, len, tl, cl, dl
      <4> QED  BY ONLY <4>1, <4>2
    <3> QED  BY <1>14, <3>1
  <2> QED  BY <2>1, <2>2
<1>18. \A l \in Locations \ (P \cup {q}) : j[l] = n[l]  BY <1>2, <1>13 DEF Retold
<1>19. Retold(j, n, P \cup {q}, D)
  BY <1>13, <1>15, <1>16, <1>17, <1>18 DEF Retold
<1>20. Clumps(j, T, s, f, n, P \cup {q})  BY <1>2, <1>7, <1>19 DEF Clumps, D
<1> QED  BY <1>6, <1>20 DEF u

-----------------------------------------------------------------------------
(* The loop that moves strings *)

\* The locations Q hold qualifiers of text in the string region.
Quals(n, Q) ==
    /\ n \in [Locations -> Word] /\ Q \in SUBSET Locations
    /\ str \in Seq(Chars) /\ Len(str) <= IntMax
    /\ \A l \in Q : Is(n[l], "str") /\ InText(n[l], str)

LEMMA QualFacts ==
    ASSUME NEW n, NEW Q, Quals(n, Q)
    PROVE  /\ IsFiniteSet(Q) /\ Cardinality(Q) \in Nat
           /\ \A l \in Q : /\ l \in Locations /\ n[l] \in Word /\ n[l][2] \in Nat
                           /\ n[l][2] >= 1 /\ n[l][2] <= Len(str) + 1
           /\ Len(str) \in Nat
<1>1. IsFiniteSet(Q) /\ Cardinality(Q) \in Nat
  BY WordsFacts, FS_Subset, FS_CardinalityType DEF Quals
<1>2. ASSUME NEW l \in Q
      PROVE  /\ l \in Locations /\ n[l] \in Word /\ n[l][2] \in Nat
             /\ n[l][2] >= 1 /\ n[l][2] <= Len(str) + 1
  <2>1. l \in Locations /\ n[l] \in Word /\ Is(n[l], "str") /\ InText(n[l], str)
        /\ Len(str) \in Nat
    BY DEF Quals
  <2>2. n[l][2] \in Nat /\ n[l][3] \in Nat  BY <2>1, WordKinds
  <2> QED  BY <2>1, <2>2 DEF InText
<1> QED  BY <1>1, <1>2 DEF Quals

Sorting(c, n, Q) ==
    /\ c \in [1 .. Cardinality(Q) -> Q] /\ Q = {c[i] : i \in DOMAIN c}
    /\ \A i, j \in DOMAIN c : i < j => qlcmp(n[c[i]][2], n[c[j]][2]) <= 0

\* The list is in the order of the strings and holds each location once.
LEMMA SortedFacts ==
    ASSUME NEW n, NEW Q, Quals(n, Q)
    PROVE  \E c : /\ Sorted(n, Q) = c
                  /\ c \in [1 .. Cardinality(Q) -> Q] /\ Q = {c[i] : i \in DOMAIN c}
                  /\ \A i, j \in DOMAIN c : i < j => n[c[i]][2] <= n[c[j]][2]
                  /\ IsInjective(c)
<1> DEFINE h == [l \in Q |-> n[l][2]]
           c == Sorted(n, Q)
<1>1. IsFiniteSet(Q) /\ \A l \in Q : n[l][2] \in Nat /\ n[l][2] >= 1 /\ n[l][2] <= Len(str) + 1
  BY QualFacts
<1>2. Len(str) \in Nat /\ Len(str) <= IntMax /\ IntMax \in Nat
  BY QualFacts, CollectorAssumption DEF Quals
<1>3. h \in [Q -> Nat]  BY <1>1
<1>4. PICK d : Ordered(d, Q, h)
  <2> HIDE DEF h
  <2> QED  BY <1>1, <1>3, OrderExists
<1>5. ASSUME NEW k \in Q, NEW l \in Q
      PROVE  qlcmp(n[k][2], n[l][2]) <= 0 <=> n[k][2] <= n[l][2]
  <2> DEFINE x == n[k][2]
             y == n[l][2]
  <2>1. x \in Nat /\ y \in Nat /\ x - y <= IntMax /\ y - x <= IntMax
    <3>1. x \in Nat /\ y \in Nat /\ x >= 1 /\ y >= 1 /\ x <= Len(str) + 1 /\ y <= Len(str) + 1
      BY <1>1
    <3> HIDE DEF x, y
    <3> QED  BY <1>2, <3>1
  <2> HIDE DEF x, y
  <2>2. qlcmp(x, y) = x - y  BY <2>1, QlcmpExact
  <2>3. qlcmp(x, y) <= 0 <=> x <= y  BY <2>1, <2>2
  <2> QED  BY <2>3 DEF x, y
<1>6. /\ d \in [1 .. Cardinality(Q) -> Q] /\ Q = {d[i] : i \in DOMAIN d}
      /\ \A i, j \in DOMAIN d : i < j => h[d[i]] <= h[d[j]]
  BY <1>4 DEF Ordered
<1>7. Sorting(d, n, Q)
  <2>1. ASSUME NEW i \in DOMAIN d, NEW j \in DOMAIN d, i < j
        PROVE  qlcmp(n[d[i]][2], n[d[j]][2]) <= 0
    <3>1. d[i] \in Q /\ d[j] \in Q  BY <1>6
    <3>2. h[d[i]] <= h[d[j]]  BY <1>6, <2>1
    <3>3. n[d[i]][2] <= n[d[j]][2]  BY <3>1, <3>2
    <3> QED  BY <1>5, <3>1, <3>3
  <2> HIDE DEF h
  <2> QED  BY <1>6, <2>1 DEF Sorting
<1>8. c = CHOOSE e \in [1 .. Cardinality(Q) -> Q] : Sorting(e, n, Q)
  <2>1. \A e \in [1 .. Cardinality(Q) -> Q] :
          Sorting(e, n, Q) <=>
            (/\ Q = {e[i] : i \in DOMAIN e}
             /\ \A i, j \in DOMAIN e : i < j => qlcmp(n[e[i]][2], n[e[j]][2]) <= 0)
    BY DEF Sorting
  <2> QED  BY <2>1 DEF Sorted
<1> HIDE DEF c, h
<1>9. Sorting(c, n, Q)
  <2>1. d \in [1 .. Cardinality(Q) -> Q]  BY <1>6
  <2> QED  BY <1>7, <1>8, <2>1, Zenon
<1>10. c \in [1 .. Cardinality(Q) -> Q] /\ Q = {c[i] : i \in DOMAIN c}  BY <1>9 DEF Sorting
<1>11. \A i, j \in DOMAIN c : i < j => n[c[i]][2] <= n[c[j]][2]
  <2>1. \A i \in DOMAIN c : c[i] \in Q  BY <1>10
  <2> QED  BY <1>5, <1>9, <2>1 DEF Sorting
<1>12. IsInjective(c)  BY <1>1, <1>10, OnceEach
<1> QED  BY <1>10, <1>11, <1>12 DEF c

\* The first i locations of the list c.
First(c, i) == {c[j] : j \in 1..i}

MoveStates ==
    {MoveState(k, T, s, e) : k \in [Locations -> Word], T \in Seq(Chars), s \in Nat, e \in Nat}

\* The states in which the strings of the first i locations have been moved
\* and the others do not start before the clump.
MovedIn(n, Q, c, i) ==
    {u \in MoveStates :
       \E k, T, s, e : /\ u = MoveState(k, T, s, e) /\ Clumps(k, T, s, e, n, First(c, i))
                       /\ i < Cardinality(Q) => s <= n[c[i + 1]][2]}

LEMMA InMoved ==
    ASSUME NEW n, NEW Q, NEW c, NEW i, NEW k, NEW T, NEW s, NEW e,
           Clumps(k, T, s, e, n, First(c, i)),
           i < Cardinality(Q) => s <= n[c[i + 1]][2]
    PROVE  MoveState(k, T, s, e) \in MovedIn(n, Q, c, i)
<1>1. k \in [Locations -> Word] /\ T \in Seq(Chars) /\ s \in Nat /\ e \in Nat
  BY DEF Clumps, Retold
<1>2. MoveState(k, T, s, e) \in MoveStates  BY <1>1 DEF MoveStates
<1> DEFINE u == MoveState(k, T, s, e)
<1>3. \E k2, T2, s2, e2 :
        /\ u = MoveState(k2, T2, s2, e2) /\ Clumps(k2, T2, s2, e2, n, First(c, i))
        /\ i < Cardinality(Q) => s2 <= n[c[i + 1]][2]
  OBVIOUS
<1> HIDE DEF u
<1> QED  BY <1>2, <1>3 DEF MovedIn, u

\* A step of the loop moves the string of the next location.
LEMMA MovedOn ==
    ASSUME NEW n, NEW Q, Quals(n, Q),
           NEW c, c \in [1 .. Cardinality(Q) -> Q],
           \A i, j \in DOMAIN c : i < j => n[c[i]][2] <= n[c[j]][2], IsInjective(c),
           NEW i \in Nat, i < Cardinality(Q), NEW u \in MovedIn(n, Q, c, i)
    PROVE  MoveString(u, c[i + 1]) \in MovedIn(n, Q, c, i + 1)
<1> DEFINE N == Cardinality(Q)
           q == c[i + 1]
           P == First(c, i)
           loc == n[q][2]
<1>1. PICK k, T, s, e : /\ u = MoveState(k, T, s, e) /\ Clumps(k, T, s, e, n, P)
                        /\ s <= loc
  BY DEF MovedIn
<1>2. N \in Nat /\ Len(str) \in Nat  BY QualFacts
<1>3. i + 1 \in 1..N /\ \A j \in 1..i : j \in 1..N /\ j # i + 1  BY <1>2
<1>4. DOMAIN c = 1..N /\ q \in Q  BY <1>3
<1>5. q \in Locations /\ n[q] \in Word /\ Is(n[q], "str") /\ InText(n[q], str)
      /\ loc \in Nat /\ loc <= Len(str) + 1 /\ str \in Seq(Chars)
  BY <1>4, QualFacts DEF Quals
<1>6. P \in SUBSET Locations /\ q \notin P
  <2>1. ASSUME NEW j \in 1..i  PROVE c[j] \in Locations /\ c[j] # q
    <3>1. j \in 1..N /\ j # i + 1 /\ i + 1 \in 1..N  BY <1>3
    <3>2. c[j] \in Q  BY <3>1
    <3>3. c[j] # c[i + 1]
      <4> HIDE DEF N
      <4> QED  BY <1>4, <3>1 DEF IsInjective
    <3> QED  BY <3>2, <3>3, QualFacts
  <2> QED  BY <2>1 DEF First
<1>7. First(c, i + 1) = P \cup {q}
  <2>1. \A j : j \in 1 .. i + 1 <=> j \in 1..i \/ j = i + 1  OBVIOUS
  <2>2. \A x : x \in First(c, i + 1) <=> x \in P \/ x = q  BY <2>1, Zenon DEF First
  <2> HIDE DEF P, q
  <2> QED  BY <2>2
<1> HIDE DEF P
<1>8. k[q] = n[q] /\ u.mem = k  BY <1>1, <1>5, <1>6, MoveParts DEF Clumps, Retold
<1>9. PICK U, b, f : /\ Flush(MoveState(k, T, s, e), loc) = MoveState(k, U, b, f)
                     /\ Clumps(k, U, b, f, n, P) /\ b <= loc /\ loc <= f
  <2> HIDE DEF loc
  <2> QED  BY <1>1, <1>5, FlushStep
<1>10. PICK j, g : /\ Extend(MoveState(k, U, b, f), q) = MoveState(j, U, b, g)
                   /\ Clumps(j, U, b, g, n, P \cup {q})
  <2> HIDE DEF q, N
  <2>1. b <= n[q][2] /\ n[q][2] <= f  BY <1>9
  <2>2. q \in Locations /\ n[q] \in Word /\ Is(n[q], "str") /\ InText(n[q], str)
    BY <1>5
  <2>3. str \in Seq(Chars) /\ Clumps(k, U, b, f, n, P) /\ P \in SUBSET Locations /\ q \notin P
    BY <1>5, <1>6, <1>9
  <2> HIDE DEF loc
  <2> QED  BY ONLY <2>1, <2>2, <2>3, ExtendStep
<1>11. MoveString(u, q) = MoveState(j, U, b, g)  BY <1>1, <1>8, <1>9, <1>10 DEF MoveString
<1>12. i + 1 < N => b <= n[c[(i + 1) + 1]][2]
  <2> SUFFICES ASSUME i + 1 < N  PROVE b <= n[c[(i + 1) + 1]][2]
    OBVIOUS
  <2> DEFINE x == (i + 1) + 1
  <2>1. x \in 1..N /\ i + 1 < x /\ i + 1 \in 1..N  BY <1>2
  <2> HIDE DEF x, N
  <2>2. c[x] \in Q /\ loc <= n[c[x]][2]  BY <1>4, <2>1
  <2>3. n[c[x]][2] \in Nat  BY <2>2, QualFacts
  <2>4. b \in Nat  BY <1>9 DEF Clumps
  <2> HIDE DEF loc
  <2>5. b <= n[c[x]][2]  BY <1>5, <1>9, <2>2, <2>3, <2>4
  <2> QED  BY <2>5 DEF x
<1>13. Clumps(j, U, b, g, n, First(c, i + 1))  BY <1>7, <1>10
<1> DEFINE h == i + 1
<1>14. Clumps(j, U, b, g, n, First(c, h)) /\ (h < Cardinality(Q) => b <= n[c[h + 1]][2])
  BY <1>12, <1>13
<1>15. MoveState(j, U, b, g) \in MovedIn(n, Q, c, h)
  <2> HIDE DEF h, q, loc, N
  <2> QED  BY <1>14, InMoved
<1> QED  BY <1>11, <1>15

\* Every string keeps its text, and every character that is left is one of a
\* string.
LEMMA ScollectSome ==
    ASSUME NEW n, NEW Q, Quals(n, Q), Q # {}
    PROVE  /\ Retold(scollect(n, Q).mem, n, Q, scollect(n, Q).str)
           /\ scollect(n, Q).str \in Seq(Chars) /\ Len(scollect(n, Q).str) <= Len(str)
<1> DEFINE N == Cardinality(Q)
           c == Sorted(n, Q)
           first == n[c[1]][2]
           start == MoveState(n, <<>>, first, first)
           In(j) == MovedIn(n, Q, c, j)
           Good == [j \in 0..N |-> In(j)]
           G == [j \in 1..N |-> [u \in In(j - 1) |-> MoveString(u, c[j])]]
           moved[i \in 0..N] == IF i = 0 THEN start ELSE MoveString(moved[i - 1], c[i])
<1>1. N \in Nat /\ IsFiniteSet(Q) /\ Len(str) \in Nat  BY QualFacts
<1>2. scollect(n, Q).mem = moved[N].mem /\ scollect(n, Q).str = Clumped(moved[N])
  BY DEF scollect
<1>3. /\ c \in [1 .. Cardinality(Q) -> Q] /\ Q = {c[i] : i \in DOMAIN c}
      /\ \A i, j \in DOMAIN c : i < j => n[c[i]][2] <= n[c[j]][2]
      /\ IsInjective(c)
  <2> HIDE DEF moved, Good, G, In, start, first, N
  <2> QED  BY SortedFacts
<1> HIDE DEF c
<1>4. N # 0 /\ 1 \in 1..N
  <2>1. N # 0  BY <1>1, FS_EmptySet
  <2> HIDE DEF N
  <2> QED  BY <1>1, <2>1
<1>5. c[1] \in Q  BY <1>3, <1>4
<1>6. first \in Nat /\ first >= 1 /\ first <= Len(str) + 1 /\ str \in Seq(Chars)
      /\ n \in [Locations -> Word]
  BY <1>5, QualFacts DEF Quals
<1>7. start \in In(0)
  <2> HIDE DEF first
  <2>1. First(c, 0) = {}
    <3>1. 1..0 = {}  OBVIOUS
    <3> QED  BY <3>1 DEF First
  <2>2. Clump(<<>>, first, first) = <<>>
    <3>1. SubSeq(str, first, first - 1) = <<>>  BY <1>6
    <3> QED  BY <3>1 DEF Clump
  <2>3. <<>> \in Seq(Chars) /\ Len(<<>>) = 0 /\ Len(<<>>) < first /\ 1..0 = {}  BY <1>6
  <2>4. Retold(n, n, {}, <<>>)  BY <1>6, <2>3 DEF Retold
  <2>5. first <= first /\ 1 <= first  BY <1>6
  <2>6. Clumps(n, <<>>, first, first, n, First(c, 0))  BY <1>6, <2>1, <2>2, <2>3, <2>4, <2>5 DEF Clumps
  <2>7. 0 < Cardinality(Q) => first <= n[c[0 + 1]][2]
    <3>1. 0 + 1 = 1  OBVIOUS
    <3>2. first <= n[c[1]][2]  BY <1>6 DEF first
    <3> QED  BY <3>1, <3>2
  <2> HIDE DEF moved, Good, G
  <2> QED  BY <2>6, <2>7, InMoved
<1> HIDE DEF start
<1>8. \A j \in 1..N : \A u \in In(j - 1) : MoveString(u, c[j]) \in In(j)
  <2> HIDE DEF Good, G, moved
  <2> SUFFICES ASSUME NEW j \in 1..N, NEW u \in In(j - 1)  PROVE MoveString(u, c[j]) \in In(j)
    OBVIOUS
  <2> DEFINE i == j - 1
  <2>1. i \in Nat /\ i < Cardinality(Q) /\ i + 1 = j /\ u \in MovedIn(n, Q, c, i)  BY <1>1
  <2> HIDE DEF i, In, N
  <2>2. MoveString(u, c[i + 1]) \in MovedIn(n, Q, c, i + 1)  BY <1>3, <2>1, MovedOn
  <2> QED  BY <2>1, <2>2 DEF In
<1> HIDE DEF In, N
<1>9. \A j \in 1..N : \A u \in Good[j - 1] : G[j][u] \in Good[j]
  <2> SUFFICES ASSUME NEW j \in 1..N, NEW u \in Good[j - 1]  PROVE G[j][u] \in Good[j]
    OBVIOUS
  <2>1. j \in 0..N /\ j - 1 \in 0..N /\ j - 1 \in Nat /\ (j - 1) + 1 = j  BY <1>1
  <2>2. u \in In(j - 1)  BY <2>1
  <2>3. MoveString(u, c[j]) \in In(j)  BY <1>8, <2>1, <2>2
  <2> QED  BY <2>1, <2>2, <2>3
<1>10. start \in Good[0]  BY <1>1, <1>7
<1>11. PICK f : Loop(f, N, start, G) /\ \A j \in 0..N : f[j] \in Good[j]
  <2> HIDE DEF Good, G, moved
  <2> QED  BY <1>1, <1>9, <1>10, LoopExists
<1>12. \A j \in 0..N : f[j] \in In(j)  BY <1>11
<1>13. f = [h \in 0..N |-> IF h = 0 THEN start ELSE MoveString(f[h - 1], c[h])]
  <2>1. \A j \in 0..N : f[j] = IF j = 0 THEN start ELSE MoveString(f[j - 1], c[j])
    <3> SUFFICES ASSUME NEW j \in 0..N, j # 0  PROVE f[j] = MoveString(f[j - 1], c[j])
      BY <1>11 DEF Loop
    <3>1. j \in 1..N /\ j - 1 \in 0..N  BY <1>1
    <3>2. f[j] = G[j][f[j - 1]]  BY <1>11 DEF Loop
    <3> QED  BY <1>12, <3>1, <3>2
  <2>2. f = [j \in 0..N |-> f[j]]  BY <1>11 DEF Loop
  <2> QED  BY <2>1, <2>2
<1>14. moved = [h \in 0..N |-> IF h = 0 THEN start ELSE MoveString(moved[h - 1], c[h])]
  BY <1>13 DEF moved
<1> HIDE DEF moved, Good, G
<1>15. moved[N] \in In(N)
  <2> DEFINE S == {j \in 0..N : moved[j] \in In(j)}
  <2>1. 0 \in S  BY <1>1, <1>7, <1>14
  <2>2. \A j \in 1..N : j - 1 \in S => j \in S
    <3> SUFFICES ASSUME NEW j \in 1..N, j - 1 \in S  PROVE j \in S
      OBVIOUS
    <3>1. moved[j - 1] \in In(j - 1) /\ j \in 0..N /\ j # 0 /\ j - 1 \in Nat /\ (j - 1) + 1 = j
      BY <1>1
    <3>2. moved[j] = MoveString(moved[j - 1], c[j])  BY <1>14, <3>1
    <3>3. MoveString(moved[j - 1], c[j]) \in In(j)  BY <1>8, <3>1
    <3> QED  BY <3>1, <3>2, <3>3
  <2>3. \A j \in 0..N : j \in S
    <3> HIDE DEF S
    <3> QED  BY <1>1, <2>1, <2>2, Climb
  <2> QED  BY <1>1, <2>3
<1>16. PICK k, T, s, e : /\ moved[N] = MoveState(k, T, s, e)
                         /\ Clumps(k, T, s, e, n, First(c, N))
  BY <1>15 DEF In, MovedIn
<1>17. First(c, N) = Q  BY <1>3 DEF First, N
<1>18. /\ T \in Seq(Chars) /\ s \in Nat /\ e \in Nat
       /\ 1 <= s /\ s <= e /\ e <= Len(str) + 1 /\ Len(T) < s
       /\ Retold(k, n, Q, Clump(T, s, e))
  BY <1>16, <1>17 DEF Clumps
<1>19. /\ Clump(T, s, e) \in Seq(Chars) /\ Len(Clump(T, s, e)) = Len(T) + (e - s)
       /\ Len(T) \in Nat
  <2> HIDE DEF first
  <2> QED  BY <1>6, <1>18, ClumpFacts
<1>20. Len(Clump(T, s, e)) <= Len(str)  BY <1>1, <1>18, <1>19
<1>21. moved[N].mem = k /\ Clumped(moved[N]) = Clump(T, s, e)  BY <1>16, MoveParts
<1> QED  BY <1>2, <1>18, <1>19, <1>20, <1>21

LEMMA ScollectEnd ==
    ASSUME NEW n, NEW Q, Quals(n, Q)
    PROVE  /\ Retold(scollect(n, Q).mem, n, Q, scollect(n, Q).str)
           /\ scollect(n, Q).str \in Seq(Chars) /\ Len(scollect(n, Q).str) <= Len(str)
<1>0. CASE Q = {}
  <2>1. scollect(n, Q).mem = n /\ scollect(n, Q).str = <<>>  BY <1>0 DEF scollect
  <2>2. <<>> \in Seq(Chars) /\ Len(<<>>) = 0 /\ Len(str) \in Nat /\ 1..0 = {}  BY QualFacts
  <2>3. Retold(n, n, Q, <<>>)  BY <1>0, <2>2 DEF Retold, Quals
  <2> QED  BY <2>1, <2>2, <2>3
<1>1. CASE Q # {}  BY <1>1, ScollectSome
<1> QED  BY <1>0, <1>1

-----------------------------------------------------------------------------
(* Memories with the same blocks *)

\* M has the titles of m below the free pointers fr.
SameTitles(M, m, fr) ==
    \A l \in Used(fr) : /\ Is(M[l], "title") <=> Is(m[l], "title")
                        /\ Is(m[l], "title") => M[l] = m[l]

LEMMA TiledRegion ==
    ASSUME NEW m, NEW fr, Shape(m, fr), NEW p \in Regions, NEW M,
           \A a \in RegionBase[p] .. fr[p] - 1 : /\ Is(M[a], "title") <=> Is(m[a], "title")
                                                 /\ Is(m[a], "title") => M[a] = m[a]
    PROVE  TiledTo(M, p, fr[p])
<1>1. fr[p] \in Nat /\ RegionBase[p] \in Nat /\ RegionBase[p] <= fr[p] /\ Fits(fr)
  BY CollectorAssumption DEF Shape, Fits
<1>2. TiledTo(m, p, fr[p])  BY DEF Shape, Tiled
<1>3. ASSUME RegionBase[p] # fr[p]  PROVE Is(M[RegionBase[p]], "title")
  <2>1. RegionBase[p] \in RegionBase[p] .. fr[p] - 1  BY <1>1, <1>3
  <2>2. Is(m[RegionBase[p]], "title")  BY <1>2, <1>3 DEF TiledTo
  <2> QED  BY <2>1, <2>2
<1>4. ASSUME NEW a \in RegionBase[p] .. fr[p] - 1, Is(M[a], "title")
      PROVE  /\ a + BlkSize(M[a][2]) <= fr[p]
             /\ \/ a + BlkSize(M[a][2]) = fr[p]
                \/ Is(M[a + BlkSize(M[a][2])], "title")
             /\ \A b \in a + 1 .. a + BlkSize(M[a][2]) - 1 : ~ Is(M[b], "title")
  <2> DEFINE n == BlkSize(M[a][2])
  <2>1. Is(m[a], "title") /\ M[a] = m[a]  BY <1>4
  <2>2. /\ a + n <= fr[p] /\ (a + n = fr[p] \/ Is(m[a + n], "title"))
        /\ \A b \in a + 1 .. a + n - 1 : ~ Is(m[b], "title")
    BY <1>2, <2>1 DEF TiledTo
  <2>4. a \in Int /\ n \in Nat
    <3>1. Within(p, fr, a) /\ a \in Int  BY <1>1 DEF Within
    <3>3. a \in Used(fr)  BY <1>1, <3>1, WithinWords
    <3>4. a \in Blocks(m, fr)  BY <2>1, <3>3 DEF Blocks
    <3> HIDE DEF n
    <3>5. BlkSize(m[a][2]) \in Nat  BY <3>4, BlockFacts
    <3> QED  BY <2>1, <3>1, <3>5 DEF n
  <2> HIDE DEF n
  <2>5. ASSUME a + n # fr[p]  PROVE Is(M[a + n], "title")
    <3> DEFINE b == a + n
    <3>1. b \in RegionBase[p] .. fr[p] - 1  BY <1>1, <2>2, <2>4, <2>5
    <3>2. Is(m[b], "title")  BY <2>2, <2>5
    <3> HIDE DEF b
    <3>3. Is(M[b], "title")  BY <3>1, <3>2
    <3> QED  BY <3>3 DEF b
  <2>6. ASSUME NEW b \in a + 1 .. a + n - 1  PROVE ~ Is(M[b], "title")
    <3>1. b \in RegionBase[p] .. fr[p] - 1  BY <1>1, <2>2, <2>4
    <3> QED  BY <2>2, <3>1
  <2> QED  BY <2>2, <2>5, <2>6 DEF n
<1> QED  BY <1>3, <1>4 DEF TiledTo

LEMMA TiledToo ==
    ASSUME NEW m, NEW fr, Shape(m, fr), NEW M, SameTitles(M, m, fr)
    PROVE  Tiled(M, fr) /\ Blocks(M, fr) = Blocks(m, fr)
<1>1. Blocks(M, fr) = Blocks(m, fr)  BY DEF Blocks, SameTitles
<1>2. ASSUME NEW p \in Regions  PROVE TiledTo(M, p, fr[p])
  <2>1. ASSUME NEW a \in RegionBase[p] .. fr[p] - 1
        PROVE  /\ Is(M[a], "title") <=> Is(m[a], "title")
               /\ Is(m[a], "title") => M[a] = m[a]
    <3>1. fr[p] \in Nat /\ RegionBase[p] \in Nat /\ Fits(fr)
      BY CollectorAssumption DEF Shape, Fits
    <3>2. Within(p, fr, a) /\ a \in Int  BY <3>1 DEF Within
    <3>3. a \in Used(fr)  BY <3>1, <3>2, WithinWords
    <3> QED  BY <3>3 DEF SameTitles
  <2> QED  BY <2>1, TiledRegion
<1> QED  BY <1>1, <1>2 DEF Tiled

\* The memory m with the words at Q as in K.
Relocated(m, K, Q) == [l \in Locations |-> IF l \in Q THEN K[l] ELSE m[l]]

\* Chains do not change when the strings of qualifiers move.
LEMMA Retext ==
    ASSUME NEW m, Shape(m, free), NEW L \in SUBSET Blocks(m, free),
           Targets(m, Slots(m, L)) \subseteq L,
           NEW Q, Q \subseteq {l \in Slots(m, L) : Is(m[l], "str")},
           NEW n, NEW pos, Threads(n, m, Slots(m, L), pos),
           NEW K, NEW T, Retold(K, n, Q, T)
    PROVE  \E M : /\ Retold(M, m, Q, T)
                  /\ Shape(M, free) /\ Blocks(M, free) = Blocks(m, free)
                  /\ \A a \in Blocks(m, free) : M[a] = m[a]
                  /\ \A l \in Locations : l \notin Q => M[l] = m[l]
                  /\ \A X \in SUBSET L :
                       /\ Slots(M, X) = Slots(m, X)
                       /\ Targets(M, Slots(m, X)) = Targets(m, Slots(m, X))
                  /\ Threads(K, M, Slots(m, L), pos)
<1> DEFINE V == Slots(m, L)
           M == Relocated(m, K, Q)
<1>1. /\ M \in [Locations -> {M[l] : l \in Locations}]
      /\ \A l \in Locations : l \notin Q => M[l] = m[l]
      /\ \A l \in Locations : l \in Q => M[l] = K[l]
  BY DEF Relocated
<1>2. /\ m \in [Locations -> Word] /\ Fits(free) /\ K \in [Locations -> Word]
      /\ n \in [Locations -> Word]
  BY DEF Shape, Retold, Threads
<1> HIDE DEF M
<1>3. \A l \in Q : l \in V /\ Is(m[l], "str") /\ l \in Locations /\ l \notin Blocks(m, free)
  BY SlotFacts
<1>4. V \in SUBSET Locations  BY SlotFacts
<1> HIDE DEF V
<1>5. \A l \in Q : ~ Is(m[l], "ref") /\ ~ Is(m[l], "title") /\ ~ Is(m[l], "marked")
  BY <1>3, OneKind
<1>6. ASSUME NEW l \in Q  PROVE n[l] = m[l]
  <2>1. ~ Threaded(m, l)  BY <1>5 DEF Threaded
  <2> QED  BY <1>3, <2>1 DEF Threads, V
<1>7. ASSUME NEW l \in Q  PROVE Placed(M[l], m[l], T) /\ Is(M[l], "str")
  <2>1. Placed(K[l], n[l], T)  BY DEF Retold
  <2>2. Placed(M[l], m[l], T)  BY <1>1, <1>3, <1>6, <2>1
  <2>3. Is(M[l], "str")
    <3>1. M[l] = Str(M[l][2], m[l][3])  BY <2>2 DEF Placed
    <3> QED  BY <3>1, KindsOfWords
  <2> QED  BY <2>2, <2>3
<1>8. \A l \in Q : ~ Is(M[l], "ref") /\ ~ Is(M[l], "title") /\ ~ Is(M[l], "marked")
  BY <1>7, OneKind
<1>9. M \in [Locations -> Word]
  <2>1. \A l \in Locations : M[l] \in Word  BY <1>1, <1>2
  <2> QED  BY <1>1, <2>1
<1>10. Retold(M, m, Q, T)
  <2>1. \A l \in Locations \ Q : M[l] = m[l]  BY <1>1
  <2>2. ASSUME NEW x \in 1 .. Len(T)  PROVE \E l \in Q : M[l][2] <= x /\ x < M[l][2] + m[l][3]
    <3>1. PICK l \in Q : K[l][2] <= x /\ x < K[l][2] + n[l][3]  BY DEF Retold
    <3>2. M[l] = K[l] /\ n[l] = m[l]  BY <1>1, <1>3, <1>6
    <3> QED  BY <3>1, <3>2
  <2> QED  BY <1>7, <1>9, <2>1, <2>2 DEF Retold
<1>11. /\ \A l \in Locations : ~ Is(M[l], "marked")
       /\ \A r \in Roots : ~ Is(M[r], "title")
       /\ SameTitles(M, m, free)
  <2>1. \A l \in Used(free) : l \in Locations  BY DEF Used, Locations
  <2>2. \A r \in Roots : r \in Locations  BY DEF Locations
  <2> QED  BY <1>1, <1>5, <1>8, <2>1, <2>2 DEF SameTitles, Shape
<1>12. Tiled(M, free) /\ Blocks(M, free) = Blocks(m, free)  BY <1>11, TiledToo
<1>13. Shape(M, free)  BY <1>2, <1>9, <1>11, <1>12 DEF Shape
<1>14. \A a \in Blocks(m, free) : M[a] = m[a] /\ a \in Locations  BY <1>1, <1>3, BlockFacts
<1>15. \A X \in SUBSET L : Slots(M, X) = Slots(m, X) /\ Slots(m, X) \subseteq V
  <2> SUFFICES ASSUME NEW X \in SUBSET L
               PROVE  Slots(M, X) = Slots(m, X) /\ Slots(m, X) \subseteq V
    OBVIOUS
  <2>1. \A a \in X : M[a] = m[a]  BY <1>14
  <2>2. Slots(M, X) = Slots(m, X)  BY <2>1 DEF Slots
  <2>3. Slots(m, X) \subseteq V  BY Onward DEF V
  <2> QED  BY <2>2, <2>3
<1>16. /\ \A l \in Locations : Is(M[l], "ref") <=> Is(m[l], "ref")
       /\ \A l \in Locations : Is(m[l], "ref") => M[l] = m[l]
  BY <1>1, <1>5, <1>8
<1>17. \A X \in SUBSET L : Targets(M, Slots(m, X)) = Targets(m, Slots(m, X))
  <2> SUFFICES ASSUME NEW U \in SUBSET V  PROVE Targets(M, U) = Targets(m, U)
    BY <1>15
  <2>1. \A l \in U : (Is(M[l], "ref") <=> Is(m[l], "ref")) /\ (Is(m[l], "ref") => M[l] = m[l])
    BY <1>4, <1>16
  <2> QED  BY <2>1 DEF Targets
<1>18. \A a : Refs(M, V, a) = Refs(m, V, a)
  <2>1. ASSUME NEW a, NEW l \in V  PROVE M[l] = Ref(a) <=> m[l] = Ref(a)
    <3>1. Is(Ref(a), "ref")  BY KindsOfWords
    <3> QED  BY <1>4, <1>16, <3>1
  <2> QED  BY <2>1 DEF Refs
<1>19. \A l \in V : Threaded(M, l) <=> Threaded(m, l)  BY <1>4, <1>16 DEF Threaded
<1>20. \A l \in V : Threaded(m, l) => M[l] = m[l] /\ l \notin Q
  BY <1>4, <1>5, <1>16 DEF Threaded
<1>21. \A l \in Locations : l \notin Q => K[l] = n[l]  BY DEF Retold
<1>22. Threads(n, m, V, pos)  BY DEF V
<1>23. ASSUME NEW l \in V, Threaded(M, l)
       PROVE  K[l] = Top(Below(Refs(M, V, M[l][2]), pos, l), pos, M[M[l][2]])
  <2>1. Threaded(m, l) /\ M[l] = m[l] /\ K[l] = n[l]  BY <1>4, <1>19, <1>20, <1>21, <1>23
  <2>2. n[l] = Top(Below(Refs(m, V, m[l][2]), pos, l), pos, m[m[l][2]])
    BY <1>22, <2>1 DEF Threads
  <2>3. Refs(M, V, M[l][2]) = Refs(m, V, m[l][2])  BY <1>18, <2>1
  <2>4. M[m[l][2]] = m[m[l][2]]
    <3>1. m[l][2] \in Targets(m, V)  BY <2>1 DEF Threaded, Targets
    <3>2. m[l][2] \in Blocks(m, free)  BY <3>1 DEF V
    <3> QED  BY <1>14, <3>2
  <2> QED  BY <2>1, <2>2, <2>3, <2>4
<1>24. ASSUME NEW a \in Blocks(M, free)
       PROVE  K[a] = IF Refs(M, V, a) = {} THEN M[a]
                     ELSE IF InRegion(curblock, a) THEN Top(Refs(M, V, a), pos, M[a])
                     ELSE Marked(M[a][2])
  <2>1. a \in Blocks(m, free) /\ M[a] = m[a] /\ K[a] = n[a]  BY <1>3, <1>12, <1>14, <1>21
  <2>2. Refs(M, V, a) = Refs(m, V, a)  BY <1>18
  <2> QED  BY <1>22, <2>1, <2>2 DEF Threads
<1>25. ASSUME NEW l \in Locations, l \notin Blocks(M, free), ~(l \in V /\ Threaded(M, l))
       PROVE  K[l] = M[l]
  <2>1. CASE l \in Q  BY <1>1, <2>1
  <2>2. CASE l \notin Q
    <3>1. K[l] = n[l] /\ M[l] = m[l]  BY <1>1, <1>21, <2>2
    <3>2. n[l] = m[l]  BY <1>12, <1>19, <1>22, <1>25 DEF Threads
    <3> QED  BY <3>1, <3>2
  <2> QED  BY <2>1, <2>2
<1>26. Threads(K, M, V, pos)  BY <1>2, <1>23, <1>24, <1>25 DEF Threads
<1> QED  BY <1>1, <1>10, <1>12, <1>13, <1>14, <1>15, <1>17, <1>26 DEF V

\* What adjust() starts with.
LEMMA FromBase ==
    ASSUME NEW M, Shape(M, free), curblock \in Regions, NEW V \in SUBSET Locations,
           Targets(M, V) \subseteq Blocks(M, free), NEW K, NEW pos, Threads(K, M, V, pos), NEW to
    PROVE  Thread(K, M, V, pos, Base, to) /\ Start(M, Base)
<1>1. Base \in Nat /\ End \in Nat /\ Base <= End  BY Bounds
<1>2. \A a \in Blocks(M, free) : a \in Nat  BY BlockFacts
<1>3. \A l \in V : Threaded(M, l) => ~(M[l][2] < Base)
  <2> SUFFICES ASSUME NEW l \in V, Threaded(M, l)  PROVE ~(M[l][2] < Base)
    OBVIOUS
  <2>1. M[l][2] \in Targets(M, V)  BY DEF Threaded, Targets
  <2>2. M[l][2] \in Nat /\ Base <= M[l][2]  BY <1>2, <2>1 DEF Threaded, InRegion, Base
  <2> QED  BY <1>1, <2>2
<1>4. \A a \in Blocks(M, free) : InRegion(curblock, a) => a >= Base
  BY <1>1, <1>2 DEF InRegion, Base
<1>5. Thread(K, M, V, pos, Base, to)
  <2>1. \A l \in V : Threaded(M, l) =>
          K[l] = IF M[l][2] < Base THEN Ref(to[M[l][2]])
                 ELSE Top(Below(Refs(M, V, M[l][2]), pos, l), pos, M[M[l][2]])
    BY <1>3 DEF Threads
  <2>2. \A a \in Blocks(M, free) :
          K[a] = IF Refs(M, V, a) = {} THEN M[a]
                 ELSE IF InRegion(curblock, a) /\ a >= Base THEN Top(Refs(M, V, a), pos, M[a])
                 ELSE Marked(M[a][2])
    BY <1>4 DEF Threads
  <2> QED  BY <2>1, <2>2 DEF Thread, Threads
<1>6. Start(M, Base)
  <2>1. CASE Base = End  BY <2>1 DEF Start
  <2>2. CASE Base # End
    <3>1. Is(M[Base], "title")  BY <2>2 DEF Shape, Tiled, TiledTo, Base, End
    <3>2. Within(curblock, free, Base) /\ InRegion(curblock, Base)
      BY <1>1, <2>2 DEF Within, InRegion, Base, End
    <3>3. Fits(free) /\ Base \in Int  BY <1>1 DEF Shape
    <3>4. Base \in Used(free)  BY <3>2, <3>3, WithinWords
    <3> QED  BY <3>1, <3>2, <3>4 DEF Start, Blocks
  <2> QED  BY <2>1, <2>2
<1> QED  BY <1>5, <1>6

\* What compact() starts with.
LEMMA AdjustedBy ==
    ASSUME NEW M, Shape(M, free), curblock \in Regions, NEW V \in SUBSET Locations,
           NEW A, NEW pos, NEW to, Thread(A, M, V, pos, End, to)
    PROVE  Adjusted(A, M, Targets(M, V))
<1>1. End \in Nat  BY Bounds
<1>2. ASSUME NEW a \in Blocks(M, free), InRegion(curblock, a)
      PROVE  A[a] = IF a \in Targets(M, V) THEN Marked(M[a][2]) ELSE M[a]
  <2>1. a \in Nat /\ a < End  BY <1>2, BlockFacts DEF InRegion, End
  <2>2. ~(a >= End)  BY <1>1, <2>1
  <2>3. A[a] = IF Refs(M, V, a) = {} THEN M[a] ELSE Marked(M[a][2])  BY <2>2 DEF Thread
  <2>4. M \in [Locations -> Word]  BY DEF Shape
  <2>5. Refs(M, V, a) # {} <=> a \in Targets(M, V)  BY <2>4, RefsIn
  <2> QED  BY <2>3, <2>5
<1> QED  BY <1>2 DEF Adjusted, Thread

-----------------------------------------------------------------------------
(* After a collection *)

\* Where the block at a is moved.
At(to, a) == IF InRegion(curblock, a) THEN to[a] ELSE a

\* What the word w becomes.
Sent(to, w) == IF Is(w, "ref") THEN Ref(At(to, w[2])) ELSE w

\* F is the memory M after a collection of which the blocks at L are the
\* survivors.
Collected(F, M, L, to) ==
    /\ F \in [Locations -> Word]
    /\ \A l \in Locations : ~ Is(F[l], "marked")
    /\ \A r \in Roots : F[r] = Sent(to, M[r])
    /\ \A a \in L :
         /\ F[At(to, a)] = M[a]
         /\ \A j \in 1 .. BlkSize(M[a][2]) - 1 :
              F[At(to, a) + j] = IF a + j \in Slots(M, L) THEN Sent(to, M[a + j]) ELSE M[a + j]
    /\ \A w \in Used(free) : w \notin Base .. End - 1 =>
         /\ Is(F[w], "title") <=> Is(M[w], "title")
         /\ Is(M[w], "title") => F[w] = M[w]

\* The words of a block of another region.
LEMMA OtherRegion ==
    ASSUME NEW m, Shape(m, free), curblock \in Regions, NEW a \in Blocks(m, free),
           ~ InRegion(curblock, a), NEW w \in BlockAt(m, a)
    PROVE  w \notin Base .. End - 1
<1> SUFFICES ASSUME w \in Base .. End - 1  PROVE FALSE
  OBVIOUS
<1>1. Base \in Nat /\ End \in Nat /\ Base <= End /\ Fits(free)  BY Bounds DEF Shape
<1>2. a \in Nat /\ w \in Nat /\ a <= w /\ w < a + BlkSize(m[a][2]) /\ BlkSize(m[a][2]) \in Nat
  BY InBlock, BlockFacts
<1>3. PICK p \in Regions : Within(p, free, a) /\ a + BlkSize(m[a][2]) <= free[p]  BY BlockFacts
<1>4. free[p] \in Nat /\ RegionBase[p] \in Nat /\ RegionEnd[curblock] \in Nat
      /\ free[curblock] <= RegionEnd[curblock]
  BY <1>1, CollectorAssumption DEF Fits
<1>5. Within(p, free, w)
  <2> DEFINE n == BlkSize(m[a][2])
  <2>1. n \in Nat /\ w < a + n /\ a + n <= free[p]  BY <1>2, <1>3
  <2> HIDE DEF n
  <2> QED  BY <1>2, <1>3, <1>4, <2>1 DEF Within
<1>6. RegionBase[curblock] <= w /\ w < RegionEnd[curblock] /\ w \in Int
  BY <1>1, <1>2, <1>4 DEF Base, End
<1>7. p = curblock  BY <1>1, <1>5, <1>6, OneRegion
<1> QED  BY <1>3, <1>7 DEF Within, InRegion

LEMMA SentKinds ==
    ASSUME NEW to, NEW w \in Word
    PROVE  /\ ~ Is(w, "marked") => ~ Is(Sent(to, w), "marked")
           /\ ~ Is(w, "title") => ~ Is(Sent(to, w), "title")
           /\ Is(w, "ref") <=> Is(Sent(to, w), "ref")
           /\ ~ Is(w, "ref") => Sent(to, w) = w
           /\ Is(w, "ref") => Sent(to, w) = Ref(At(to, w[2])) /\ Sent(to, w)[2] = At(to, w[2])
<1>1. Is(w, "ref") => /\ Is(Sent(to, w), "ref") /\ Sent(to, w) = Ref(At(to, w[2]))
                      /\ Sent(to, w)[2] = At(to, w[2])
  BY KindsOfWords DEF Sent
<1>2. Is(w, "ref") => ~ Is(Sent(to, w), "marked") /\ ~ Is(Sent(to, w), "title")  BY <1>1, OneKind
<1>3. ~ Is(w, "ref") => Sent(to, w) = w  BY DEF Sent
<1> QED  BY <1>1, <1>2, <1>3

\* After adjust() the references are those to where the blocks will be.
LEMMA ThreadEnd ==
    ASSUME NEW M, Shape(M, free), curblock \in Regions, NEW L \in SUBSET Blocks(M, free),
           Targets(M, Slots(M, L)) = L,
           NEW A, NEW pos, NEW to, Thread(A, M, Slots(M, L), pos, End, to)
    PROVE  /\ A \in [Locations -> Word]
           /\ \A l \in Slots(M, L) : A[l] = Sent(to, M[l])
           /\ \A a \in Blocks(M, free) : A[a] = IF a \in L THEN Marked(M[a][2]) ELSE M[a]
           /\ \A l \in Locations : l \notin Blocks(M, free) /\ l \notin Slots(M, L) => A[l] = M[l]
<1> DEFINE V == Slots(M, L)
<1>1. End \in Nat  BY Bounds
<1>2. M \in [Locations -> Word]  BY DEF Shape
<1>3. \A l \in V : l \in Locations /\ l \notin Blocks(M, free)  BY SlotFacts
<1>4. Thread(A, M, V, pos, End, to) /\ Targets(M, V) = L  OBVIOUS
<1> HIDE DEF V
<1>5. ASSUME NEW l \in V  PROVE A[l] = Sent(to, M[l])
  <2>1. CASE Threaded(M, l)
    <3>1. Is(M[l], "ref") /\ InRegion(curblock, M[l][2])  BY <2>1 DEF Threaded
    <3>2. M[l][2] < End  BY <3>1 DEF InRegion, End
    <3>3. A[l] = Ref(to[M[l][2]])  BY <1>4, <2>1, <3>2 DEF Thread
    <3> QED  BY <3>1, <3>3 DEF Sent, At
  <2>2. CASE ~ Threaded(M, l)
    <3>1. A[l] = M[l]  BY <1>3, <1>4, <2>2 DEF Thread
    <3>2. CASE Is(M[l], "ref")
      <4>1. ~ InRegion(curblock, M[l][2])  BY <2>2, <3>2 DEF Threaded
      <4>2. M[l] = Ref(M[l][2])  BY <1>2, <1>3, <3>2, WordKinds
      <4> QED  BY <3>1, <3>2, <4>1, <4>2 DEF Sent, At
    <3>3. CASE ~ Is(M[l], "ref")  BY <3>1, <3>3 DEF Sent
    <3> QED  BY <3>2, <3>3
  <2> QED  BY <2>1, <2>2
<1>6. ASSUME NEW a \in Blocks(M, free)
      PROVE  A[a] = IF a \in L THEN Marked(M[a][2]) ELSE M[a]
  <2>1. V \in SUBSET Locations  BY <1>3
  <2>2. Refs(M, V, a) # {} <=> a \in L  BY <1>2, <1>4, <2>1, RefsIn
  <2>3. ~(InRegion(curblock, a) /\ a >= End)
    <3>1. a \in Nat  BY BlockFacts
    <3> QED  BY <1>1, <3>1 DEF InRegion, End
  <2> QED  BY <1>4, <2>2, <2>3 DEF Thread
<1>7. \A l \in Locations : l \notin Blocks(M, free) /\ l \notin V => A[l] = M[l]
  BY <1>4 DEF Thread
<1>8. A \in [Locations -> Word]  BY <1>4 DEF Thread
<1> QED  BY <1>5, <1>6, <1>7, <1>8 DEF V

\* The marks are turned off.
LEMMA UnmarkFacts ==
    ASSUME NEW b \in [Locations -> Word], \A r \in Roots : ~ Is(b[r], "marked")
    PROVE  /\ Unmark(b) \in [Locations -> Word]
           /\ \A l \in Locations :
                /\ ~ Is(b[l], "marked") => Unmark(b)[l] = b[l]
                /\ Is(b[l], "marked") => Unmark(b)[l] = Title(b[l][2])
                /\ ~ Is(Unmark(b)[l], "marked")
<1> DEFINE F == Unmark(b)
<1>1. F = [a \in Locations |-> IF a \in Words /\ Is(b[a], "marked") THEN Title(b[a][2]) ELSE b[a]]
  BY DEF Unmark
<1>2. \A l \in Locations :
        F[l] = IF l \in Words /\ Is(b[l], "marked") THEN Title(b[l][2]) ELSE b[l]
  BY <1>1
<1>3. F = [l \in Locations |-> F[l]]  BY <1>1
<1> HIDE DEF F
<1>4. ASSUME NEW l \in Locations
      PROVE  /\ F[l] \in Word
             /\ ~ Is(b[l], "marked") => F[l] = b[l]
             /\ Is(b[l], "marked") => F[l] = Title(b[l][2])
             /\ ~ Is(F[l], "marked")
  <2>1. b[l] \in Word  OBVIOUS
  <2>2. CASE Is(b[l], "marked")
    <3>1. l \in Words  BY <2>2 DEF Locations
    <3>2. F[l] = Title(b[l][2]) /\ b[l][2] \in Types  BY <1>2, <2>1, <2>2, <3>1, WordKinds
    <3>3. F[l] \in Word /\ Is(F[l], "title")  BY <3>2, KindsOfWords
    <3>4. ~ Is(F[l], "marked")  BY <3>3, OneKind
    <3> QED  BY <2>2, <3>2, <3>3, <3>4
  <2>3. CASE ~ Is(b[l], "marked")  BY <1>2, <2>1, <2>3
  <2> QED  BY <2>2, <2>3
<1>5. F \in [Locations -> Word]  BY <1>3, <1>4
<1> QED  BY <1>4, <1>5 DEF F

LEMMA CollectedBy ==
    ASSUME NEW M, Shape(M, free), curblock \in Regions, NEW L \in SUBSET Blocks(M, free),
           Targets(M, Slots(M, L)) = L,
           NEW to, Slides(to, M, L),
           NEW A, NEW pos, Thread(A, M, Slots(M, L), pos, End, to),
           NEW b, Compacted(b, A, M, L, to, End)
    PROVE  Collected(Unmark(b), M, L, to)
<1> DEFINE V == Slots(M, L)
           F == Unmark(b)
<1>1. /\ A \in [Locations -> Word]
      /\ \A l \in V : A[l] = Sent(to, M[l])
      /\ \A a \in Blocks(M, free) : A[a] = IF a \in L THEN Marked(M[a][2]) ELSE M[a]
      /\ \A l \in Locations : l \notin Blocks(M, free) /\ l \notin V => A[l] = M[l]
  <2> HIDE DEF F
  <2> QED  BY ThreadEnd
<1>2. /\ b \in [Locations -> Word]
      /\ \A a \in L : InRegion(curblock, a) /\ a < End =>
           /\ b[to[a]] = M[a]
           /\ \A j \in 1 .. BlkSize(M[a][2]) - 1 : b[to[a] + j] = A[a + j]
      /\ \A l \in Locations : l \notin Base .. End - 1 => b[l] = A[l]
  BY DEF Compacted
<1>3. Base \in Nat /\ End \in Nat /\ Fits(free) /\ M \in [Locations -> Word]
      /\ \A l \in Locations : ~ Is(M[l], "marked")
      /\ \A r \in Roots : ~ Is(M[r], "title")
  BY Bounds DEF Shape
<1>4. \A l \in V : l \in Locations /\ l \notin Blocks(M, free)  BY SlotFacts
<1>5. \A l : Roots \subseteq V  BY DEF Slots
<1>6. \A w \in Base .. End - 1 : w \in Words
  <2> SUFFICES ASSUME NEW w \in Base .. End - 1  PROVE w \in Words
    OBVIOUS
  <2>1. Within(curblock, free, w) /\ w \in Int  BY <1>3 DEF Within, Base, End
  <2> QED  BY <1>3, <2>1, WithinWords
<1> HIDE DEF V
\* A word that is not the title of a block.
<1>7. ASSUME NEW l \in Locations, l \notin Blocks(M, free)
      PROVE  /\ A[l] = IF l \in V THEN Sent(to, M[l]) ELSE M[l]
             /\ ~ Is(A[l], "marked") /\ (~ Is(M[l], "title") => ~ Is(A[l], "title"))
  <2>1. A[l] = IF l \in V THEN Sent(to, M[l]) ELSE M[l]  BY <1>1, <1>7
  <2>2. M[l] \in Word /\ ~ Is(M[l], "marked")  BY <1>3
  <2> QED  BY <2>1, <2>2, SentKinds
<1>8. ASSUME NEW r \in Roots
      PROVE  r \in Locations /\ b[r] = Sent(to, M[r]) /\ ~ Is(b[r], "marked")
  <2>1. r \in Locations /\ r \in V /\ r \notin Blocks(M, free)
    BY <1>4, <1>5 DEF Locations
  <2>2. r \notin Base .. End - 1  BY <1>6, WordsFacts
  <2>3. b[r] = A[r]  BY <1>2, <2>1, <2>2
  <2> QED  BY <1>7, <2>1, <2>3
<1>9. /\ F \in [Locations -> Word]
      /\ \A l \in Locations :
           /\ ~ Is(b[l], "marked") => F[l] = b[l]
           /\ Is(b[l], "marked") => F[l] = Title(b[l][2])
           /\ ~ Is(F[l], "marked")
  BY <1>2, <1>8, UnmarkFacts
<1> HIDE DEF F
<1>10. \A r \in Roots : F[r] = Sent(to, M[r])  BY <1>8, <1>9
<1>11. ASSUME NEW a \in L, NEW j \in 1 .. BlkSize(M[a][2]) - 1
       PROVE  /\ a + j \in Locations /\ a + j \notin Blocks(M, free) /\ a + j \in BlockAt(M, a)
              /\ A[a + j] = IF a + j \in V THEN Sent(to, M[a + j]) ELSE M[a + j]
              /\ ~ Is(A[a + j], "marked")
  <2> DEFINE w == a + j
             n == BlkSize(M[a][2])
  <2>1. a \in Nat /\ n \in Nat /\ a \in Blocks(M, free)  BY BlockFacts
  <2>2. j \in 1 .. n - 1  OBVIOUS
  <2>3. w # a /\ w \in a .. a + n - 1
    <3> HIDE DEF n
    <3> QED  BY <2>1, <2>2
  <2>4. w \in BlockAt(M, a)  BY <2>3 DEF BlockAt
  <2> HIDE DEF w, n
  <2>5. w \in Locations /\ w \notin Blocks(M, free)  BY <2>1, <2>3, <2>4, InBlock
  <2>6. A[w] = (IF w \in V THEN Sent(to, M[w]) ELSE M[w]) /\ ~ Is(A[w], "marked")
    BY <1>7, <2>5
  <2> QED  BY <2>4, <2>5, <2>6 DEF w
<1>12. ASSUME NEW a \in L
       PROVE  /\ F[At(to, a)] = M[a]
              /\ \A j \in 1 .. BlkSize(M[a][2]) - 1 :
                   F[At(to, a) + j] = IF a + j \in V THEN Sent(to, M[a + j]) ELSE M[a + j]
  <2>1. a \in Blocks(M, free) /\ a \in Nat /\ a \in Locations /\ M[a] = Title(M[a][2])
        /\ BlkSize(M[a][2]) \in Nat /\ BlkSize(M[a][2]) > 0
    BY BlockFacts
  <2>2. CASE InRegion(curblock, a)
    <3>1. a < End /\ At(to, a) = to[a] /\ a # End /\ Start(M, a)
      BY <1>3, <2>1, <2>2 DEF InRegion, End, At, Start
    <3>2. \A j \in 0 .. BlkSize(M[a][2]) - 1 : to[a] + j \in Locations /\ to[a] + j \in Nat
      BY <3>1, SlidWords
    <3>3. to[a] \in Locations
      <4>1. a \in Base .. End
        BY <1>3, <2>1, <2>2 DEF InRegion, Base, End
      <4>2. to[a] \in Nat  BY <4>1, SlideTypes
      <4>3. 0 \in 0 .. BlkSize(M[a][2]) - 1  BY <2>1
      <4>4. to[a] + 0 = to[a]  BY <4>2
      <4>5. to[a] + 0 \in Locations  BY <3>2, <4>3
      <4> QED  BY <4>4, <4>5
    <3>4. b[to[a]] = M[a]  BY <1>2, <2>2, <3>1
    <3>5. ~ Is(M[a], "marked")  BY <1>3, <2>1
    <3>6. F[to[a]] = M[a]  BY <1>9, <3>3, <3>4, <3>5
    <3>7. ASSUME NEW j \in 1 .. BlkSize(M[a][2]) - 1
          PROVE  F[to[a] + j] = IF a + j \in V THEN Sent(to, M[a + j]) ELSE M[a + j]
      <4>1. b[to[a] + j] = A[a + j]  BY <1>2, <2>2, <3>1
      <4>2. to[a] + j \in Locations
        <5>1. j \in 0 .. BlkSize(M[a][2]) - 1  BY <2>1
        <5> QED  BY <3>2, <5>1
      <4>3. ~ Is(A[a + j], "marked")
            /\ A[a + j] = IF a + j \in V THEN Sent(to, M[a + j]) ELSE M[a + j]
        BY <1>11
      <4>4. F[to[a] + j] = A[a + j]  BY <1>9, <4>1, <4>2, <4>3
      <4> QED  BY <4>3, <4>4
    <3> QED  BY <3>1, <3>6, <3>7
  <2>3. CASE ~ InRegion(curblock, a)
    <3>1. At(to, a) = a  BY <2>3 DEF At
    <3>2. a \in BlockAt(M, a)
      <4> DEFINE n == BlkSize(M[a][2])
      <4>1. n \in Nat /\ n > 0  BY <2>1
      <4>2. a \in a .. a + n - 1
        <5> HIDE DEF n
        <5> QED  BY <2>1, <4>1
      <4> QED  BY <4>2 DEF BlockAt
    <3>3. \A w \in BlockAt(M, a) : w \notin Base .. End - 1  BY <2>1, <2>3, OtherRegion
    <3>4. b[a] = Marked(M[a][2])  BY <1>1, <1>2, <2>1, <3>2, <3>3
    <3>5. Is(b[a], "marked") /\ b[a][2] = M[a][2]  BY <3>4, KindsOfWords
    <3>6. F[a] = M[a]  BY <1>9, <2>1, <3>5
    <3>7. ASSUME NEW j \in 1 .. BlkSize(M[a][2]) - 1
          PROVE  F[a + j] = IF a + j \in V THEN Sent(to, M[a + j]) ELSE M[a + j]
      <4>1. a + j \in Locations /\ a + j \in BlockAt(M, a) /\ ~ Is(A[a + j], "marked")
            /\ A[a + j] = IF a + j \in V THEN Sent(to, M[a + j]) ELSE M[a + j]
        BY <1>11
      <4>2. b[a + j] = A[a + j]  BY <1>2, <3>3, <4>1
      <4>3. F[a + j] = A[a + j]  BY <1>9, <4>1, <4>2
      <4> QED  BY <4>1, <4>3
    <3> QED  BY <3>1, <3>6, <3>7
  <2> QED  BY <2>2, <2>3
<1>13. ASSUME NEW w \in Used(free), w \notin Base .. End - 1
       PROVE  /\ Is(F[w], "title") <=> Is(M[w], "title")
              /\ Is(M[w], "title") => F[w] = M[w]
  <2>1. w \in Locations  BY DEF Used, Locations
  <2>2. b[w] = A[w]  BY <1>2, <1>13, <2>1
  <2>3. CASE w \in Blocks(M, free)
    <3>1. Is(M[w], "title") /\ M[w] = Title(M[w][2])  BY <2>3, BlockFacts DEF Blocks
    <3>2. CASE w \in L
      <4>1. b[w] = Marked(M[w][2])  BY <1>1, <2>2, <2>3, <3>2
      <4>2. Is(b[w], "marked") /\ b[w][2] = M[w][2]  BY <4>1, KindsOfWords
      <4>3. F[w] = M[w]  BY <1>9, <2>1, <3>1, <4>2
      <4> QED  BY <3>1, <4>3
    <3>3. CASE w \notin L
      <4>1. b[w] = M[w]  BY <1>1, <2>2, <2>3, <3>3
      <4>2. ~ Is(b[w], "marked")  BY <1>3, <2>1, <4>1
      <4>3. F[w] = M[w]  BY <1>9, <2>1, <4>1, <4>2
      <4> QED  BY <3>1, <4>3
    <3> QED  BY <3>2, <3>3
  <2>4. CASE w \notin Blocks(M, free)
    <3>1. ~ Is(M[w], "title")  BY <2>4 DEF Blocks
    <3>2. ~ Is(A[w], "marked") /\ ~ Is(A[w], "title")  BY <1>7, <2>1, <2>4, <3>1
    <3>3. F[w] = A[w]  BY <1>9, <2>1, <2>2, <3>2
    <3> QED  BY <3>1, <3>2, <3>3
  <2> QED  BY <2>3, <2>4
<1> QED  BY <1>9, <1>10, <1>12, <1>13 DEF Collected, V, F

\* The free pointers after a collection.
Freed(to) == [free EXCEPT ![curblock] = to[End]]

LEMMA FreedFacts ==
    ASSUME NEW M, Shape(M, free), curblock \in Regions, NEW L \in SUBSET Blocks(M, free),
           NEW to, Slides(to, M, L)
    PROVE  /\ Fits(Freed(to)) /\ Freed(to)[curblock] = to[End]
           /\ \A p \in Regions : p # curblock => Freed(to)[p] = free[p]
           /\ to[End] \in Nat /\ Base <= to[End] /\ to[End] <= End
           /\ \A w : w \in Used(Freed(to)) <=>
                \/ w \in Base .. to[End] - 1
                \/ w \in Used(free) /\ w \notin Base .. End - 1
<1>1. Base \in Nat /\ End \in Nat /\ Base <= End /\ Fits(free)  BY Bounds DEF Shape
<1>2. to[End] \in Nat /\ Base <= to[End] /\ to[End] <= End
  <2>1. End \in Base .. End /\ Start(M, End) /\ End <= End  BY <1>1 DEF Start
  <2> QED  BY <2>1, SlideTypes
<1>3. Freed(to)[curblock] = to[End] /\ \A p \in Regions : p # curblock => Freed(to)[p] = free[p]
  BY <1>1 DEF Freed, Fits
<1>4. Fits(Freed(to))
  <2>1. RegionBase[curblock] <= to[End] /\ to[End] <= RegionEnd[curblock]
    <3>1. free[curblock] <= RegionEnd[curblock] /\ RegionEnd[curblock] \in Nat
      BY <1>1, CollectorAssumption DEF Fits
    <3> QED  BY <1>1, <1>2, <3>1 DEF Base, End
  <2>2. Freed(to) \in [Regions -> Nat]  BY <1>1, <1>2 DEF Freed, Fits
  <2> QED  BY <1>1, <1>3, <2>1, <2>2 DEF Fits
<1> DEFINE fr == Freed(to)
<1> HIDE DEF fr
<1>5. ASSUME NEW w \in Used(fr)
      PROVE  w \in Base .. to[End] - 1 \/ (w \in Used(free) /\ w \notin Base .. End - 1)
  <2>1. w \in Words /\ w \in Nat  BY WordsFacts DEF Used
  <2>2. PICK p \in Regions : Within(p, fr, w)  BY DEF Used
  <2>3. CASE p = curblock  BY <1>1, <1>2, <1>3, <2>1, <2>2, <2>3 DEF fr, Within, Base
  <2>4. CASE p # curblock
    <3>1. Within(p, free, w)  BY <1>3, <2>2, <2>4 DEF fr, Within
    <3>2. w \notin Base .. End - 1
      <4> SUFFICES ASSUME w \in Base .. End - 1  PROVE FALSE
        OBVIOUS
      <4>1. RegionBase[curblock] <= w /\ w < RegionEnd[curblock]
        <5>1. free[curblock] <= RegionEnd[curblock] /\ RegionEnd[curblock] \in Nat
          BY <1>1, CollectorAssumption DEF Fits
        <5> QED  BY <1>1, <2>1, <5>1 DEF Base, End
      <4>2. p = curblock  BY <1>1, <2>1, <3>1, <4>1, OneRegion
      <4> QED  BY <2>4, <4>2
    <3> QED  BY <2>1, <3>1, <3>2 DEF Used
  <2> QED  BY <2>3, <2>4
<1>6. ASSUME NEW w \in Base .. to[End] - 1  PROVE w \in Used(fr)
  <2>1. Within(curblock, fr, w) /\ w \in Int  BY <1>1, <1>2, <1>3 DEF Within, Base, fr
  <2>2. Fits(fr)  BY <1>4 DEF fr
  <2> QED  BY <2>1, <2>2, WithinWords
<1>7. ASSUME NEW w \in Used(free), w \notin Base .. End - 1  PROVE w \in Used(fr)
  <2>1. w \in Words /\ w \in Nat  BY WordsFacts DEF Used
  <2>2. PICK p \in Regions : Within(p, free, w)  BY DEF Used
  <2>3. p # curblock
    <3>1. p = curblock => w \in Base .. End - 1  BY <1>1, <2>1, <2>2 DEF Within, Base, End
    <3> QED  BY <1>7, <3>1
  <2>4. Within(p, fr, w)  BY <1>3, <2>2, <2>3 DEF fr, Within
  <2> QED  BY <2>1, <2>4 DEF Used
<1>8. \A w : w \in Used(fr) <=> \/ w \in Base .. to[End] - 1
                                \/ w \in Used(free) /\ w \notin Base .. End - 1
  BY <1>5, <1>6, <1>7
<1> QED  BY <1>2, <1>3, <1>4, <1>8 DEF fr

\* The word w of F is one of the block that was at a.
WordOf(w, a, F, M, to) ==
    /\ InRegion(curblock, a) /\ Start(M, a) /\ a < End /\ to[a] \in Nat
    /\ to[a] <= w /\ w < to[a] + BlkSize(M[a][2])
    /\ F[to[a]] = M[a]
    /\ w # to[a] => ~ Is(F[w], "title")

\* A word below the new free pointer is one of a survivor.
LEMMA NewWord ==
    ASSUME NEW M, Shape(M, free), curblock \in Regions, NEW L \in SUBSET Blocks(M, free),
           NEW to, Slides(to, M, L), NEW F, Collected(F, M, L, to),
           NEW w \in Base .. to[End] - 1
    PROVE  \E a \in L : WordOf(w, a, F, M, to)
<1>1. Base \in Nat /\ End \in Nat /\ Base <= End /\ to[End] \in Nat
  BY Bounds, FreedFacts
<1>2. End \in Base .. End /\ w \in Int /\ Base <= w /\ w < to[End]  BY <1>1
<1>3. PICK a \in L : /\ InRegion(curblock, a) /\ a < End
                     /\ to[a] <= w /\ w < to[a] + BlkSize(M[a][2])
  BY <1>2, SlideCover
<1> DEFINE n == BlkSize(M[a][2])
           j == w - to[a]
<1>4. a \in Nat /\ n \in Nat /\ a \in Blocks(M, free)  BY BlockFacts
<1>5. Start(M, a) /\ At(to, a) = to[a]  BY <1>3 DEF Start, At
<1>6. to[a] \in Nat
  <2>1. a \in Base .. End  BY <1>1, <1>3, <1>4 DEF InRegion, Base
  <2> QED  BY <2>1, SlideTypes
<1>7. /\ F[to[a]] = M[a]
      /\ \A i \in 1 .. n - 1 :
           F[to[a] + i] = IF a + i \in Slots(M, L) THEN Sent(to, M[a + i]) ELSE M[a + i]
  BY <1>5 DEF Collected
<1>8. ASSUME w # to[a]  PROVE ~ Is(F[w], "title")
  <2>1. w < to[a] + n  BY <1>3
  <2> HIDE DEF n
  <2>2. j \in 1 .. n - 1 /\ to[a] + j = w /\ a + j # a /\ a + j \in a .. a + n - 1
    BY <1>2, <1>3, <1>4, <1>6, <1>8, <2>1
  <2> DEFINE v == a + j
  <2>3. F[w] = IF v \in Slots(M, L) THEN Sent(to, M[v]) ELSE M[v]  BY <1>7, <2>2
  <2>4. v \in BlockAt(M, a) /\ v # a  BY <2>2 DEF BlockAt, n
  <2> HIDE DEF v
  <2>5. v \in Locations /\ ~ Is(M[v], "title")  BY <1>4, <2>4, InBlock
  <2>6. M[v] \in Word  BY <2>5 DEF Shape
  <2> QED  BY <2>3, <2>5, <2>6, SentKinds
<1> QED  BY <1>3, <1>5, <1>6, <1>7, <1>8 DEF n, WordOf

\* The blocks of the current region tile it again.
LEMMA NewTiles ==
    ASSUME NEW M, Shape(M, free), curblock \in Regions, NEW L \in SUBSET Blocks(M, free),
           NEW to, Slides(to, M, L), NEW F, Collected(F, M, L, to)
    PROVE  TiledTo(F, curblock, to[End])
<1>1. Base \in Nat /\ End \in Nat /\ Base <= End /\ to[End] \in Nat /\ Base <= to[End]
      /\ RegionBase[curblock] = Base
  BY Bounds, FreedFacts DEF Base
<1>2. ASSUME NEW a \in L, NEW b \in L, Start(M, a), Start(M, b), a # b
      PROVE  \/ to[a] + BlkSize(M[a][2]) <= to[b]
             \/ to[b] + BlkSize(M[b][2]) <= to[a]
  <2>1. a \in Nat /\ b \in Nat  BY BlockFacts
  <2>2. a < b \/ b < a  BY <1>2, <2>1
  <2> QED  BY <1>2, <2>2, SlidApart
<1>3. ASSUME Base # to[End]  PROVE Is(F[Base], "title")
  <2>1. Base \in Base .. to[End] - 1  BY <1>1, <1>3
  <2>2. PICK a \in L : /\ InRegion(curblock, a) /\ a < End /\ to[a] \in Nat
                       /\ to[a] <= Base /\ F[to[a]] = M[a]
    <3>1. \E x \in L : WordOf(Base, x, F, M, to)  BY <2>1, NewWord
    <3> QED  BY <3>1 DEF WordOf
  <2>3. a \in Blocks(M, free) /\ a \in Nat  BY BlockFacts
  <2>4. a \in Base .. End  BY <1>1, <2>2, <2>3 DEF InRegion, Base
  <2>5. Base <= to[a]  BY <2>4, SlideTypes
  <2>6. to[a] = Base  BY <1>1, <2>2, <2>5
  <2>7. Is(M[a], "title")  BY <2>3 DEF Blocks
  <2> QED  BY <2>2, <2>6, <2>7
<1>4. ASSUME NEW w \in Base .. to[End] - 1, Is(F[w], "title")
      PROVE  /\ w + BlkSize(F[w][2]) <= to[End]
             /\ w + BlkSize(F[w][2]) = to[End] \/ Is(F[w + BlkSize(F[w][2])], "title")
             /\ \A b \in w + 1 .. w + BlkSize(F[w][2]) - 1 : ~ Is(F[b], "title")
  <2>1. PICK a \in L : /\ InRegion(curblock, a) /\ Start(M, a) /\ a < End /\ to[a] = w
                       /\ F[w] = M[a]
    <3>1. PICK a \in L : /\ InRegion(curblock, a) /\ Start(M, a) /\ a < End /\ to[a] \in Nat
                         /\ to[a] <= w /\ w < to[a] + BlkSize(M[a][2])
                         /\ F[to[a]] = M[a]
                         /\ w # to[a] => ~ Is(F[w], "title")
      <4>1. \E x \in L : WordOf(w, x, F, M, to)  BY NewWord
      <4> QED  BY <4>1 DEF WordOf
    <3>2. w = to[a]  BY <1>4, <3>1
    <3> QED  BY <3>1, <3>2
  <2> DEFINE n == BlkSize(F[w][2])
  <2>2. n = BlkSize(M[a][2]) /\ n \in Nat /\ n > 0 /\ a \in Nat  BY <2>1, BlockFacts
  <2>3. End \in Base .. End /\ Start(M, End)  BY <1>1 DEF Start
  <2>4. w + n <= to[End]  BY <2>1, <2>2, <2>3, SlidApart
  <2> HIDE DEF n
  <2>5. ASSUME w + n # to[End]  PROVE Is(F[w + n], "title")
    <3> DEFINE v == w + n
    <3>1. v \in Base .. to[End] - 1  BY <1>1, <2>2, <2>4, <2>5
    <3> HIDE DEF v
    <3>2. PICK c \in L : /\ InRegion(curblock, c) /\ Start(M, c) /\ c < End /\ to[c] \in Nat
                         /\ to[c] <= v /\ v < to[c] + BlkSize(M[c][2])
                         /\ F[to[c]] = M[c]
                         /\ v # to[c] => ~ Is(F[v], "title")
      <4>1. \E x \in L : WordOf(v, x, F, M, to)  BY <3>1, NewWord
      <4> QED  BY <4>1 DEF WordOf
    <3>3. BlkSize(M[c][2]) \in Nat  BY BlockFacts
    <3>4. c # a
      <4>1. c = a => v < w + n  BY <2>1, <2>2, <3>2
      <4> QED  BY <1>1, <2>2, <3>1, <4>1 DEF v
    <3>5. w + n <= to[c] \/ to[c] + BlkSize(M[c][2]) <= w  BY <1>2, <2>1, <2>2, <3>2, <3>4
    <3> DEFINE k == BlkSize(M[c][2])
    <3>6. to[c] = v
      <4>1. k \in Nat /\ v < to[c] + k /\ (w + n <= to[c] \/ to[c] + k <= w)  BY <3>2, <3>3, <3>5
      <4> HIDE DEF k
      <4> QED  BY <2>2, <3>2, <4>1 DEF v
    <3>7. Is(M[c], "title")  BY DEF Blocks
    <3> QED  BY <3>2, <3>6, <3>7 DEF v
  <2>6. ASSUME NEW b \in w + 1 .. w + n - 1  PROVE ~ Is(F[b], "title")
    <3>1. b \in Base .. to[End] - 1 /\ b # w  BY <1>1, <2>2, <2>4
    <3>2. PICK c \in L : /\ Start(M, c) /\ to[c] \in Nat
                         /\ to[c] <= b /\ b < to[c] + BlkSize(M[c][2])
                         /\ b # to[c] => ~ Is(F[b], "title")
      <4>1. \E x \in L : WordOf(b, x, F, M, to)  BY <3>1, NewWord
      <4> QED  BY <4>1 DEF WordOf
    <3> DEFINE k == BlkSize(M[c][2])
    <3>3. k \in Nat /\ b < to[c] + k  BY <3>2, BlockFacts
    <3>4. c # a => w + n <= to[c] \/ to[c] + k <= w  BY <1>2, <2>1, <2>2, <3>2
    <3> HIDE DEF k
    <3>5. c = a  BY <2>2, <3>2, <3>3, <3>4
    <3> QED  BY <2>1, <3>1, <3>2, <3>5
  <2> QED  BY <2>4, <2>5, <2>6 DEF n
<1> QED  BY <1>1, <1>3, <1>4 DEF TiledTo

Survivors(L, to) == {At(to, a) : a \in L}

\* The memory after a collection has its shape.
LEMMA NewShape ==
    ASSUME NEW M, Shape(M, free), curblock \in Regions, NEW L \in SUBSET Blocks(M, free),
           NEW to, Slides(to, M, L), NEW F, Collected(F, M, L, to)
    PROVE  /\ Shape(F, Freed(to))
           /\ Survivors(L, to) \subseteq Blocks(F, Freed(to))
           /\ \A a \in Blocks(F, Freed(to)) :
                Within(curblock, Freed(to), a) => a \in Survivors(L, to)
<1> DEFINE fr == Freed(to)
<1>1. /\ Fits(fr) /\ fr[curblock] = to[End]
      /\ \A p \in Regions : p # curblock => fr[p] = free[p]
      /\ to[End] \in Nat /\ Base <= to[End] /\ to[End] <= End
      /\ \A w : w \in Used(fr) <=>
           \/ w \in Base .. to[End] - 1
           \/ w \in Used(free) /\ w \notin Base .. End - 1
      /\ Base \in Nat /\ End \in Nat
  BY FreedFacts, Bounds
<1> HIDE DEF fr
<1>2. ASSUME NEW p \in Regions, p # curblock  PROVE TiledTo(F, p, fr[p])
  <2>1. ASSUME NEW a \in RegionBase[p] .. free[p] - 1
        PROVE  /\ Is(F[a], "title") <=> Is(M[a], "title")
               /\ Is(M[a], "title") => F[a] = M[a]
    <3>1. free[p] \in Nat /\ RegionBase[p] \in Nat /\ Fits(free)
      BY CollectorAssumption DEF Shape, Fits
    <3>2. Within(p, free, a) /\ a \in Int  BY <3>1 DEF Within
    <3>3. a \in Used(free)  BY <3>1, <3>2, WithinWords
    <3>4. a \notin Base .. End - 1
      <4> SUFFICES ASSUME a \in Base .. End - 1  PROVE FALSE
        OBVIOUS
      <4>1. RegionBase[curblock] <= a /\ a < RegionEnd[curblock]
        <5>1. free[curblock] <= RegionEnd[curblock] /\ RegionEnd[curblock] \in Nat
          BY <3>1, CollectorAssumption DEF Fits
        <5> QED  BY <1>1, <3>2, <5>1 DEF Base, End
      <4>2. p = curblock  BY <3>1, <3>2, <4>1, OneRegion
      <4> QED  BY <1>2, <4>2
    <3> QED  BY <3>3, <3>4 DEF Collected
  <2>2. TiledTo(F, p, free[p])  BY <2>1, TiledRegion
  <2> QED  BY <1>1, <1>2, <2>2
<1>3. TiledTo(F, curblock, fr[curblock])  BY <1>1, NewTiles
<1>4. Tiled(F, fr)  BY <1>2, <1>3 DEF Tiled
<1>5. \A r \in Roots : ~ Is(F[r], "title")
  <2> SUFFICES ASSUME NEW r \in Roots  PROVE ~ Is(F[r], "title")
    OBVIOUS
  <2>1. M[r] \in Word /\ ~ Is(M[r], "title") /\ F[r] = Sent(to, M[r])
    BY DEF Shape, Locations, Collected
  <2> QED  BY <2>1, SentKinds
<1>6. Shape(F, fr)  BY <1>1, <1>4, <1>5 DEF Shape, Collected
<1>7. ASSUME NEW a \in L  PROVE At(to, a) \in Blocks(F, fr)
  <2>1. a \in Blocks(M, free) /\ a \in Nat /\ a \in Used(free) /\ Is(M[a], "title")
        /\ BlkSize(M[a][2]) \in Nat /\ BlkSize(M[a][2]) > 0
    BY BlockFacts DEF Blocks
  <2>2. F[At(to, a)] = M[a]  BY DEF Collected
  <2>3. CASE InRegion(curblock, a)
    <3>1. Start(M, a) /\ a # End /\ At(to, a) = to[a] /\ a \in Base .. End
      BY <1>1, <2>1, <2>3 DEF Start, InRegion, End, Base, At
    <3>2. to[a] \in Nat /\ Base <= to[a]  BY <3>1, SlideTypes
    <3>3. 0 \in 0 .. BlkSize(M[a][2]) - 1 /\ to[a] + 0 = to[a]  BY <2>1, <3>2
    <3>4. to[a] + 0 < to[End]  BY <3>1, <3>3, SlidWords
    <3>5. to[a] \in Base .. to[End] - 1  BY <1>1, <3>2, <3>3, <3>4
    <3> QED  BY <1>1, <2>1, <2>2, <3>1, <3>5 DEF Blocks
  <2>4. CASE ~ InRegion(curblock, a)
    <3>1. At(to, a) = a /\ a \notin Base .. End - 1
      BY <1>1, <2>1, <2>4 DEF At, InRegion, Base, End
    <3> QED  BY <1>1, <2>1, <2>2, <3>1 DEF Blocks
  <2> QED  BY <2>3, <2>4
<1>8. ASSUME NEW w \in Blocks(F, fr), Within(curblock, fr, w)  PROVE w \in Survivors(L, to)
  <2>1. Is(F[w], "title") /\ w \in Nat  BY WordsFacts DEF Blocks, Used
  <2>2. w \in Base .. to[End] - 1  BY <1>1, <1>8, <2>1 DEF Within, Base
  <2>3. PICK a \in L : InRegion(curblock, a) /\ (w # to[a] => ~ Is(F[w], "title"))
    <3>1. \E x \in L : WordOf(w, x, F, M, to)  BY <2>2, NewWord
    <3> QED  BY <3>1 DEF WordOf
  <2>4. w = At(to, a)  BY <2>1, <2>3 DEF At
  <2> QED  BY <2>4 DEF Survivors
<1> QED  BY <1>6, <1>7, <1>8 DEF fr, Survivors


\* The slot l of the variables and the blocks at X is moved to k.
Pair(l, k, M, X, to) ==
    \/ l \in Roots /\ k = l
    \/ \E a \in X : \E i \in 1 .. Fields(M[a][2]) :
         l = FieldsAt(a, M[a][2])[i] /\ k = FieldsAt(At(to, a), M[a][2])[i]

LEMMA ToSetOf ==
    ASSUME NEW t \in Types, NEW a \in Nat
    PROVE  \A w : w \in ToSet(FieldsAt(a, t)) <=> \E i \in 1 .. Fields(t) : w = FieldsAt(a, t)[i]
<1>1. DOMAIN FieldsAt(a, t) = 1 .. Fields(t)  BY FieldFacts
<1> DEFINE f == FieldsAt(a, t)
<1> HIDE DEF f
<1>2. ToSet(f) = {f[i] : i \in DOMAIN f}  BY DEF ToSet
<1>3. DOMAIN f = 1 .. Fields(t)  BY <1>1 DEF f
<1>4. \A w : w \in ToSet(f) <=> \E i \in 1 .. Fields(t) : w = f[i]  BY <1>2, <1>3
<1> QED  BY <1>4 DEF f

\* A survivor at its new address.
LEMMA SurvivorFacts ==
    ASSUME NEW M, Shape(M, free), curblock \in Regions, NEW L \in SUBSET Blocks(M, free),
           NEW to, Slides(to, M, L), NEW F, Collected(F, M, L, to), NEW a \in L
    PROVE  /\ a \in Nat /\ M[a][2] \in Types /\ a \in Blocks(M, free)
           /\ At(to, a) \in Nat /\ F[At(to, a)] = M[a]
<1>1. At(to, a) \in Survivors(L, to)  BY DEF Survivors
<1>2. Shape(F, Freed(to)) /\ At(to, a) \in Blocks(F, Freed(to))  BY <1>1, NewShape
<1>3. At(to, a) \in Nat
  <2> DEFINE b == At(to, a)
             fr == Freed(to)
  <2>1. Shape(F, fr) /\ b \in Blocks(F, fr)  BY <1>2
  <2> HIDE DEF b, fr
  <2>2. b \in Nat  BY <2>1, BlockFacts
  <2> QED  BY <2>2 DEF b
<1>4. a \in Nat /\ M[a][2] \in Types /\ a \in Blocks(M, free)  BY BlockFacts
<1> QED  BY <1>3, <1>4 DEF Collected

\* Slots hold what they held, references being those to where the blocks are.
LEMMA PairFacts ==
    ASSUME NEW M, Shape(M, free), curblock \in Regions, NEW L \in SUBSET Blocks(M, free),
           NEW to, Slides(to, M, L), NEW F, Collected(F, M, L, to),
           NEW X \in SUBSET L, NEW l, NEW k, Pair(l, k, M, X, to)
    PROVE  /\ l \in Slots(M, X) /\ k \in Slots(F, Survivors(X, to))
           /\ F[k] = Sent(to, M[l])
<1>1. CASE l \in Roots /\ k = l  BY <1>1 DEF Slots, Collected
<1>2. CASE \E a \in X : \E i \in 1 .. Fields(M[a][2]) :
             l = FieldsAt(a, M[a][2])[i] /\ k = FieldsAt(At(to, a), M[a][2])[i]
  <2>a. PICK a \in X : \E i \in 1 .. Fields(M[a][2]) :
          l = FieldsAt(a, M[a][2])[i] /\ k = FieldsAt(At(to, a), M[a][2])[i]
    BY <1>2
  <2>1. PICK i \in 1 .. Fields(M[a][2]) :
          l = FieldsAt(a, M[a][2])[i] /\ k = FieldsAt(At(to, a), M[a][2])[i]
    BY <2>a
  <2> DEFINE t == M[a][2]
             b == At(to, a)
             n == BlkSize(t)
             h == Fields(t)
             j == n - h + i - 1
  <2>2. a \in Nat /\ t \in Types /\ b \in Nat /\ F[b] = M[a] /\ a \in L
    <3> HIDE DEF t, b, n, h, j
    <3>1. a \in L  OBVIOUS
    <3>2. a \in Nat /\ M[a][2] \in Types /\ At(to, a) \in Nat /\ F[At(to, a)] = M[a]
      BY <3>1, SurvivorFacts
    <3> QED  BY <3>1, <3>2 DEF t, b
  <2>3. l \in ToSet(FieldsAt(a, t)) /\ k \in ToSet(FieldsAt(b, t))
    <3> HIDE DEF b, t
    <3>1. l = FieldsAt(a, t)[i] /\ k = FieldsAt(b, t)[i] /\ i \in 1 .. Fields(t)
      BY <2>1 DEF b, t
    <3> QED  BY <2>2, <3>1, ToSetOf
  <2>4. l \in Slots(M, X) /\ l \in Slots(M, L)
    <3> HIDE DEF b, n, h, j
    <3> QED  BY <2>2, <2>3, SlotOf
  <2>5. k \in Slots(F, Survivors(X, to))
    <3>1. b \in Survivors(X, to) /\ k \in ToSet(FieldsAt(b, F[b][2]))
      BY <2>2, <2>3 DEF Survivors
    <3> HIDE DEF b
    <3> QED  BY <3>1, SlotOf
  <2>6. n \in Nat /\ h \in Nat /\ h < n  BY <2>2, TypeFacts
  <2>7. l = a + n - h + i - 1 /\ k = b + n - h + i - 1
    <3> HIDE DEF b, t
    <3>1. l = FieldsAt(a, t)[i] /\ k = FieldsAt(b, t)[i] /\ i \in 1 .. Fields(t)
      BY <2>1 DEF b, t
    <3> QED  BY <2>2, <3>1, FieldFacts
  <2>8. i \in 1..h  BY <2>1
  <2> HIDE DEF b, t, n, h
  <2>9. j \in 1 .. n - 1 /\ l = a + j /\ k = b + j  BY <2>2, <2>6, <2>7, <2>8
  <2> HIDE DEF j
  <2>10. F[b + j] = IF a + j \in Slots(M, L) THEN Sent(to, M[a + j]) ELSE M[a + j]
    BY <2>2, <2>9 DEF Collected, b, n, t
  <2> QED  BY <2>4, <2>5, <2>9, <2>10
<1> QED  BY <1>1, <1>2 DEF Pair

\* Every slot after the collection was one before, and the other way round.
LEMMA Paired ==
    ASSUME NEW M, Shape(M, free), curblock \in Regions, NEW L \in SUBSET Blocks(M, free),
           NEW to, Slides(to, M, L), NEW F, Collected(F, M, L, to), NEW X \in SUBSET L
    PROVE  /\ \A k \in Slots(F, Survivors(X, to)) : \E l : Pair(l, k, M, X, to)
           /\ \A l \in Slots(M, X) : \E k : Pair(l, k, M, X, to)
<1>1. ASSUME NEW k \in Slots(F, Survivors(X, to))  PROVE \E l : Pair(l, k, M, X, to)
  <2>1. CASE k \in Roots  BY <2>1 DEF Pair
  <2>2. CASE \E b \in Survivors(X, to) : k \in ToSet(FieldsAt(b, F[b][2]))
    <3>1. PICK a \in X : k \in ToSet(FieldsAt(At(to, a), F[At(to, a)][2]))
      BY <2>2 DEF Survivors
    <3> DEFINE b == At(to, a)
               t == M[a][2]
    <3>2. t \in Types /\ b \in Nat /\ F[b] = M[a]  BY SurvivorFacts
    <3> HIDE DEF b
    <3>3. k \in ToSet(FieldsAt(b, t))  BY <3>1, <3>2 DEF b
    <3>4. PICK i \in 1 .. Fields(t) : k = FieldsAt(b, t)[i]
      <4> HIDE DEF t
      <4> QED  BY <3>2, <3>3, ToSetOf
    <3>5. Pair(FieldsAt(a, t)[i], k, M, X, to)  BY <3>4 DEF Pair, b
    <3> QED  BY <3>5
  <2> QED  BY <2>1, <2>2, SlotOf
<1>2. ASSUME NEW l \in Slots(M, X)  PROVE \E k : Pair(l, k, M, X, to)
  <2>1. CASE l \in Roots  BY <2>1 DEF Pair
  <2>2. CASE \E a \in X : l \in ToSet(FieldsAt(a, M[a][2]))
    <3>1. PICK a \in X : l \in ToSet(FieldsAt(a, M[a][2]))  BY <2>2
    <3> DEFINE t == M[a][2]
    <3>2. t \in Types /\ a \in Nat  BY SurvivorFacts
    <3>4. PICK i \in 1 .. Fields(t) : l = FieldsAt(a, t)[i]
      <4> HIDE DEF t
      <4>1. l \in ToSet(FieldsAt(a, t))  BY <3>1 DEF t
      <4> QED  BY <3>2, <4>1, ToSetOf
    <3>5. Pair(l, FieldsAt(At(to, a), t)[i], M, X, to)  BY <3>4 DEF Pair
    <3> QED  BY <3>5
  <2> QED  BY <2>1, <2>2, SlotOf
<1> QED  BY <1>1, <1>2

\* What is left can be reached, and nothing else.
LEMMA NewHeap ==
    ASSUME NEW M, Shape(M, free), curblock \in Regions, NEW L \in SUBSET Blocks(M, free),
           Targets(M, Slots(M, L)) \subseteq L,
           \A X \in SUBSET L : Targets(M, Slots(M, X)) \subseteq X => L \subseteq X,
           NEW to, Slides(to, M, L), NEW F, Collected(F, M, L, to)
    PROVE  /\ Heap(F, Freed(to), Survivors(L, to))
           /\ Reach(F) = Survivors(L, to)
<1> DEFINE S == Survivors(L, to)
           fr == Freed(to)
<1>1. Shape(F, fr) /\ S \subseteq Blocks(F, fr)  BY NewShape
<1>2. \A l \in Locations : M[l] \in Word  BY DEF Shape
<1>3. \A l \in Slots(M, L) : l \in Locations  BY SlotFacts
<1>4. L \in SUBSET L  OBVIOUS
<1>a. /\ Shape(M, free) /\ curblock \in Regions /\ L \in SUBSET Blocks(M, free)
      /\ Slides(to, M, L) /\ Collected(F, M, L, to)
  OBVIOUS
<1>b. \A X \in SUBSET L : \A l, k : Pair(l, k, M, X, to) =>
        /\ l \in Slots(M, X) /\ k \in Slots(F, Survivors(X, to))
        /\ F[k] = Sent(to, M[l])
  <2> SUFFICES ASSUME NEW X \in SUBSET L, NEW l, NEW k, Pair(l, k, M, X, to)
               PROVE  /\ l \in Slots(M, X) /\ k \in Slots(F, Survivors(X, to))
                      /\ F[k] = Sent(to, M[l])
    OBVIOUS
  <2>1. Pair(l, k, M, X, to) /\ X \in SUBSET L  OBVIOUS
  <2> QED  BY ONLY <1>a, <2>1, PairFacts
<1> HIDE DEF S, fr
<1>5. ASSUME NEW k \in Slots(F, S), Is(F[k], "ref")  PROVE F[k][2] \in S
  <2>1. k \in Slots(F, Survivors(L, to))  BY DEF S
  <2>2. PICK l : Pair(l, k, M, L, to)  BY <1>4, <2>1, Paired
  <2>3. l \in Slots(M, L) /\ F[k] = Sent(to, M[l])  BY ONLY <1>b, <1>4, <2>2
  <2>4. M[l] \in Word  BY <1>2, <1>3, <2>3
  <2>5. Is(M[l], "ref") /\ F[k][2] = At(to, M[l][2])  BY <1>5, <2>3, <2>4, SentKinds
  <2>6. M[l][2] \in L  BY <2>3, <2>5 DEF Targets
  <2> QED  BY <2>5, <2>6 DEF S, Survivors
<1>6. Heap(F, fr, S)  BY <1>1, <1>5 DEF Heap, Targets
<1>7. Reach(F) \subseteq S /\ Targets(F, Slots(F, Reach(F))) \subseteq Reach(F)
  BY <1>6, ReachHeap DEF Heap
<1> DEFINE R == Reach(F)
           X == {a \in L : At(to, a) \in R}
<1>8. X \in SUBSET L  OBVIOUS
<1> HIDE DEF R
<1>9. Survivors(X, to) \subseteq R  BY DEF Survivors
<1>10. Targets(M, Slots(M, X)) \subseteq X
  <2> HIDE DEF X
  <2>1. ASSUME NEW l \in Slots(M, X), Is(M[l], "ref")  PROVE M[l][2] \in X
    <3>1. l \in Slots(M, L)
      <4> HIDE DEF X
      <4>1. Slots(M, X) \subseteq Slots(M, L)  BY <1>8, Onward
      <4> QED  BY <4>1
    <3>2. PICK k : Pair(l, k, M, X, to)
      <4> HIDE DEF X
      <4> QED  BY <1>8, Paired
    <3>3. k \in Slots(F, Survivors(X, to)) /\ F[k] = Sent(to, M[l])
      <4> HIDE DEF X
      <4> QED  BY ONLY <1>b, <1>8, <3>2
    <3>4. M[l] \in Word  BY <1>2, <1>3, <3>1
    <3>5. Is(F[k], "ref") /\ F[k][2] = At(to, M[l][2])  BY <2>1, <3>3, <3>4, SentKinds
    <3>6. k \in Slots(F, R)
      <4> HIDE DEF X
      <4>1. Slots(F, Survivors(X, to)) \subseteq Slots(F, R)  BY <1>9, Onward
      <4> QED  BY <3>3, <4>1
    <3>7. At(to, M[l][2]) \in R
      <4>1. F[k][2] \in Targets(F, Slots(F, R))  BY <3>5, <3>6 DEF Targets
      <4>2. F[k][2] \in R  BY <1>7, <4>1 DEF R
      <4> QED  BY <3>5, <4>2
    <3>8. M[l][2] \in L  BY <2>1, <3>1 DEF Targets
    <3> QED  BY <3>7, <3>8 DEF X
  <2> QED  BY <2>1 DEF Targets
<1>11. L \subseteq X  BY <1>8, <1>10
<1>12. S \subseteq R  BY <1>11 DEF S, Survivors
<1> QED  BY <1>6, <1>7, <1>12 DEF R, S, fr


-----------------------------------------------------------------------------
(* What cannot be reached is forgotten *)

\* Memories that agree on the variables and the blocks at R.
LEMMA Agree ==
    ASSUME NEW m, NEW M, NEW R, \A a \in R : M[a] = m[a], \A l \in Slots(m, R) : M[l] = m[l]
    PROVE  \A X \in SUBSET R : /\ Slots(M, X) = Slots(m, X)
                               /\ Targets(M, Slots(M, X)) = Targets(m, Slots(m, X))
<1> SUFFICES ASSUME NEW X \in SUBSET R
             PROVE  /\ Slots(M, X) = Slots(m, X)
                    /\ Targets(M, Slots(M, X)) = Targets(m, Slots(m, X))
  OBVIOUS
<1>1. Slots(M, X) = Slots(m, X)  BY DEF Slots
<1>2. Slots(m, X) \subseteq Slots(m, R)  BY Onward
<1>3. Targets(M, Slots(m, X)) = Targets(m, Slots(m, X))  BY <1>2 DEF Targets
<1> QED  BY <1>1, <1>3

LEMMA ForgetFacts ==
    ASSUME NEW m, NEW fr, NEW B, Heap(m, fr, B)
    PROVE  /\ Heap(Forget(m, fr), fr, Reach(m)) /\ Reach(Forget(m, fr)) = Reach(m)
           /\ Blocks(Forget(m, fr), fr) = Blocks(m, fr)
           /\ Slots(Forget(m, fr), Reach(m)) = Slots(m, Reach(m))
           /\ \A l \in Slots(m, Reach(m)) : Forget(m, fr)[l] = m[l]
           /\ \A a \in Reach(m) : Forget(m, fr)[a] = m[a]
           /\ \A w \in Words \ Used(fr) : Forget(m, fr)[w] = Nil
<1> DEFINE R == Reach(m)
           G == Forget(m, fr)
           kept == Roots \cup UNION {BlockAt(m, a) : a \in R}
<1>1. /\ R \subseteq B /\ Heap(m, fr, R)
      /\ \A X : Targets(m, Slots(m, X)) \subseteq X => R \subseteq X
  BY ReachHeap
<1>2. /\ Shape(m, fr) /\ R \subseteq Blocks(m, fr) /\ Targets(m, Slots(m, R)) \subseteq R
      /\ m \in [Locations -> Word]
  BY <1>1 DEF Heap, Shape
<1>3. {a \in Titles(m) : \E p \in Regions : RegionBase[p] <= a /\ a < fr[p]} = Blocks(m, fr)
  BY DEF Titles, Blocks, Used, Within
<1>4. G = [l \in Locations |-> IF l \in kept \cup Blocks(m, fr) THEN m[l] ELSE Nil]
  BY <1>2, <1>3 DEF Forget
<1> HIDE DEF R, kept
<1>5. \A l \in Locations : G[l] = IF l \in kept \cup Blocks(m, fr) THEN m[l] ELSE Nil
  BY <1>4
<1>6. G = [l \in Locations |-> G[l]]  BY <1>4
<1> HIDE DEF G
<1>7. /\ \A l \in Locations : G[l] \in Word /\ ~ Is(G[l], "marked")
      /\ \A r \in Roots : ~ Is(G[r], "title")
  <2>1. Nil \in Word /\ ~ Is(Nil, "marked") /\ ~ Is(Nil, "title")  BY KindsOfWords, OneKind
  <2>2. \A r \in Roots : r \in Locations  BY DEF Locations
  <2> QED  BY <1>2, <1>5, <2>1, <2>2 DEF Shape
<1>8. G \in [Locations -> Word]  BY <1>6, <1>7
<1>9. SameTitles(G, m, fr)
  <2> SUFFICES ASSUME NEW l \in Used(fr)
               PROVE  /\ Is(G[l], "title") <=> Is(m[l], "title")
                      /\ Is(m[l], "title") => G[l] = m[l]
    BY DEF SameTitles
  <2>1. l \in Locations  BY DEF Used, Locations
  <2>2. ~ Is(Nil, "title")  BY KindsOfWords, OneKind
  <2>3. Is(m[l], "title") => l \in Blocks(m, fr)  BY DEF Blocks
  <2> QED  BY <1>5, <2>1, <2>2, <2>3
<1>10. Tiled(G, fr) /\ Blocks(G, fr) = Blocks(m, fr)  BY <1>2, <1>9, TiledToo
<1>11. Shape(G, fr)  BY <1>2, <1>7, <1>8, <1>10 DEF Shape
<1>12. \A a \in R : G[a] = m[a]
  <2>1. \A a \in Blocks(m, fr) : a \in Locations  BY <1>2, BlockFacts
  <2> QED  BY <1>2, <1>5, <2>1
<1>13. \A l \in Slots(m, R) : G[l] = m[l]
  <2> SUFFICES ASSUME NEW l \in Slots(m, R)  PROVE G[l] = m[l]
    OBVIOUS
  <2>1. CASE l \in Roots  BY <1>5, <2>1 DEF kept, Locations
  <2>2. CASE \E a \in R : l \in ToSet(FieldsAt(a, m[a][2]))
    <3>1. PICK a \in R : l \in ToSet(FieldsAt(a, m[a][2]))  BY <2>2
    <3>2. a \in Blocks(m, fr)  BY <1>2
    <3>3. l \in BlockAt(m, a) /\ l \in Locations  BY <1>2, <3>1, <3>2, FieldsInBlock
    <3>4. l \in kept  BY <3>3 DEF kept
    <3> QED  BY <1>5, <3>3, <3>4
  <2> QED  BY <2>1, <2>2, SlotOf
<1>14. \A X \in SUBSET R : /\ Slots(G, X) = Slots(m, X)
                           /\ Targets(G, Slots(G, X)) = Targets(m, Slots(m, X))
  BY <1>12, <1>13, Agree
<1>15. R \in SUBSET R  OBVIOUS
<1>16. Heap(G, fr, R)  BY <1>2, <1>10, <1>11, <1>14, <1>15 DEF Heap
<1>17. Reach(G) = R
  <2>1. Reach(G) \subseteq R /\ Heap(G, fr, Reach(G))  BY <1>16, ReachHeap
  <2> DEFINE X == Reach(G)
  <2>2. X \in SUBSET R /\ Targets(G, Slots(G, X)) \subseteq X  BY <2>1 DEF Heap
  <2> HIDE DEF X
  <2>3. Targets(m, Slots(m, X)) \subseteq X  BY <1>14, <2>2
  <2>4. R \subseteq X  BY <1>1, <2>3
  <2> QED  BY <2>2, <2>4 DEF X
<1>18. \A w \in Words \ Used(fr) : G[w] = Nil
  <2> SUFFICES ASSUME NEW w \in Words \ Used(fr)  PROVE G[w] = Nil
    OBVIOUS
  <2>1. w \in Locations /\ w \notin Roots /\ w \notin Blocks(m, fr)
    BY WordsFacts DEF Locations, Blocks
  <2>2. ASSUME NEW a \in R  PROVE w \notin BlockAt(m, a)
    <3>1. a \in Blocks(m, fr)  BY <1>2
    <3>2. \A v \in BlockAt(m, a) : v \in Used(fr)  BY <1>2, <3>1, InBlock
    <3> QED  BY <3>2
  <2>3. w \notin kept  BY <2>1, <2>2 DEF kept
  <2> QED  BY <1>5, <2>1, <2>3
<1> QED  BY <1>10, <1>12, <1>13, <1>14, <1>15, <1>16, <1>17, <1>18 DEF R, G

-----------------------------------------------------------------------------
(* A collection *)

\* M is the memory with its strings moved to the text T, of which each
\* character is used if the list of qualifiers did not fail.
TextMoved(M, T, f) ==
    /\ Shape(M, free) /\ Blocks(M, free) = Blocks(mem, free)
    /\ \A a \in Blocks(mem, free) : M[a] = mem[a]
    /\ \A l \in Slots(mem, Reach(mem)) :
         IF Is(mem[l], "str") THEN Placed(M[l], mem[l], T) ELSE M[l] = mem[l]
    /\ \A X \in SUBSET Reach(mem) :
         /\ Slots(M, X) = Slots(mem, X)
         /\ Targets(M, Slots(mem, X)) = Targets(mem, Slots(mem, X))
    /\ T \in Seq(Chars) /\ Len(T) <= Len(str)
    /\ ~ f => \A x \in 1 .. Len(T) : \E l \in Slots(mem, Reach(mem)) :
                Is(mem[l], "str") /\ M[l][2] <= x /\ x < M[l][2] + mem[l][3]

\* The memory and the text that adjust() finds.
MovedMem(n, q, f) == IF f THEN n ELSE scollect(n, q).mem
MovedStr(n, q, f) == IF f THEN str ELSE scollect(n, q).str

LEMMA ReclaimParts ==
    ASSUME NEW n, NEW q, NEW f \in BOOLEAN, NEW d
    PROVE  /\ reclaim(MarkState(n, q, f, d)).mem = compact(adjust(MovedMem(n, q, f))).mem
           /\ reclaim(MarkState(n, q, f, d)).free = compact(adjust(MovedMem(n, q, f))).dest
           /\ reclaim(MarkState(n, q, f, d)).str = MovedStr(n, q, f)
<1> DEFINE s == MarkState(n, q, f, d)
<1>1. s.mem = n /\ s.quals = q /\ s.qualfail = f  BY MarkParts
<1> HIDE DEF s
<1>2. CASE f
  <2>1. /\ reclaim(s).mem = compact(adjust(n)).mem
        /\ reclaim(s).free = compact(adjust(n)).dest
        /\ reclaim(s).str = str
    BY <1>1, <1>2 DEF reclaim
  <2> QED  BY <1>2, <2>1 DEF MovedMem, MovedStr, s
<1>3. CASE ~ f
  <2>1. /\ reclaim(s).mem = compact(adjust(scollect(n, q).mem)).mem
        /\ reclaim(s).free = compact(adjust(scollect(n, q).mem)).dest
        /\ reclaim(s).str = scollect(n, q).str
    BY <1>1, <1>3 DEF reclaim
  <2> QED  BY <1>3, <2>1 DEF MovedMem, MovedStr, s
<1> QED  BY <1>2, <1>3

\* A qualifier that is listed has not been changed by marking.
LEMMA QualsListed ==
    ASSUME HeapInv, StrEnd <= IntMax, NEW n, NEW q, NEW f, NEW pos,
           Threads(n, mem, Slots(mem, Reach(mem)), pos),
           Listed(q, f, mem, Slots(mem, Reach(mem))),
           Slots(mem, Reach(mem)) \in SUBSET Locations
    PROVE  Quals(n, q)
<1> DEFINE V == Slots(mem, Reach(mem))
<1>1. Heap(mem, free, Reach(mem)) /\ Texts(mem, Reach(mem), str)  BY DEF HeapInv, Reachable
<1>2. Shape(mem, free) /\ Reach(mem) \in SUBSET Blocks(mem, free)  BY <1>1 DEF Heap
<1>3. str \in Seq(Chars) /\ Len(str) <= IntMax
  <2>1. Len(str) \in Nat /\ StrEnd \in Nat /\ IntMax \in Nat
    BY <1>1, CollectorAssumption DEF Texts
  <2> QED  BY <1>1, <2>1 DEF Texts
<1>4. ASSUME NEW l \in q  PROVE l \in Locations /\ Is(n[l], "str") /\ InText(n[l], str)
  <2>1. l \in V /\ Is(mem[l], "str")  BY DEF Listed
  <2>2. l \in Locations /\ l \notin Blocks(mem, free)  BY <1>2, <2>1, SlotFacts
  <2>3. ~ Is(mem[l], "ref")  BY <2>1 DEF Is
  <2>4. n[l] = mem[l]  BY <2>2, <2>3 DEF Threads, Threaded
  <2> QED  BY <1>1, <2>1, <2>2, <2>4 DEF Texts
<1>5. n \in [Locations -> Word]  BY DEF Threads
<1> QED  BY <1>3, <1>4, <1>5 DEF Quals

\* Strings are moved, or left where they are.
LEMMA TextStep ==
    ASSUME HeapInv, StrEnd <= IntMax, NEW n, NEW q, NEW f, NEW pos,
           Threads(n, mem, Slots(mem, Reach(mem)), pos),
           Listed(q, f, mem, Slots(mem, Reach(mem))),
           Targets(mem, Slots(mem, Reach(mem))) = Reach(mem),
           Slots(mem, Reach(mem)) \in SUBSET Locations
    PROVE  \E M : /\ TextMoved(M, MovedStr(n, q, f), f)
                  /\ Threads(MovedMem(n, q, f), M, Slots(mem, Reach(mem)), pos)
<1> DEFINE L == Reach(mem)
           V == Slots(mem, L)
<1>1. Heap(mem, free, L) /\ Texts(mem, L, str)  BY DEF HeapInv, Reachable
<1>2. Shape(mem, free) /\ L \in SUBSET Blocks(mem, free)  BY <1>1 DEF Heap
<1>3. \A l \in V : mem[l] \in Word  BY <1>2, SlotFacts
<1>4. CASE f
  <2>1. \A l \in V : Is(mem[l], "str") => Placed(mem[l], mem[l], str)
    <3> SUFFICES ASSUME NEW l \in V, Is(mem[l], "str")  PROVE Placed(mem[l], mem[l], str)
      OBVIOUS
    <3>1. mem[l] = Str(mem[l][2], mem[l][3]) /\ mem[l][2] \in Nat  BY <1>3, WordKinds
    <3>2. InText(mem[l], str)  BY <1>1 DEF Texts
    <3> QED  BY <3>1, <3>2 DEF Placed, InText
  <2>2. Len(str) <= Len(str) /\ str \in Seq(Chars)
    <3>1. Len(str) \in Nat  BY <1>1 DEF Texts
    <3> QED  BY <1>1, <3>1 DEF Texts
  <2>3. TextMoved(mem, str, f)  BY <1>2, <1>4, <2>1, <2>2 DEF TextMoved
  <2> QED  BY <1>4, <2>3 DEF MovedStr, MovedMem
<1>5. CASE ~ f
  <2>1. Quals(n, q)  BY QualsListed
  <2>2. /\ Retold(scollect(n, q).mem, n, q, scollect(n, q).str)
        /\ scollect(n, q).str \in Seq(Chars) /\ Len(scollect(n, q).str) <= Len(str)
    BY <2>1, ScollectEnd
  <2>3. q = {l \in V : Is(mem[l], "str")}  BY <1>5 DEF Listed
  <2> DEFINE K == scollect(n, q).mem
             T == scollect(n, q).str
  <2>4. Targets(mem, Slots(mem, L)) \subseteq L  OBVIOUS
  <2>5. q \subseteq {l \in Slots(mem, L) : Is(mem[l], "str")}  BY <2>3
  <2>6. Threads(n, mem, Slots(mem, L), pos) /\ Retold(K, n, q, T)  BY <2>2
  <2> HIDE DEF L, K, T
  <2>7. PICK M :
          /\ Retold(M, mem, q, T)
          /\ Shape(M, free) /\ Blocks(M, free) = Blocks(mem, free)
          /\ \A a \in Blocks(mem, free) : M[a] = mem[a]
          /\ \A l \in Locations : l \notin q => M[l] = mem[l]
          /\ \A X \in SUBSET L :
               /\ Slots(M, X) = Slots(mem, X)
               /\ Targets(M, Slots(mem, X)) = Targets(mem, Slots(mem, X))
          /\ Threads(K, M, Slots(mem, L), pos)
    BY <1>2, <2>4, <2>5, <2>6, Retext
  <2>8. \A l \in V : IF Is(mem[l], "str") THEN Placed(M[l], mem[l], T) ELSE M[l] = mem[l]
    <3> SUFFICES ASSUME NEW l \in V
                 PROVE  IF Is(mem[l], "str") THEN Placed(M[l], mem[l], T) ELSE M[l] = mem[l]
      OBVIOUS
    <3>1. l \in Locations  BY <1>2, SlotFacts
    <3>2. CASE Is(mem[l], "str")  BY <2>3, <2>7, <3>2 DEF Retold
    <3>3. CASE ~ Is(mem[l], "str")  BY <2>3, <2>7, <3>1, <3>3
    <3> QED  BY <3>2, <3>3
  <2>9. \A x \in 1 .. Len(T) : \E l \in V :
          Is(mem[l], "str") /\ M[l][2] <= x /\ x < M[l][2] + mem[l][3]
    <3> SUFFICES ASSUME NEW x \in 1 .. Len(T)
                 PROVE  \E l \in V : Is(mem[l], "str") /\ M[l][2] <= x /\ x < M[l][2] + mem[l][3]
      OBVIOUS
    <3>1. PICK l \in q : M[l][2] <= x /\ x < M[l][2] + mem[l][3]  BY <2>7 DEF Retold
    <3> QED  BY <2>3, <3>1
  <2>10. T \in Seq(Chars) /\ Len(T) <= Len(str)  BY <2>2 DEF T
  <2>11. TextMoved(M, T, f)  BY <2>7, <2>8, <2>9, <2>10 DEF TextMoved, L
  <2> QED  BY <1>5, <2>7, <2>11 DEF MovedStr, MovedMem, K, T, L
<1>6. f \in BOOLEAN  BY DEF Listed
<1> QED  BY <1>4, <1>5, <1>6

\* What a collection makes of the memory before what cannot be reached is
\* forgotten.
Reclaimed(M, T, f, to, F) ==
    /\ TextMoved(M, T, f) /\ f \in BOOLEAN
    /\ Slides(to, M, Reach(mem)) /\ \A a \in Int : Moved(Reach(mem), a) = At(to, a)
    /\ Collected(F, M, Reach(mem), to)

LEMMA ReclaimEnd ==
    ASSUME HeapInv, StrEnd <= IntMax, NEW ok
    PROVE  \E M, T, f, to, F :
             /\ Reclaimed(M, T, f, to, F)
             /\ MarkRoots(ok).qualfail = f
             /\ Unmark(reclaim(MarkRoots(ok)).mem) = F
             /\ reclaim(MarkRoots(ok)).free = to[End] /\ reclaim(MarkRoots(ok)).str = T
<1> DEFINE L == Reach(mem)
           V == Slots(mem, L)
<1>1. Heap(mem, free, L) /\ curblock \in Regions  BY DEF HeapInv, Reachable
<1>2. Shape(mem, free) /\ L \in SUBSET Blocks(mem, free)  BY <1>1 DEF Heap
<1>3. PICK n, q, f, pos, i :
        /\ MarkRoots(ok) = MarkState(n, q, f, <<>>)
        /\ Threads(n, mem, V, pos)
        /\ Numbered(pos, V, i)
        /\ Listed(q, f, mem, V)
        /\ Targets(mem, V) = L
        /\ V \in SUBSET Locations
  BY <1>1, MarkRootsResult
<1> DEFINE K == MovedMem(n, q, f)
           T == MovedStr(n, q, f)
<1>4. f \in BOOLEAN  BY <1>3 DEF Listed
<1>5. PICK M : TextMoved(M, T, f) /\ Threads(K, M, V, pos)
  <2> HIDE DEF K, T
  <2> QED  BY <1>3, TextStep DEF K, T
<1>6. /\ Shape(M, free) /\ L \in SUBSET Blocks(M, free)
      /\ Slots(M, L) = V /\ Targets(M, V) = L
  <2>1. L \in SUBSET L  OBVIOUS
  <2> HIDE DEF K, T
  <2> QED  BY <1>2, <1>3, <1>5, <2>1 DEF TextMoved
<1>7. PICK to : /\ Slides(to, mem, L)
                /\ \A a \in Int : Moved(L, a) = IF InRegion(curblock, a) THEN to[a] ELSE a
  BY <1>1, <1>2, MovedSlides
<1>8. Slides(to, M, L)
  <2>1. \A a \in L : M[a] = mem[a]  BY <1>2, <1>5 DEF TextMoved
  <2> QED  BY <1>7, <2>1 DEF Slides
<1> HIDE DEF K, T, L, V
<1>9. Thread(K, M, V, pos, Base, to) /\ Start(M, Base)
  <2>1. Targets(M, V) \subseteq Blocks(M, free)  BY <1>6
  <2> QED  BY <1>1, <1>3, <1>5, <1>6, <2>1, FromBase
<1> DEFINE A == adjust(K)
<1>10. Thread(A, M, V, pos, End, to)
  <2>1. Targets(M, V) \subseteq Blocks(M, free) /\ Slides(to, M, Targets(M, V))  BY <1>6, <1>8
  <2> QED  BY <1>1, <1>3, <1>6, <1>9, <2>1, AdjustEnd
<1> HIDE DEF A
<1>11. Adjusted(A, M, L)
  <2>1. Adjusted(A, M, Targets(M, V))  BY <1>1, <1>3, <1>6, <1>10, AdjustedBy
  <2> QED  BY <1>6, <2>1
<1>12. Compacted(compact(A).mem, A, M, L, to, End) /\ compact(A).dest = to[End]
  BY <1>1, <1>6, <1>8, <1>9, <1>11, CompactEnd
<1> DEFINE b == compact(A).mem
<1> HIDE DEF b
<1>13. Collected(Unmark(b), M, L, to)
  <2>1. Targets(M, Slots(M, L)) = L /\ Thread(A, M, Slots(M, L), pos, End, to)
    BY <1>6, <1>10
  <2>2. Compacted(b, A, M, L, to, End)  BY <1>12 DEF b
  <2> QED  BY <1>1, <1>6, <1>8, <2>1, <2>2, CollectedBy
<1>14. Reclaimed(M, T, f, to, Unmark(b))
  BY <1>4, <1>5, <1>7, <1>8, <1>13 DEF Reclaimed, At, L
<1>15. /\ reclaim(MarkRoots(ok)).mem = b /\ reclaim(MarkRoots(ok)).free = to[End]
       /\ reclaim(MarkRoots(ok)).str = T
  <2>1. MarkRoots(ok) = MarkState(n, q, f, <<>>)  BY <1>3
  <2> QED  BY <1>4, <1>12, <2>1, ReclaimParts DEF b, A, K, T
<1>16. MarkRoots(ok).qualfail = f  BY <1>3, MarkParts
<1> QED  BY <1>14, <1>15, <1>16

\* A collection as a step.
LEMMA CollectStep ==
    ASSUME HeapInv, StrEnd <= IntMax, NEW ok \in BOOLEAN, Collect(ok)
    PROVE  \E M, T, f, to, F :
             /\ Reclaimed(M, T, f, to, F)
             /\ free' = Freed(to) /\ mem' = Forget(F, Freed(to)) /\ str' = T
             /\ last' = (IF f THEN "some" ELSE "all") /\ curblock' = curblock
<1>1. PICK M, T, f, to, F :
        /\ Reclaimed(M, T, f, to, F)
        /\ MarkRoots(ok).qualfail = f
        /\ Unmark(reclaim(MarkRoots(ok)).mem) = F
        /\ reclaim(MarkRoots(ok)).free = to[End] /\ reclaim(MarkRoots(ok)).str = T
  BY ReclaimEnd
<1>2. /\ free' = [free EXCEPT ![curblock] = reclaim(MarkRoots(ok)).free]
      /\ mem' = Forget(Unmark(reclaim(MarkRoots(ok)).mem), free')
      /\ str' = reclaim(MarkRoots(ok)).str
      /\ last' = (IF MarkRoots(ok).qualfail THEN "some" ELSE "all")
      /\ curblock' = curblock
  BY DEF Collect
<1>3. free' = Freed(to)  BY <1>1, <1>2 DEF Freed
<1>4. mem' = Forget(F, Freed(to)) /\ str' = T  BY <1>1, <1>2, <1>3
<1> QED  BY <1>1, <1>2, <1>3, <1>4

\* What the program sees of the word w after the collection is v.
Sees(v, w, to, T) == IF Is(w, "str") THEN Placed(v, w, T) ELSE v = Sent(to, w)

\* The memory m is that after a collection.
After(m, M, T, f, to) ==
    /\ Heap(m, Freed(to), Survivors(Reach(mem), to)) /\ Reach(m) = Survivors(Reach(mem), to)
    /\ \A w \in Words \ Used(Freed(to)) : m[w] = Nil
    /\ \A a \in Blocks(m, Freed(to)) :
         Within(curblock, Freed(to), a) => a \in Survivors(Reach(mem), to)
    /\ \A a \in Reach(mem) : m[At(to, a)] = mem[a] /\ M[a] = mem[a]
    /\ \A l, k : Pair(l, k, M, Reach(mem), to) =>
         /\ l \in Slots(mem, Reach(mem)) /\ k \in Slots(m, Survivors(Reach(mem), to))
         /\ Sees(m[k], mem[l], to, T)
         /\ Is(mem[l], "str") => m[k] = M[l]
    /\ \A k \in Slots(m, Survivors(Reach(mem), to)) : \E l : Pair(l, k, M, Reach(mem), to)
    /\ \A l \in Slots(mem, Reach(mem)) : \E k : Pair(l, k, M, Reach(mem), to)

LEMMA AfterCollect ==
    ASSUME HeapInv, NEW M, NEW T, NEW f, NEW to, NEW F, Reclaimed(M, T, f, to, F)
    PROVE  After(Forget(F, Freed(to)), M, T, f, to)
<1> DEFINE L == Reach(mem)
           S == Survivors(L, to)
           fr == Freed(to)
           G == Forget(F, fr)
<1>1. Heap(mem, free, L) /\ curblock \in Regions  BY DEF HeapInv, Reachable
<1>2. Shape(mem, free) /\ L \in SUBSET Blocks(mem, free) /\ Targets(mem, Slots(mem, L)) \subseteq L
  BY <1>1 DEF Heap
<1>3. \A X : Targets(mem, Slots(mem, X)) \subseteq X => L \subseteq X  BY <1>1, ReachHeap
<1>4. /\ TextMoved(M, T, f) /\ Slides(to, M, L) /\ Collected(F, M, L, to)
  BY DEF Reclaimed
<1>5. /\ Shape(M, free) /\ Blocks(M, free) = Blocks(mem, free)
      /\ \A a \in Blocks(mem, free) : M[a] = mem[a]
      /\ \A l \in Slots(mem, L) :
           IF Is(mem[l], "str") THEN Placed(M[l], mem[l], T) ELSE M[l] = mem[l]
      /\ \A X \in SUBSET L :
           /\ Slots(M, X) = Slots(mem, X)
           /\ Targets(M, Slots(mem, X)) = Targets(mem, Slots(mem, X))
  BY <1>4 DEF TextMoved
<1>6. L \in SUBSET L /\ L \in SUBSET Blocks(M, free)  BY <1>2, <1>5
<1> HIDE DEF L, S, fr, G
<1>7. Slots(M, L) = Slots(mem, L) /\ Targets(M, Slots(M, L)) \subseteq L  BY <1>2, <1>5, <1>6
<1>8. \A X \in SUBSET L : Targets(M, Slots(M, X)) \subseteq X => L \subseteq X
  BY <1>3, <1>5
<1>9. Heap(F, fr, S) /\ Reach(F) = S
  <2>1. Heap(F, Freed(to), Survivors(L, to)) /\ Reach(F) = Survivors(L, to)
    BY <1>1, <1>4, <1>5, <1>6, <1>7, <1>8, NewHeap
  <2> QED  BY <2>1 DEF fr, S
<1>10. /\ Heap(G, fr, S) /\ Reach(G) = S
       /\ Blocks(G, fr) = Blocks(F, fr)
       /\ Slots(G, S) = Slots(F, S)
       /\ \A l \in Slots(F, S) : G[l] = F[l]
       /\ \A a \in S : G[a] = F[a]
       /\ \A w \in Words \ Used(fr) : G[w] = Nil
  BY <1>9, ForgetFacts DEF G
<1>11. \A a \in Blocks(G, fr) : Within(curblock, fr, a) => a \in S
  <2>1. \A a \in Blocks(F, Freed(to)) : Within(curblock, Freed(to), a) => a \in Survivors(L, to)
    BY <1>1, <1>4, <1>5, <1>6, NewShape
  <2> QED  BY <1>10, <2>1 DEF fr, S
<1>12. ASSUME NEW a \in L  PROVE G[At(to, a)] = mem[a] /\ M[a] = mem[a]
  <2>1. At(to, a) \in S  BY DEF S, Survivors
  <2>2. F[At(to, a)] = M[a]  BY <1>4 DEF Collected
  <2>3. M[a] = mem[a]  BY <1>2, <1>5
  <2> QED  BY <1>10, <2>1, <2>2, <2>3
<1>13. ASSUME NEW l, NEW k, Pair(l, k, M, L, to)
       PROVE  /\ l \in Slots(mem, L) /\ k \in Slots(G, S)
              /\ Sees(G[k], mem[l], to, T)
              /\ Is(mem[l], "str") => G[k] = M[l]
  <2>0. Pair(l, k, M, L, to)  BY <1>13
  <2>1. l \in Slots(M, L) /\ k \in Slots(F, Survivors(L, to)) /\ F[k] = Sent(to, M[l])
    BY ONLY <1>1, <1>4, <1>5, <1>6, <2>0, PairFacts
  <2>2. l \in Slots(mem, L) /\ k \in Slots(F, S) /\ k \in Slots(G, S) /\ G[k] = Sent(to, M[l])
    BY <1>7, <1>10, <2>1 DEF S
  <2>3. M[l] \in Word  BY <1>5, <1>6, <2>1, SlotFacts
  <2>4. CASE Is(mem[l], "str")
    <3>1. Placed(M[l], mem[l], T)  BY <1>5, <2>2, <2>4
    <3>2. Is(M[l], "str") /\ ~ Is(M[l], "ref")
      <4>1. M[l] = Str(M[l][2], mem[l][3])  BY <3>1 DEF Placed
      <4>2. Is(M[l], "str")  BY <4>1, KindsOfWords
      <4> QED  BY <4>2 DEF Is
    <3>3. G[k] = M[l]  BY <2>2, <2>3, <3>2, SentKinds
    <3> QED  BY <2>2, <2>4, <3>1, <3>3 DEF Sees
  <2>5. CASE ~ Is(mem[l], "str")
    <3>1. M[l] = mem[l]  BY <1>5, <2>2, <2>5
    <3> QED  BY <2>2, <2>5, <3>1 DEF Sees
  <2> QED  BY <2>4, <2>5
<1>14. /\ \A k \in Slots(F, Survivors(L, to)) : \E l : Pair(l, k, M, L, to)
       /\ \A l \in Slots(M, L) : \E k : Pair(l, k, M, L, to)
  BY ONLY <1>1, <1>4, <1>5, <1>6, Paired
<1>15. /\ \A k \in Slots(G, S) : \E l : Pair(l, k, M, L, to)
       /\ \A l \in Slots(mem, L) : \E k : Pair(l, k, M, L, to)
  BY <1>7, <1>10, <1>14 DEF S
<1> QED  BY <1>10, <1>11, <1>12, <1>13, <1>15 DEF After, L, S, fr, G

\* A collection leaves a heap, and none of its garbage if it could list the
\* qualifiers.
LEMMA CollectHeap ==
    ASSUME HeapInv, StrEnd <= IntMax, NEW ok \in BOOLEAN, Collect(ok)
    PROVE  HeapInv'
<1> DEFINE L == Reach(mem)
<1>1. PICK M, T, f, to, F :
        /\ Reclaimed(M, T, f, to, F)
        /\ free' = Freed(to) /\ mem' = Forget(F, Freed(to)) /\ str' = T
        /\ last' = (IF f THEN "some" ELSE "all") /\ curblock' = curblock
  BY CollectStep
<1>2. After(mem', M, T, f, to)  BY <1>1, AfterCollect
<1>3. TextMoved(M, T, f) /\ f \in BOOLEAN  BY <1>1 DEF Reclaimed
<1>4. Heap(mem, free, L) /\ Texts(mem, L, str) /\ curblock \in Regions
  BY DEF HeapInv, Reachable
<1>5. Shape(mem, free) /\ L \in SUBSET Blocks(mem, free)  BY <1>4 DEF Heap
<1> DEFINE m == mem'
           R == Survivors(L, to)
           fr == Freed(to)
<1> HIDE DEF L, m
<1>6. /\ Heap(m, fr, R) /\ Reach(m) = R
      /\ \A w \in Words \ Used(fr) : m[w] = Nil
      /\ \A a \in Blocks(m, fr) : Within(curblock, fr, a) => a \in R
      /\ \A l, k : Pair(l, k, M, L, to) =>
           /\ l \in Slots(mem, L) /\ k \in Slots(m, R)
           /\ Sees(m[k], mem[l], to, T)
           /\ Is(mem[l], "str") => m[k] = M[l]
      /\ \A k \in Slots(m, R) : \E l : Pair(l, k, M, L, to)
      /\ \A l \in Slots(mem, L) : \E k : Pair(l, k, M, L, to)
  BY <1>2 DEF After, L, m
<1> HIDE DEF R, fr
<1>7. Texts(m, R, T)
  <2>1. T \in Seq(Chars) /\ Len(T) <= StrEnd
    <3>1. T \in Seq(Chars) /\ Len(T) <= Len(str) /\ Len(str) <= StrEnd /\ str \in Seq(Chars)
      BY <1>3, <1>4 DEF TextMoved, Texts
    <3>2. Len(T) \in Nat /\ Len(str) \in Nat /\ StrEnd \in Nat  BY <3>1, CollectorAssumption
    <3> QED  BY <3>1, <3>2
  <2>2. ASSUME NEW k \in Slots(m, R), Is(m[k], "str")  PROVE InText(m[k], T)
    <3>1. PICK l : Pair(l, k, M, L, to)  BY <1>6
    <3>2. l \in Slots(mem, L) /\ Sees(m[k], mem[l], to, T)  BY <1>6, <3>1
    <3>3. mem[l] \in Word  BY <1>5, <3>2, SlotFacts
    <3>4. Is(mem[l], "str")
      <4> SUFFICES ASSUME ~ Is(mem[l], "str")  PROVE FALSE
        OBVIOUS
      <4>1. m[k] = Sent(to, mem[l])  BY <3>2 DEF Sees
      <4>2. CASE Is(mem[l], "ref")
        <5>1. Is(m[k], "ref")  BY <3>3, <4>1, <4>2, SentKinds
        <5> QED  BY <2>2, <5>1 DEF Is
      <4>3. CASE ~ Is(mem[l], "ref")
        <5>1. m[k] = mem[l]  BY <3>3, <4>1, <4>3, SentKinds
        <5> QED  BY <2>2, <5>1
      <4> QED  BY <4>2, <4>3
    <3>5. Placed(m[k], mem[l], T)  BY <3>2, <3>4 DEF Sees
    <3>6. m[k][3] = mem[l][3]
      <4>1. m[k] = Str(m[k][2], mem[l][3])  BY <3>5 DEF Placed
      <4> QED  BY <4>1, KindsOfWords
    <3> QED  BY <3>5, <3>6 DEF Placed, InText
  <2> QED  BY <2>1, <2>2 DEF Texts
<1>8. ASSUME ~ f, NEW x \in 1 .. Len(T)
      PROVE  \E k \in Slots(m, R) : Is(m[k], "str") /\ m[k][2] <= x /\ x < m[k][2] + m[k][3]
  <2>1. PICK l \in Slots(mem, L) : Is(mem[l], "str") /\ M[l][2] <= x /\ x < M[l][2] + mem[l][3]
    BY <1>3, <1>8 DEF TextMoved, L
  <2>2. PICK k : Pair(l, k, M, L, to)  BY <1>6
  <2>3. k \in Slots(m, R) /\ m[k] = M[l] /\ Placed(m[k], mem[l], T)
    BY <1>6, <2>1, <2>2 DEF Sees
  <2>4. Is(m[k], "str") /\ m[k][3] = mem[l][3]
    <3>1. m[k] = Str(m[k][2], mem[l][3])  BY <2>3 DEF Placed
    <3> QED  BY <3>1, KindsOfWords
  <2> QED  BY <2>1, <2>3, <2>4
<1>9. last' = "all" => ~ f  BY <1>1
<1>10. last' = "all" => Clean(m, R, fr, curblock, T)
  BY <1>6, <1>8, <1>9 DEF Clean
<1>11. /\ mem' = m /\ free' = fr /\ str' = T /\ curblock' = curblock
       /\ Reachable' = R
  BY <1>1, <1>6 DEF m, fr, Reachable
<1> QED  BY <1>4, <1>6, <1>7, <1>10, <1>11 DEF HeapInv

-----------------------------------------------------------------------------
(* What the program sees *)

\* The n characters of t from p.
Cut(t, p, n) == SubSeq(t, p, p + n - 1)

\* The n characters of t from p are those of s from q.
SameChars(t, p, s, q, n) == \A d \in 0 .. n - 1 : t[p + d] = s[q + d]

\* Texts of the same characters are the same.
LEMMA SameText ==
    ASSUME NEW s \in Seq(Chars), NEW t \in Seq(Chars), NEW p \in Nat, NEW q \in Nat, NEW n \in Nat,
           p >= 1, q >= 1, p + n <= Len(t) + 1, q + n <= Len(s) + 1, SameChars(t, p, s, q, n)
    PROVE  Cut(t, p, n) = Cut(s, q, n)
<1> DEFINE u == SubSeq(t, p, p + n - 1)
           v == SubSeq(s, q, q + n - 1)
<1>1. /\ u \in Seq(Chars) /\ Len(u) = n /\ \A i \in 1..n : u[i] = t[p + i - 1]
  <2>1. p \in 1 .. Len(t) + 1 /\ p + n - 1 \in p - 1 .. Len(t) /\ Len(t) \in Nat  OBVIOUS
  <2> QED  BY <2>1, SubSeqProperties
<1>2. /\ v \in Seq(Chars) /\ Len(v) = n /\ \A i \in 1..n : v[i] = s[q + i - 1]
  <2>1. q \in 1 .. Len(s) + 1 /\ q + n - 1 \in q - 1 .. Len(s) /\ Len(s) \in Nat  OBVIOUS
  <2> QED  BY <2>1, SubSeqProperties
<1> HIDE DEF u, v
<1>3. ASSUME NEW i \in 1..n  PROVE u[i] = v[i]
  <2>1. i - 1 \in 0 .. n - 1 /\ p + (i - 1) = p + i - 1 /\ q + (i - 1) = q + i - 1  OBVIOUS
  <2>2. t[p + (i - 1)] = s[q + (i - 1)]  BY <2>1 DEF SameChars
  <2> QED  BY <1>1, <1>2, <2>1, <2>2
<1>4. u = v  BY <1>1, <1>2, <1>3, SeqEqual
<1> QED  BY <1>4 DEF u, v, Cut

\* A word that the collection has moved is the same to the program.
LEMMA SameWordKept ==
    ASSUME HeapInv, NEW T \in Seq(Chars), str' = T, NEW to,
           \A a \in Int : Moved(Reach(mem), a) = At(to, a),
           NEW l \in Slots(mem, Reach(mem)), NEW k, Sees(mem'[k], mem[l], to, T)
    PROVE  SameWord(Reach(mem), l, k)
<1> DEFINE L == Reach(mem)
<1>1. Heap(mem, free, L) /\ Texts(mem, L, str)  BY DEF HeapInv, Reachable
<1>2. Shape(mem, free) /\ L \in SUBSET Blocks(mem, free) /\ Targets(mem, Slots(mem, L)) \subseteq L
  BY <1>1 DEF Heap
<1>3. mem[l] \in Word  BY <1>2, SlotFacts
<1> DEFINE w == mem[l]
           v == mem'[k]
<1>4. CASE Is(mem[l], "ref")
  <2>1. ~ Is(mem[l], "str")  BY <1>4 DEF Is
  <2>2. v = Ref(At(to, mem[l][2]))  BY <1>3, <1>4, <2>1, SentKinds DEF Sees
  <2>3. mem[l][2] \in L  BY <1>2, <1>4 DEF Targets
  <2>4. mem[l][2] \in Blocks(mem, free)  BY <1>2, <2>3
  <2>5. mem[l][2] \in Int
    <3> DEFINE a == mem[l][2]
    <3> HIDE DEF a
    <3>1. a \in Blocks(mem, free)  BY <2>4 DEF a
    <3>2. a \in Nat  BY <1>2, <3>1, BlockFacts
    <3> QED  BY <3>2 DEF a
  <2>6. v = Ref(Moved(L, mem[l][2]))  BY <2>2, <2>5
  <2> QED  BY <1>4, <2>1, <2>6 DEF SameWord
<1>5. CASE Is(mem[l], "str")
  <2>1. ~ Is(mem[l], "ref")  BY <1>5 DEF Is
  <2>2. Placed(v, w, T)  BY <1>5 DEF Sees
  <2>3. InText(w, str)  BY <1>1, <1>5 DEF Texts
  <2>4. w[2] \in Nat /\ w[3] \in Nat  BY <1>3, <1>5, WordKinds
  <2>5. v = Str(v[2], w[3]) /\ v[2] \in Nat
        /\ v[2] >= 1 /\ v[2] + w[3] <= Len(T) + 1
        /\ \A d \in 0 .. w[3] - 1 : T[v[2] + d] = str[w[2] + d]
    BY <2>2 DEF Placed
  <2>6. Is(v, "str") /\ v[3] = w[3]  BY <2>5, KindsOfWords
  <2>7. str \in Seq(Chars) /\ w[2] >= 1 /\ w[2] + w[3] <= Len(str) + 1
    BY <1>1, <2>3 DEF Texts, InText
  <2>8. SubSeq(T, v[2], v[2] + w[3] - 1) = SubSeq(str, w[2], w[2] + w[3] - 1)
    <3> DEFINE p == v[2]
               q == w[2]
               n == w[3]
    <3>1. p \in Nat /\ q \in Nat /\ n \in Nat /\ p >= 1 /\ q >= 1 /\ p + n <= Len(T) + 1
          /\ q + n <= Len(str) + 1 /\ str \in Seq(Chars) /\ T \in Seq(Chars)
          /\ SameChars(T, p, str, q, n)
      BY <2>4, <2>5, <2>7 DEF SameChars
    <3> HIDE DEF p, q, n
    <3>2. Cut(T, p, n) = Cut(str, q, n)  BY ONLY <3>1, SameText
    <3> QED  BY <3>2 DEF p, q, n, Cut
  <2>9. Text(mem', str', k) = Text(mem, str, l)  BY <2>6, <2>8 DEF Text
  <2>10. mem'[k][2] >= 1 /\ mem'[k][2] + mem'[k][3] <= Len(str') + 1  BY <2>5, <2>6
  <2> QED  BY <1>5, <2>1, <2>6, <2>9, <2>10 DEF SameWord
<1>6. CASE ~ Is(mem[l], "ref") /\ ~ Is(mem[l], "str")
  <2>1. v = mem[l]  BY <1>3, <1>6, SentKinds DEF Sees
  <2> QED  BY <1>6, <2>1 DEF SameWord
<1> QED  BY <1>4, <1>5, <1>6

\* No variable and no field of a block that is reached has changed.
KeptAt(live) ==
    /\ \A r \in Roots : SameWord(live, r, r)
    /\ \A a \in live :
         /\ mem'[Moved(live, a)] = mem[a]
         /\ \A i \in 1 .. Fields(mem[a][2]) :
              SameWord(live, FieldsAt(a, mem[a][2])[i],
                       FieldsAt(Moved(live, a), mem[a][2])[i])

LEMMA CollectSees ==
    ASSUME HeapInv, StrEnd <= IntMax, NEW ok \in BOOLEAN, Collect(ok)
    PROVE  KeptAt(Reach(mem))
<1> DEFINE L == Reach(mem)
<1>1. PICK M, T, f, to, F :
        /\ Reclaimed(M, T, f, to, F)
        /\ free' = Freed(to) /\ mem' = Forget(F, Freed(to)) /\ str' = T
        /\ last' = (IF f THEN "some" ELSE "all") /\ curblock' = curblock
  BY CollectStep
<1>2. After(mem', M, T, f, to)  BY <1>1, AfterCollect
<1>3. T \in Seq(Chars) /\ \A a \in Int : Moved(L, a) = At(to, a)
  BY <1>1 DEF Reclaimed, TextMoved
<1>4. Heap(mem, free, L)  BY DEF HeapInv, Reachable
<1>5. Shape(mem, free) /\ L \in SUBSET Blocks(mem, free)  BY <1>4 DEF Heap
<1> HIDE DEF L
<1>6. /\ \A a \in L : mem'[At(to, a)] = mem[a] /\ M[a] = mem[a]
      /\ \A l, k : Pair(l, k, M, L, to) => l \in Slots(mem, L) /\ Sees(mem'[k], mem[l], to, T)
  BY <1>2 DEF After, L
<1>7. ASSUME NEW l, NEW k, Pair(l, k, M, L, to)  PROVE SameWord(L, l, k)
  <2>1. l \in Slots(mem, L) /\ Sees(mem'[k], mem[l], to, T)  BY <1>6, <1>7
  <2> QED  BY <1>1, <1>3, <2>1, SameWordKept DEF L
<1>8. ASSUME NEW r \in Roots  PROVE SameWord(L, r, r)
  <2>1. Pair(r, r, M, L, to)  BY DEF Pair
  <2> QED  BY <1>7, <2>1
<1>9. ASSUME NEW a \in L
      PROVE  /\ mem'[Moved(L, a)] = mem[a]
             /\ \A i \in 1 .. Fields(mem[a][2]) :
                  SameWord(L, FieldsAt(a, mem[a][2])[i], FieldsAt(Moved(L, a), mem[a][2])[i])
  <2>1. a \in Nat  BY <1>5, BlockFacts
  <2>2. Moved(L, a) = At(to, a)  BY <1>3, <2>1
  <2>3. ASSUME NEW i \in 1 .. Fields(mem[a][2])
        PROVE  SameWord(L, FieldsAt(a, mem[a][2])[i], FieldsAt(Moved(L, a), mem[a][2])[i])
    <3> DEFINE l == FieldsAt(a, mem[a][2])[i]
               k == FieldsAt(At(to, a), mem[a][2])[i]
    <3>1. Pair(l, k, M, L, to)
      <4>1. M[a] = mem[a]  BY <1>6
      <4> QED  BY <4>1 DEF Pair
    <3> HIDE DEF l, k
    <3>2. SameWord(L, l, k)  BY <1>7, <3>1
    <3> QED  BY <2>2, <3>2 DEF l, k
  <2> QED  BY <1>6, <2>2, <2>3
<1> QED  BY <1>8, <1>9 DEF KeptAt, L

-----------------------------------------------------------------------------
(* The steps of the program *)

\* The memory m with w at r.
Written(m, r, w) == [m EXCEPT ![r] = w]

\* A slot gets a word that refers to a block at B or to text.
LEMMA WrittenHeap ==
    ASSUME NEW m, NEW fr, NEW B, Heap(m, fr, B), NEW r \in Slots(m, B), NEW w \in Word,
           ~ Is(w, "title"), ~ Is(w, "marked"), Is(w, "ref") => w[2] \in B,
           NEW s, Texts(m, B, s), Is(w, "str") => InText(w, s)
    PROVE  Heap(Written(m, r, w), fr, B) /\ Texts(Written(m, r, w), B, s)
<1> DEFINE G == Written(m, r, w)
<1>1. /\ Shape(m, fr) /\ B \in SUBSET Blocks(m, fr) /\ Targets(m, Slots(m, B)) \subseteq B
      /\ m \in [Locations -> Word]
  BY DEF Heap, Shape
<1>2. r \in Locations /\ r \notin Blocks(m, fr) /\ ~ Is(m[r], "title")  BY <1>1, SlotFacts
<1>3. /\ G \in [Locations -> Word] /\ G[r] = w
      /\ \A l \in Locations : l # r => G[l] = m[l]
  BY <1>1, <1>2 DEF Written
<1> HIDE DEF G
<1>4. SameTitles(G, m, fr)
  <2> SUFFICES ASSUME NEW l \in Used(fr)
               PROVE  /\ Is(G[l], "title") <=> Is(m[l], "title")
                      /\ Is(m[l], "title") => G[l] = m[l]
    BY DEF SameTitles
  <2>1. l \in Locations  BY DEF Used, Locations
  <2> QED  BY <1>2, <1>3, <2>1
<1>5. Tiled(G, fr) /\ Blocks(G, fr) = Blocks(m, fr)  BY <1>1, <1>4, TiledToo
<1>6. Shape(G, fr)
  <2>1. \A l \in Locations : ~ Is(G[l], "marked")  BY <1>1, <1>3 DEF Shape
  <2>2. \A x \in Roots : ~ Is(G[x], "title")  BY <1>1, <1>3 DEF Shape, Locations
  <2> QED  BY <1>1, <1>3, <1>5, <2>1, <2>2 DEF Shape
<1>7. Slots(G, B) = Slots(m, B)
  <2>1. \A a \in B : a \in Locations /\ a # r  BY <1>1, <1>2, BlockFacts
  <2>2. \A a \in B : G[a] = m[a]  BY <1>3, <2>1
  <2> QED  BY <2>2 DEF Slots
<1>8. \A l \in Slots(m, B) : l \in Locations  BY <1>1, SlotFacts
<1>9. ASSUME NEW l \in Slots(m, B), Is(G[l], "ref")  PROVE G[l][2] \in B
  <2>1. CASE l = r  BY <1>3, <1>9, <2>1
  <2>2. CASE l # r
    <3>1. G[l] = m[l]  BY <1>3, <1>8, <2>2
    <3> QED  BY <1>1, <1>9, <3>1 DEF Targets
  <2> QED  BY <2>1, <2>2
<1>10. Targets(G, Slots(G, B)) \subseteq B  BY <1>7, <1>9 DEF Targets
<1>11. Texts(G, B, s)
  <2>1. ASSUME NEW l \in Slots(m, B), Is(G[l], "str")  PROVE InText(G[l], s)
    <3>1. CASE l = r  BY <1>3, <2>1, <3>1
    <3>2. CASE l # r
      <4>1. G[l] = m[l]  BY <1>3, <1>8, <3>2
      <4> QED  BY <2>1, <4>1 DEF Texts
    <3> QED  BY <3>1, <3>2
  <2> QED  BY <1>7, <2>1 DEF Texts
<1> QED  BY <1>1, <1>5, <1>6, <1>10, <1>11 DEF Heap, G

\* What the program writes is a heap again.
LEMMA PutKeeps ==
    ASSUME NEW m, NEW B, Heap(m, free', B), Texts(m, B, str'), curblock' \in Regions, Put(m)
    PROVE  HeapInv'
<1> DEFINE fr == free'
           G == Forget(m, fr)
           R == Reach(m)
           s == str'
<1> HIDE DEF fr, s
<1>1. Heap(m, fr, B) /\ Texts(m, B, s)  BY DEF fr, s
<1>2. /\ Heap(G, fr, R) /\ Reach(G) = R
      /\ Slots(G, R) = Slots(m, R)
      /\ \A l \in Slots(m, R) : G[l] = m[l]
      /\ \A w \in Words \ Used(fr) : G[w] = Nil
  BY <1>1, ForgetFacts
<1>3. R \subseteq B  BY <1>1, ReachHeap
<1> HIDE DEF G, R
<1>4. Slots(m, R) \subseteq Slots(m, B)  BY <1>3, Onward
<1>5. Texts(G, R, s)  BY <1>1, <1>2, <1>4 DEF Texts
<1>6. mem' = G /\ last' = "program" /\ free' = fr /\ str' = s  BY DEF Put, fr, s, G
<1>7. Reachable' = R  BY <1>2, <1>6 DEF Reachable
<1> QED  BY <1>2, <1>5, <1>6, <1>7 DEF HeapInv

LEMMA InvFacts ==
    ASSUME HeapInv
    PROVE  /\ Heap(mem, free, Reach(mem)) /\ Texts(mem, Reach(mem), str) /\ curblock \in Regions
           /\ Shape(mem, free) /\ Reach(mem) \in SUBSET Blocks(mem, free)
           /\ mem \in [Locations -> Word]
           /\ \A l \in Slots(mem, Reach(mem)) :
                /\ mem[l] \in Word /\ ~ Is(mem[l], "title") /\ ~ Is(mem[l], "marked")
                /\ Is(mem[l], "ref") => mem[l][2] \in Reach(mem)
                /\ Is(mem[l], "str") => InText(mem[l], str)
           /\ Roots \subseteq Slots(mem, Reach(mem))
<1>1. Heap(mem, free, Reach(mem)) /\ Texts(mem, Reach(mem), str) /\ curblock \in Regions
  BY DEF HeapInv, Reachable
<1>2. Shape(mem, free) /\ Reach(mem) \in SUBSET Blocks(mem, free) /\ mem \in [Locations -> Word]
  BY <1>1 DEF Heap, Shape
<1>3. \A l \in Slots(mem, Reach(mem)) :
        mem[l] \in Word /\ ~ Is(mem[l], "title") /\ ~ Is(mem[l], "marked")
  BY <1>2, SlotFacts
<1>4. \A l \in Slots(mem, Reach(mem)) : Is(mem[l], "ref") => mem[l][2] \in Reach(mem)
  BY <1>1, Followed
<1>5. \A l \in Slots(mem, Reach(mem)) : Is(mem[l], "str") => InText(mem[l], str)
  BY <1>1 DEF Texts
<1>6. Roots \subseteq Slots(mem, Reach(mem))  BY DEF Slots
<1> QED  BY <1>1, <1>2, <1>3, <1>4, <1>5, <1>6

\* A word that the program can see is assigned to a slot.
LEMMA AssignKeeps ==
    ASSUME HeapInv, NEW r \in Slots(mem, Reach(mem)), NEW w \in Word,
           ~ Is(w, "title"), ~ Is(w, "marked"), Is(w, "ref") => w[2] \in Reach(mem),
           Is(w, "str") => InText(w, str), Assign(r, w)
    PROVE  HeapInv'
<1> DEFINE m == Written(mem, r, w)
           B == Reach(mem)
<1>1. Heap(mem, free, B) /\ Texts(mem, B, str) /\ curblock \in Regions  BY InvFacts
<1>2. free' = free /\ curblock' = curblock /\ str' = str /\ Put(m)  BY DEF Assign, Written
<1> HIDE DEF B
<1>3. Heap(m, free, B) /\ Texts(m, B, str)  BY <1>1, WrittenHeap DEF B
<1> HIDE DEF m
<1> QED  BY <1>1, <1>2, <1>3, PutKeeps

LEMMA AssignStep ==
    ASSUME HeapInv, NEW r \in Slots(mem, Reach(mem)), NEW l \in Slots(mem, Reach(mem)),
           Assign(r, mem[l])
    PROVE  HeapInv'
BY InvFacts, AssignKeeps

LEMMA NilStep ==
    ASSUME HeapInv, NEW r \in Roots, Assign(r, Nil)
    PROVE  HeapInv'
<1>1. /\ Nil \in Word /\ ~ Is(Nil, "title") /\ ~ Is(Nil, "marked") /\ ~ Is(Nil, "ref")
      /\ ~ Is(Nil, "str")
  BY KindsOfWords DEF Is, Nil
<1>2. r \in Slots(mem, Reach(mem))  BY InvFacts
<1> QED  BY <1>1, <1>2, AssignKeeps

\* The fields of a block that a variable refers to.
LEMMA FieldSlots ==
    ASSUME HeapInv, NEW q \in Roots, Is(mem[q], "ref")
    PROVE  /\ mem[q][2] \in Reach(mem) /\ mem[q][2] \in Nat /\ mem[mem[q][2]][2] \in Types
           /\ ToSet(FieldsAt(mem[q][2], mem[mem[q][2]][2])) \subseteq Slots(mem, Reach(mem))
<1> DEFINE a == mem[q][2]
<1>1. a \in Reach(mem) /\ Shape(mem, free) /\ Reach(mem) \in SUBSET Blocks(mem, free)
  BY InvFacts
<1> HIDE DEF a
<1>2. a \in Nat /\ mem[a][2] \in Types
  <2>1. a \in Blocks(mem, free)  BY <1>1
  <2> QED  BY <1>1, <2>1, BlockFacts
<1>3. ToSet(FieldsAt(a, mem[a][2])) \subseteq Slots(mem, Reach(mem))  BY <1>1, SlotOf
<1> QED  BY <1>1, <1>2, <1>3 DEF a

LEMMA FetchStep ==
    ASSUME HeapInv, NEW r \in Roots, NEW q \in Roots, Fetch(r, q)
    PROVE  HeapInv'
<1>1. Is(mem[q], "ref")  BY DEF Fetch
<1>2. PICK l \in ToSet(FieldsAt(mem[q][2], mem[mem[q][2]][2])) : Assign(r, mem[l])  BY DEF Fetch
<1>3. l \in Slots(mem, Reach(mem)) /\ r \in Slots(mem, Reach(mem))
  BY <1>1, FieldSlots, InvFacts
<1> QED  BY <1>2, <1>3, AssignStep

LEMMA StoreStep ==
    ASSUME HeapInv, NEW r \in Roots, NEW q \in Roots, Store(r, q)
    PROVE  HeapInv'
<1> DEFINE a == mem[r][2]
           t == mem[a][2]
<1>1. Is(mem[r], "ref")  BY DEF Store
<1>2. PICK i \in 1 .. Fields(t) : Assign(FieldsAt(a, t)[i], mem[q])  BY DEF Store
<1>3. a \in Nat /\ t \in Types /\ ToSet(FieldsAt(a, t)) \subseteq Slots(mem, Reach(mem))
  BY <1>1, FieldSlots
<1> HIDE DEF a, t
<1>4. FieldsAt(a, t)[i] \in ToSet(FieldsAt(a, t))  BY <1>3, ToSetOf
<1>5. FieldsAt(a, t)[i] \in Slots(mem, Reach(mem))  BY <1>3, <1>4
<1>6. q \in Slots(mem, Reach(mem))  BY InvFacts
<1> QED  BY <1>2, <1>5, <1>6, AssignStep

LEMMA SubstringStep ==
    ASSUME HeapInv, NEW r \in Roots, NEW q \in Roots, NEW i \in Nat, NEW n \in Nat,
           Substring(r, q, i, n)
    PROVE  HeapInv'
<1> DEFINE B == Reach(mem)
           w == Str(mem[q][2] + i, n)
           m == Written(mem, r, w)
<1>1. Heap(mem, free, B) /\ Texts(mem, B, str) /\ curblock \in Regions
      /\ r \in Slots(mem, B) /\ q \in Slots(mem, B)
  BY InvFacts
<1>2. Is(mem[q], "str") /\ i + n <= mem[q][3]  BY DEF Substring
<1>3. mem[q] \in Word /\ InText(mem[q], str)  BY <1>1, <1>2, InvFacts
<1>4. mem[q][2] \in Nat /\ mem[q][3] \in Nat  BY <1>2, <1>3, WordKinds
<1>5. Is(w, "str") /\ w[2] = mem[q][2] + i /\ w[3] = n  BY KindsOfWords
<1>6. w \in Word
  <2>1. mem[q][2] + i \in Nat  BY <1>4
  <2> QED  BY <2>1, KindsOfWords
<1>7. InText(w, str)
  <2> DEFINE p == mem[q][2]
             z == mem[q][3]
             k == Len(str)
  <2>1. p \in Nat /\ z \in Nat /\ k \in Nat /\ i \in Nat /\ n \in Nat
        /\ p >= 1 /\ p + z <= k + 1 /\ i + n <= z
    BY <1>1, <1>2, <1>3, <1>4 DEF Texts, InText
  <2> HIDE DEF p, z, k
  <2>2. p + i >= 1 /\ (p + i) + n <= k + 1  BY ONLY <2>1
  <2>3. w[2] = p + i /\ w[3] = n  BY <1>5 DEF p
  <2> HIDE DEF w
  <2> QED  BY <2>2, <2>3 DEF InText, k
<1>8. free' = free /\ curblock' = curblock /\ str' = str /\ Put(m)  BY DEF Substring, Written
<1>9. ~ Is(w, "title") /\ ~ Is(w, "marked") /\ ~ Is(w, "ref")  BY <1>5 DEF Is
<1> HIDE DEF B, w
<1>10. Heap(m, free, B) /\ Texts(m, B, str)  BY <1>1, <1>6, <1>7, <1>9, WrittenHeap
<1> HIDE DEF m
<1> QED  BY <1>1, <1>8, <1>10, PutKeeps

LEMMA NewStringStep ==
    ASSUME HeapInv, NEW r \in Roots, NEW c \in Chars, NewString(r, c)
    PROVE  HeapInv'
<1> DEFINE B == Reach(mem)
           w == Str(Len(str) + 1, 1)
           m == Written(mem, r, w)
           s == Append(str, c)
<1>1. Heap(mem, free, B) /\ Texts(mem, B, str) /\ curblock \in Regions
      /\ r \in Slots(mem, B)
  BY InvFacts
<1>2. str \in Seq(Chars) /\ Len(str) \in Nat  BY <1>1 DEF Texts
<1>3. s \in Seq(Chars) /\ Len(s) = Len(str) + 1  BY <1>2
<1>4. Len(str) < StrEnd /\ StrEnd \in Nat  BY CollectorAssumption DEF NewString
<1>5. free' = free /\ curblock' = curblock /\ str' = s /\ Put(m)  BY DEF NewString, Written
<1>6. Is(w, "str") /\ w[2] = Len(str) + 1 /\ w[3] = 1  BY KindsOfWords
<1>7. w \in Word  BY <1>2, KindsOfWords
<1> HIDE DEF s, w, m
<1>8. InText(w, s)  BY <1>2, <1>3, <1>6 DEF InText
<1>9. ~ Is(w, "title") /\ ~ Is(w, "marked") /\ ~ Is(w, "ref")  BY <1>6 DEF Is
<1>10. Texts(mem, B, s)
  <2>1. ASSUME NEW l \in Slots(mem, B), Is(mem[l], "str")  PROVE InText(mem[l], s)
    <3>1. mem[l] \in Word /\ InText(mem[l], str)  BY <2>1, InvFacts
    <3>2. mem[l][2] \in Nat /\ mem[l][3] \in Nat  BY <2>1, <3>1, WordKinds
    <3> QED  BY <1>2, <1>3, <3>1, <3>2 DEF InText
  <2> QED  BY <1>2, <1>3, <1>4, <2>1 DEF Texts
<1> HIDE DEF B
<1>11. Heap(m, free, B) /\ Texts(m, B, s)  BY <1>1, <1>7, <1>8, <1>9, <1>10, WrittenHeap DEF m
<1> QED  BY <1>1, <1>5, <1>11, PutKeeps

LEMMA UseRegionStep ==
    ASSUME HeapInv, NEW p \in Regions, UseRegion(p)
    PROVE  HeapInv'
<1>1. mem' = mem /\ free' = free /\ str' = str /\ curblock' = p /\ last' = "program"
  BY DEF UseRegion
<1>2. Reachable' = Reachable  BY <1>1 DEF Reachable
<1> QED  BY <1>1, <1>2 DEF HeapInv

\* Before the program has allocated anything.
LEMMA InitHeap ==
    ASSUME Init
    PROVE  HeapInv
<1>1. /\ mem = [a \in Locations |-> Nil] /\ free = RegionBase /\ curblock \in Regions
      /\ str = <<>> /\ last = "program"
  BY DEF Init, Locations
<1>2. \A l \in Locations : mem[l] = Nil  BY <1>1
<1>3. /\ Nil \in Word /\ ~ Is(Nil, "title") /\ ~ Is(Nil, "marked") /\ ~ Is(Nil, "ref")
      /\ ~ Is(Nil, "str")
  BY KindsOfWords DEF Is, Nil
<1>4. Fits(free)  BY <1>1, CollectorAssumption DEF Fits
<1>5. Used(free) = {}
  <2> SUFFICES ASSUME NEW a \in Used(free)  PROVE FALSE
    OBVIOUS
  <2>1. a \in Nat  BY WordsFacts DEF Used
  <2>2. PICK p \in Regions : RegionBase[p] <= a /\ a < RegionBase[p]  BY <1>1 DEF Used, Within
  <2>3. RegionBase[p] \in Nat  BY CollectorAssumption
  <2> QED  BY <2>1, <2>2, <2>3
<1>6. Tiled(mem, free)
  <2> SUFFICES ASSUME NEW p \in Regions  PROVE TiledTo(mem, p, free[p])
    BY DEF Tiled
  <2>1. free[p] = RegionBase[p] /\ RegionBase[p] \in Nat  BY <1>1, CollectorAssumption
  <2>2. RegionBase[p] .. free[p] - 1 = {}  BY <2>1
  <2> QED  BY <2>1, <2>2 DEF TiledTo
<1>7. \A r \in Roots : r \in Locations  BY DEF Locations
<1>8. mem \in [Locations -> Word]  BY <1>1, <1>3
<1>9. Shape(mem, free)  BY <1>2, <1>3, <1>4, <1>6, <1>7, <1>8 DEF Shape
<1>10. Slots(mem, {}) = Roots  BY DEF Slots
<1>11. Targets(mem, Slots(mem, {})) = {}  BY <1>2, <1>3, <1>7, <1>10 DEF Targets
<1>12. Heap(mem, free, {})  BY <1>9, <1>11 DEF Heap
<1>13. Reach(mem) = {}  BY <1>12, ReachHeap
<1>14. Texts(mem, {}, str)
  <2>1. <<>> \in Seq(Chars) /\ Len(<<>>) = 0 /\ StrEnd \in Nat  BY CollectorAssumption
  <2> QED  BY <1>1, <1>2, <1>3, <1>7, <1>10, <2>1 DEF Texts
<1>15. \A w \in Words \ Used(free) : mem[w] = Nil  BY <1>2 DEF Locations
<1> QED  BY <1>1, <1>12, <1>13, <1>14, <1>15 DEF HeapInv, Reachable

\* The memory m with a new block of type t at a, and a reference to it at r.
WithBlock(m, r, a, t) ==
    [w \in DOMAIN m |-> IF w = r THEN Ref(a) ELSE IF w = a THEN Title(t) ELSE m[w]]

Taken(a, t) == [free EXCEPT ![curblock] = a + BlkSize(t)]

\* The words that a new block gets.
LEMMA NewWords ==
    ASSUME HeapInv, NEW r \in Roots, NEW t \in Types, NEW a, a = End,
           a + BlkSize(t) <= RegionEnd[curblock]
    PROVE  /\ a \in Nat /\ Base <= a /\ a \in Locations /\ a \in Words /\ a # r
           /\ Fits(Taken(a, t)) /\ Taken(a, t)[curblock] = a + BlkSize(t)
           /\ \A p \in Regions : p # curblock => Taken(a, t)[p] = free[p]
           /\ Used(free) \subseteq Used(Taken(a, t)) /\ a \in Used(Taken(a, t)) /\ a \notin Used(free)
           /\ \A w \in a .. a + BlkSize(t) - 1 :
                w \in Locations /\ w \notin Roots /\ mem[w] = Nil
<1>1. Shape(mem, free) /\ curblock \in Regions /\ Fits(free)  BY InvFacts DEF Shape
<1>2. Base \in Nat /\ a \in Nat /\ Base <= a  BY <1>1, Bounds
<1> DEFINE n == BlkSize(t)
           fr == Taken(a, t)
<1>3. n \in Nat /\ n > 0  BY TypeFacts
<1>4. RegionEnd[curblock] \in Nat /\ RegionBase[curblock] = Base  BY CollectorAssumption, <1>1 DEF Base
<1> HIDE DEF n
<1>5. /\ fr[curblock] = a + n /\ \A p \in Regions : p # curblock => fr[p] = free[p]
      /\ fr \in [Regions -> Nat]
  BY <1>1, <1>2, <1>3 DEF Taken, Fits, n
<1>6. a + n <= RegionEnd[curblock]  BY DEF n
<1> HIDE DEF fr
<1>7. Fits(fr)  BY <1>1, <1>2, <1>3, <1>4, <1>5, <1>6 DEF Fits
<1>8. ASSUME NEW w \in a .. a + n - 1
      PROVE  w \in Words /\ w \in Used(fr) /\ w \notin Used(free)
  <2>1. Within(curblock, fr, w) /\ w \in Int  BY <1>2, <1>3, <1>4, <1>5 DEF Within
  <2>2. w \in Words /\ w \in Used(fr)  BY <1>1, <1>7, <2>1, WithinWords
  <2>3. w \notin Used(free)
    <3> SUFFICES ASSUME w \in Used(free)  PROVE FALSE
      OBVIOUS
    <3>1. PICK p \in Regions : Within(p, free, w)  BY DEF Used
    <3>2. w < RegionEnd[curblock] /\ RegionBase[curblock] <= w
      BY <1>2, <1>3, <1>4, <1>6
    <3>3. p = curblock  BY <1>1, <2>1, <3>1, <3>2, OneRegion
    <3>4. w < a  BY <3>1, <3>3 DEF Within, End
    <3> QED  BY <1>2, <3>4
  <2> QED  BY <2>2, <2>3
<1>9. ASSUME NEW w \in a .. a + n - 1
      PROVE  w \in Locations /\ w \notin Roots /\ mem[w] = Nil
  <2>1. w \in Words /\ w \notin Used(free)  BY <1>8, <1>9
  <2> QED  BY <2>1, WordsFacts DEF Locations, HeapInv
<1>10. Used(free) \subseteq Used(fr)
  <2> SUFFICES ASSUME NEW w \in Used(free)  PROVE w \in Used(fr)
    OBVIOUS
  <2>1. w \in Words /\ w \in Nat  BY WordsFacts DEF Used
  <2>2. PICK p \in Regions : Within(p, free, w)  BY DEF Used
  <2>3. Within(p, fr, w)
    <3>1. CASE p = curblock  BY <1>2, <1>3, <1>5, <2>1, <2>2, <3>1 DEF Within, End
    <3>2. CASE p # curblock  BY <1>5, <2>2, <3>2 DEF Within
    <3> QED  BY <3>1, <3>2
  <2> QED  BY <2>1, <2>3 DEF Used
<1>11. a \in a .. a + n - 1  BY <1>2, <1>3
<1>12. a \in Locations /\ a # r /\ a \in Used(fr) /\ a \in Words /\ a \notin Used(free)
  BY <1>8, <1>9, <1>11
<1> QED  BY <1>2, <1>5, <1>7, <1>9, <1>10, <1>12 DEF fr, n

LEMMA NewHeapBlock ==
    ASSUME HeapInv, NEW r \in Roots, NEW t \in Types, NEW a, a = End,
           a + BlkSize(t) <= RegionEnd[curblock]
    PROVE  /\ Heap(WithBlock(mem, r, a, t), Taken(a, t), Reach(mem) \cup {a})
           /\ Texts(WithBlock(mem, r, a, t), Reach(mem) \cup {a}, str)
<1> DEFINE n == BlkSize(t)
           fr == Taken(a, t)
           m == WithBlock(mem, r, a, t)
           L == Reach(mem)
           B == L \cup {a}
<1>1. /\ a \in Nat /\ Base <= a /\ a \in Locations /\ a # r /\ a \in Words
      /\ Fits(fr) /\ fr[curblock] = a + n
      /\ \A p \in Regions : p # curblock => fr[p] = free[p]
      /\ Used(free) \subseteq Used(fr) /\ a \in Used(fr) /\ a \notin Used(free)
      /\ \A w \in a .. a + n - 1 : w \in Locations /\ w \notin Roots /\ mem[w] = Nil
  BY NewWords
<1>2. /\ Heap(mem, free, L) /\ Texts(mem, L, str) /\ curblock \in Regions
      /\ Shape(mem, free) /\ L \in SUBSET Blocks(mem, free)
      /\ mem \in [Locations -> Word] /\ Fits(free) /\ Tiled(mem, free)
  BY InvFacts DEF Shape
<1>3. n \in Nat /\ n > 0  BY TypeFacts
<1>4. r \in Locations /\ r \notin Words  BY WordsFacts DEF Locations
<1>5. DOMAIN mem = Locations  BY <1>2
<1>6. /\ m = [w \in Locations |-> IF w = r THEN Ref(a) ELSE IF w = a THEN Title(t) ELSE mem[w]]
  BY <1>5 DEF WithBlock
<1>7. /\ m[r] = Ref(a) /\ m[a] = Title(t)
      /\ \A w \in Locations : w # r /\ w # a => m[w] = mem[w]
  BY <1>1, <1>4, <1>6
<1>8. /\ Ref(a) \in Word /\ ~ Is(Ref(a), "title") /\ ~ Is(Ref(a), "marked")
      /\ Is(Ref(a), "ref") /\ Ref(a)[2] = a /\ ~ Is(Ref(a), "str")
      /\ Title(t) \in Word /\ Is(Title(t), "title") /\ ~ Is(Title(t), "marked") /\ Title(t)[2] = t
      /\ ~ Is(Nil, "title") /\ ~ Is(Nil, "ref") /\ ~ Is(Nil, "str")
  BY <1>1, KindsOfWords, OneKind
<1>9. m \in [Locations -> Word]  BY <1>2, <1>6, <1>8
<1> HIDE DEF fr, m, n
<1>10. \A w \in Used(free) : w \in Locations /\ w # r /\ w # a /\ m[w] = mem[w]
  <2> SUFFICES ASSUME NEW w \in Used(free)
               PROVE  w \in Locations /\ w # r /\ w # a /\ m[w] = mem[w]
    OBVIOUS
  <2>1. w \in Words /\ w \in Locations  BY DEF Used, Locations
  <2> QED  BY <1>1, <1>4, <1>7, <2>1
<1>11. \A p \in Regions : \A w \in Int : Within(p, free, w) => w \in Used(free)
  BY <1>2, WithinWords
<1>12. ASSUME NEW p \in Regions, p # curblock  PROVE TiledTo(m, p, fr[p])
  <2>1. \A w \in RegionBase[p] .. free[p] - 1 : m[w] = mem[w]
    <3> SUFFICES ASSUME NEW w \in RegionBase[p] .. free[p] - 1  PROVE m[w] = mem[w]
      OBVIOUS
    <3>1. RegionBase[p] \in Nat /\ free[p] \in Nat  BY <1>2, CollectorAssumption DEF Fits
    <3>2. w \in Int /\ Within(p, free, w)  BY <3>1 DEF Within
    <3> QED  BY <1>10, <1>11, <3>2
  <2>2. TiledTo(m, p, free[p])  BY <1>2, <2>1, TiledRegion
  <2> QED  BY <1>1, <1>12, <2>2
<1>13. TiledTo(m, curblock, a + n)
  <2>1. RegionBase[curblock] = Base /\ Base \in Nat /\ free[curblock] = a
    BY <1>2, CollectorAssumption DEF Base, End
  <2>2. TiledTo(mem, curblock, a)  BY <1>2, <2>1 DEF Tiled
  <2>3. \A w \in Base .. a - 1 : m[w] = mem[w]
    <3> SUFFICES ASSUME NEW w \in Base .. a - 1  PROVE m[w] = mem[w]
      OBVIOUS
    <3>1. w \in Int /\ Within(curblock, free, w)  BY <1>1, <2>1 DEF Within
    <3> QED  BY <1>2, <1>10, <1>11, <3>1
  <2>4. \A w \in a + 1 .. a + n - 1 : m[w] = Nil
    <3> SUFFICES ASSUME NEW w \in a + 1 .. a + n - 1  PROVE m[w] = Nil
      OBVIOUS
    <3>1. w \in a .. a + n - 1 /\ w # a  BY <1>1, <1>3
    <3> QED  BY <1>1, <1>7, <3>1
  <2>5. Is(m[Base], "title")
    <3>1. CASE Base = a  BY <1>7, <1>8, <3>1
    <3>2. CASE Base # a
      <4>1. Base \in Base .. a - 1  BY <1>1, <2>1, <3>2
      <4> QED  BY <2>1, <2>2, <2>3, <3>2, <4>1 DEF TiledTo
    <3> QED  BY <3>1, <3>2
  <2>6. ASSUME NEW b \in Base .. (a + n) - 1, Is(m[b], "title")
        PROVE  /\ b + BlkSize(m[b][2]) <= a + n
               /\ \/ b + BlkSize(m[b][2]) = a + n
                  \/ Is(m[b + BlkSize(m[b][2])], "title")
               /\ \A c \in b + 1 .. b + BlkSize(m[b][2]) - 1 : ~ Is(m[c], "title")
    <3>1. CASE b = a
      <4>1. BlkSize(m[b][2]) = n  BY <1>7, <1>8, <3>1 DEF n
      <4> QED  BY <1>1, <1>3, <1>8, <2>4, <3>1, <4>1
    <3>2. CASE b > a
      <4>1. b \in a + 1 .. a + n - 1  BY <1>1, <1>3, <2>1, <3>2
      <4> QED  BY <1>8, <2>4, <2>6, <4>1
    <3>3. CASE b < a
      <4>1. b \in Base .. a - 1  BY <1>1, <2>1, <3>3
      <4>2. m[b] = mem[b] /\ Is(mem[b], "title")  BY <2>3, <2>6, <4>1
      <4> DEFINE k == BlkSize(m[b][2])
      <4>3. k \in Nat /\ k > 0
        <5>1. b \in Int /\ Within(curblock, free, b)  BY <1>1, <2>1, <4>1 DEF Within
        <5>2. b \in Blocks(mem, free)  BY <1>2, <1>11, <4>2, <5>1 DEF Blocks
        <5> QED  BY <1>2, <4>2, <5>2, BlockFacts
      <4>4. /\ b + k <= a
            /\ b + k = a \/ Is(mem[b + k], "title")
            /\ \A c \in b + 1 .. b + k - 1 : ~ Is(mem[c], "title")
        BY <2>1, <2>2, <4>1, <4>2 DEF TiledTo
      <4> HIDE DEF k
      <4>5. b + k <= a + n  BY <1>1, <1>3, <2>1, <4>1, <4>3, <4>4
      <4>6. Is(m[b + k], "title")
        <5>1. CASE b + k = a  BY <1>7, <1>8, <5>1
        <5>2. CASE b + k # a
          <6>1. b + k \in Base .. a - 1  BY <1>1, <2>1, <4>1, <4>3, <4>4, <5>2
          <6>2. m[b + k] = mem[b + k]  BY <2>3, <6>1
          <6> QED  BY <4>4, <5>2, <6>2
        <5> QED  BY <5>1, <5>2
      <4>7. \A c \in b + 1 .. b + k - 1 : ~ Is(m[c], "title")
        <5> SUFFICES ASSUME NEW c \in b + 1 .. b + k - 1  PROVE ~ Is(m[c], "title")
          OBVIOUS
        <5>1. c \in Base .. a - 1  BY <1>1, <2>1, <4>1, <4>3, <4>4
        <5> QED  BY <2>3, <4>4, <5>1
      <4> QED  BY <4>5, <4>6, <4>7 DEF k
    <3> QED  BY <1>1, <2>1, <2>6, <3>1, <3>2, <3>3
  <2>7. \A b \in RegionBase[curblock] .. (a + n) - 1 : Is(m[b], "title") =>
          /\ b + BlkSize(m[b][2]) <= a + n
          /\ \/ b + BlkSize(m[b][2]) = a + n
             \/ Is(m[b + BlkSize(m[b][2])], "title")
          /\ \A c \in b + 1 .. b + BlkSize(m[b][2]) - 1 : ~ Is(m[c], "title")
    BY ONLY <2>1, <2>6
  <2>8. Is(m[RegionBase[curblock]], "title")  BY <2>1, <2>5
  <2> QED  BY ONLY <2>7, <2>8 DEF TiledTo
<1>14. Tiled(m, fr)  BY <1>1, <1>12, <1>13 DEF Tiled
<1>15. Shape(m, fr)
  <2>1. \A l \in Locations : ~ Is(m[l], "marked")  BY <1>2, <1>7, <1>8 DEF Shape
  <2>2. \A x \in Roots : ~ Is(m[x], "title")
    <3> SUFFICES ASSUME NEW x \in Roots  PROVE ~ Is(m[x], "title")
      OBVIOUS
    <3>1. x \in Locations /\ x # a  BY <1>1, WordsFacts DEF Locations
    <3> QED  BY <1>2, <1>7, <1>8, <3>1 DEF Shape
  <2> QED  BY <1>1, <1>9, <1>14, <2>1, <2>2 DEF Shape
<1>16. L \subseteq Blocks(m, fr) /\ a \in Blocks(m, fr) /\ \A b \in L : m[b] = mem[b]
  <2>1. \A b \in L : b \in Used(free) /\ Is(mem[b], "title")  BY <1>2 DEF Blocks
  <2> HIDE DEF L
  <2> QED  BY <1>1, <1>7, <1>8, <1>10, <2>1 DEF Blocks
<1> HIDE DEF L
<1>17. \A l : l \in Slots(m, B) <=> l \in Slots(mem, L) \/ l \in ToSet(FieldsAt(a, t))
  BY <1>7, <1>8, <1>16 DEF Slots
<1>18. \A l \in Slots(mem, L) : l \in Locations /\ l # a
         /\ (l = r \/ m[l] = mem[l])
  <2> SUFFICES ASSUME NEW l \in Slots(mem, L)
               PROVE l \in Locations /\ l # a /\ (l = r \/ m[l] = mem[l])
    OBVIOUS
  <2>1. l \in Locations  BY <1>2, SlotFacts
  <2>2. CASE l \in Roots  BY <1>1, <1>7, <2>1, <2>2, WordsFacts
  <2>3. CASE \E b \in L : l \in ToSet(FieldsAt(b, mem[b][2]))
    <3>1. PICK b \in L : l \in ToSet(FieldsAt(b, mem[b][2]))  BY <2>3
    <3>2. b \in Blocks(mem, free)  BY <1>2
    <3>3. l \in Used(free)  BY <1>2, <3>1, <3>2, FieldsInBlock
    <3> QED  BY <1>10, <3>3
  <2> QED  BY <2>2, <2>3, SlotOf
<1>19. \A l \in ToSet(FieldsAt(a, t)) : m[l] = Nil
  <2> SUFFICES ASSUME NEW l \in ToSet(FieldsAt(a, t))  PROVE m[l] = Nil
    OBVIOUS
  <2>1. l \in Nat /\ a < l /\ l < a + n  BY <1>1, FieldFacts DEF n
  <2>2. l \in a .. a + n - 1 /\ l # a  BY <1>1, <1>3, <2>1
  <2> QED  BY <1>1, <1>7, <2>2
<1>20. ASSUME NEW l \in Slots(m, B), Is(m[l], "ref")  PROVE m[l][2] \in B
  <2>1. CASE l = r  BY <1>7, <1>8, <2>1
  <2>2. CASE l \in Slots(mem, L) /\ l # r
    <3>1. m[l] = mem[l]  BY <1>18, <2>2
    <3> QED  BY <1>2, <1>20, <2>2, <3>1 DEF Heap, Targets
  <2>3. CASE l \in ToSet(FieldsAt(a, t))  BY <1>8, <1>19, <1>20, <2>3
  <2> QED  BY <1>17, <2>1, <2>2, <2>3
<1>21. ASSUME NEW l \in Slots(m, B), Is(m[l], "str")  PROVE InText(m[l], str)
  <2>1. l # r  BY <1>7, <1>8, <1>21
  <2>2. CASE l \in Slots(mem, L)
    <3>1. m[l] = mem[l]  BY <1>18, <2>1, <2>2
    <3> QED  BY <1>2, <1>21, <2>2, <3>1 DEF Texts
  <2>3. CASE l \in ToSet(FieldsAt(a, t))  BY <1>8, <1>19, <1>21, <2>3
  <2> QED  BY <1>17, <2>2, <2>3
<1>22. Targets(m, Slots(m, B)) \subseteq B
  <2> HIDE DEF B
  <2> QED  BY <1>20 DEF Targets
<1>23. Heap(m, fr, B)  BY <1>15, <1>16, <1>22 DEF Heap
<1>24. Texts(m, B, str)  BY <1>2, <1>21 DEF Texts
<1> QED  BY <1>23, <1>24 DEF m, fr, L

LEMMA NewStep ==
    ASSUME HeapInv, NEW r \in Roots, NEW t \in Types, New(r, t)
    PROVE  HeapInv'
<1> DEFINE a == End
           m == WithBlock(mem, r, a, t)
           B == Reach(mem) \cup {a}
<1>1. /\ a + BlkSize(t) <= RegionEnd[curblock]
      /\ free' = Taken(a, t) /\ curblock' = curblock /\ str' = str /\ Put(m)
  BY DEF New, Taken, WithBlock, End
<1>2. curblock \in Regions  BY InvFacts
<1>3. Heap(m, Taken(a, t), B) /\ Texts(m, B, str)
  <2> HIDE DEF a
  <2>1. a = End  BY DEF a
  <2> QED  BY <1>1, <2>1, NewHeapBlock
<1> HIDE DEF m, B, a
<1> QED  BY <1>1, <1>2, <1>3, PutKeeps

-----------------------------------------------------------------------------
(* The walk through a region *)

NextStop(p, a) ==
    IF a >= free[p] \/ ~ Is(mem[a], "title") THEN a ELSE a + BlkSize(mem[a][2])

Stops(p) == {a \in Blocks(mem, free) : Within(p, free, a)} \cup {free[p]}

\* From a block the walk goes to the one after it, or stops.
LEMMA NextFacts ==
    ASSUME Shape(mem, free), NEW p \in Regions, NEW a \in Stops(p)
    PROVE  /\ a \in Nat /\ RegionBase[p] <= a /\ a <= free[p]
           /\ NextStop(p, a) \in Stops(p)
           /\ a = free[p] => NextStop(p, a) = a
           /\ a # free[p] => /\ NextStop(p, a) > a
                             /\ \A b \in Stops(p) : a < b => NextStop(p, a) <= b
<1>1. /\ free[p] \in Nat /\ RegionBase[p] \in Nat /\ RegionBase[p] <= free[p] /\ Fits(free)
  BY CollectorAssumption DEF Shape, Fits
<1>2. CASE a = free[p]  BY <1>1, <1>2 DEF NextStop
<1>3. CASE a # free[p]
  <2>1. a \in Blocks(mem, free) /\ Within(p, free, a)  BY <1>3 DEF Stops
  <2> DEFINE n == BlkSize(mem[a][2])
  <2>2. /\ a \in Nat /\ n \in Nat /\ n > 0 /\ Is(mem[a], "title")
    BY <2>1, BlockFacts DEF Blocks
  <2>3. PICK q \in Regions : /\ Within(q, free, a) /\ a + n <= free[q]
                             /\ a + n = free[q] \/ a + n \in Blocks(mem, free)
    BY <2>1, BlockFacts
  <2>4. q = p
    <3>1. RegionBase[q] <= a /\ a < RegionEnd[q]
      <4>1. free[q] <= RegionEnd[q] /\ free[q] \in Nat /\ RegionEnd[q] \in Nat
        BY <1>1, CollectorAssumption DEF Fits
      <4> QED  BY <2>2, <2>3, <4>1 DEF Within
    <3> QED  BY <1>1, <2>1, <2>2, <3>1, OneRegion
  <2>5. NextStop(p, a) = a + n  BY <1>1, <2>1, <2>2 DEF NextStop, Within
  <2>6. ASSUME NEW b \in Stops(p), a < b  PROVE a + n <= b
    <3>1. CASE b = free[p]  BY <2>3, <2>4, <3>1
    <3>2. CASE b # free[p]
      <4>1. b \in Blocks(mem, free)  BY <3>2 DEF Stops
      <4> QED  BY <2>1, <2>6, <4>1, BlocksApart
    <3> QED  BY <3>1, <3>2
  <2> HIDE DEF n
  <2>7. a + n \in Stops(p)
    <3>1. CASE a + n = free[p]  BY <3>1 DEF Stops
    <3>2. CASE a + n # free[p]
      <4>1. a + n \in Blocks(mem, free) /\ a + n <= free[p]  BY <2>3, <2>4, <3>2
      <4>2. Within(p, free, a + n)  BY <1>1, <2>1, <2>2, <3>2, <4>1 DEF Within
      <4> QED  BY <4>1, <4>2 DEF Stops
    <3> QED  BY <3>1, <3>2
  <2> QED  BY <1>1, <1>3, <2>1, <2>2, <2>5, <2>6, <2>7 DEF Within
<1> QED  BY <1>1, <1>2, <1>3

\* A region can be walked, and the walk stops at its blocks.
LEMMA WalkEnd ==
    ASSUME Shape(mem, free), NEW p \in Regions
    PROVE  Walk(p) = Stops(p)
<1> DEFINE N == InUse(p)
           base == RegionBase[p]
           e == free[p]
           g(a) == NextStop(p, a)
           Good == [j \in 0..N |-> {x \in Stops(p) : x = e \/ x >= base + j}]
           G == [j \in 1..N |-> [x \in Stops(p) |-> g(x)]]
           stop[n \in 0 .. N] == IF n = 0 THEN base ELSE g(stop[n - 1])
<1>1. base \in Nat /\ e \in Nat /\ base <= e /\ N = e - base /\ N \in Nat
  BY CollectorAssumption DEF Shape, Fits, InUse
<1>2. base \in Stops(p)
  <2>1. CASE base = e  BY <2>1 DEF Stops
  <2>2. CASE base # e
    <3>1. TiledTo(mem, p, e)  BY DEF Shape, Tiled
    <3>2. Is(mem[base], "title")  BY <2>2, <3>1 DEF TiledTo
    <3>3. Within(p, free, base)  BY <1>1, <2>2 DEF Within
    <3>4. base \in Used(free)  BY <1>1, <3>3, WithinWords DEF Shape
    <3> QED  BY <3>2, <3>3, <3>4 DEF Stops, Blocks
  <2> QED  BY <2>1, <2>2
<1>3. Walk(p) = {stop[n] : n \in 0 .. N}  BY DEF Walk, NextStop
<1>4. \A x \in Stops(p) : /\ x \in Nat /\ x <= e /\ g(x) \in Stops(p) /\ g(x) \in Nat
                          /\ x = e => g(x) = x
                          /\ x # e => g(x) > x /\ \A b \in Stops(p) : x < b => g(x) <= b
  BY NextFacts
<1> HIDE DEF N, base, g, e
<1>5. \A j \in 1..N : \A x \in Good[j - 1] : G[j][x] \in Good[j]
  <2> SUFFICES ASSUME NEW j \in 1..N, NEW x \in Good[j - 1]  PROVE G[j][x] \in Good[j]
    OBVIOUS
  <2>1. j \in 0..N /\ j - 1 \in 0..N  BY <1>1
  <2>2. x \in Stops(p) /\ (x = e \/ x >= base + (j - 1))  BY <2>1
  <2>3. G[j][x] = g(x)  BY <2>2
  <2>4. g(x) \in Stops(p) /\ (g(x) = e \/ g(x) >= base + j)
    <3> DEFINE y == g(x)
    <3>1. x \in Nat /\ y \in Nat /\ y \in Stops(p) /\ (x = e => y = x) /\ (x # e => y > x)
      BY <1>4, <2>2
    <3> HIDE DEF y
    <3>2. y = e \/ y >= base + j  BY <1>1, <2>2, <3>1
    <3> QED  BY <3>1, <3>2 DEF y
  <2> QED  BY <2>1, <2>3, <2>4
<1>6. base \in Good[0]  BY <1>1, <1>2
<1>7. PICK f : Loop(f, N, base, G) /\ \A j \in 0..N : f[j] \in Good[j]
  <2> HIDE DEF Good, G, stop
  <2> QED  BY <1>1, <1>5, <1>6, LoopExists
<1>8. \A j \in 0..N : f[j] \in Stops(p) /\ (f[j] = e \/ f[j] >= base + j)  BY <1>7
<1>9. f = [n \in 0 .. N |-> IF n = 0 THEN base ELSE g(f[n - 1])]
  <2>1. \A j \in 0..N : f[j] = IF j = 0 THEN base ELSE g(f[j - 1])
    <3> SUFFICES ASSUME NEW j \in 0..N, j # 0  PROVE f[j] = g(f[j - 1])
      BY <1>7 DEF Loop
    <3>1. j \in 1..N /\ j - 1 \in 0..N  BY <1>1
    <3>2. f[j] = G[j][f[j - 1]]  BY <1>7 DEF Loop
    <3> QED  BY <1>8, <3>1, <3>2
  <2>2. f = [j \in 0..N |-> f[j]]  BY <1>7 DEF Loop
  <2> QED  BY <2>1, <2>2
<1>10. stop = [n \in 0 .. N |-> IF n = 0 THEN base ELSE g(stop[n - 1])]  BY <1>9 DEF stop
<1> HIDE DEF stop, Good, G
<1>11. stop[0] = base /\ \A n \in 1..N : stop[n] = g(stop[n - 1])
  <2>1. 0 \in 0..N /\ \A n \in 1..N : n \in 0..N /\ n # 0  BY <1>1
  <2> QED  BY <1>10, <2>1
<1>12. \A n \in 0..N : stop[n] \in Stops(p) /\ (stop[n] = e \/ stop[n] >= base + n)
  <2> DEFINE S == {n \in 0..N : stop[n] \in Stops(p) /\ (stop[n] = e \/ stop[n] >= base + n)}
  <2>1. 0 \in S  BY <1>1, <1>2, <1>11
  <2>2. ASSUME NEW n \in 1..N, n - 1 \in S  PROVE n \in S
    <3> DEFINE x == stop[n - 1]
               y == stop[n]
    <3>1. x \in Stops(p) /\ (x = e \/ x >= base + (n - 1))  BY <2>2
    <3>2. x \in Nat /\ y \in Nat /\ y \in Stops(p) /\ (x = e => y = x) /\ (x # e => y > x)
      BY <1>4, <1>11, <3>1
    <3> HIDE DEF x, y
    <3>3. y = e \/ y >= base + n  BY <1>1, <3>1, <3>2
    <3> QED  BY <1>1, <3>2, <3>3 DEF y
  <2> HIDE DEF S
  <2>3. \A n \in 0..N : n \in S  BY <1>1, <2>1, <2>2, Climb
  <2> QED  BY <2>3 DEF S
<1>13. ASSUME NEW b \in Stops(p)  PROVE \E n \in 0..N : stop[n] = b
  <2> DEFINE S == {n \in 0..N : stop[n] <= b \/ \E j \in 0..N : stop[j] = b}
  <2>1. 0 \in S
    <3>1. base <= b  BY NextFacts DEF base
    <3> QED  BY <1>1, <1>11, <3>1
  <2>2. ASSUME NEW n \in 1..N, n - 1 \in S  PROVE n \in S
    <3> DEFINE x == stop[n - 1]
    <3>1. n \in 0..N /\ n - 1 \in 0..N  BY <1>1
    <3>2. x \in Stops(p) /\ x \in Nat /\ b \in Nat /\ b <= e  BY <1>4, <1>12, <3>1
    <3>3. stop[n] = g(x)  BY <1>11
    <3>4. x <= b \/ \E j \in 0..N : stop[j] = b  BY <2>2
    <3>5. CASE x = b  BY <3>1, <3>5
    <3>6. CASE x < b
      <4>1. x # e  BY <1>1, <3>2, <3>6
      <4>2. g(x) <= b  BY <1>4, <3>2, <3>6, <4>1
      <4> QED  BY <3>1, <3>3, <4>2
    <3>7. CASE \E j \in 0..N : stop[j] = b  BY <3>1, <3>7
    <3> QED  BY <3>2, <3>4, <3>5, <3>6, <3>7
  <2> HIDE DEF S
  <2>3. \A n \in 0..N : n \in S  BY <1>1, <2>1, <2>2, Climb
  <2>4. N \in S /\ N \in 0..N  BY <1>1, <2>3
  <2>5. stop[N] = e
    <3>1. stop[N] \in Stops(p) /\ (stop[N] = e \/ stop[N] >= base + N)  BY <1>12, <2>4
    <3>2. stop[N] \in Nat /\ stop[N] <= e  BY <1>4, <3>1
    <3> QED  BY <1>1, <3>1, <3>2
  <2>6. b \in Nat /\ b <= e  BY <1>4
  <2>7. stop[N] <= b \/ \E j \in 0..N : stop[j] = b  BY <2>4 DEF S
  <2> QED  BY <1>1, <2>4, <2>5, <2>6, <2>7
<1>14. \A b : b \in Walk(p) <=> b \in Stops(p)  BY <1>3, <1>12, <1>13
<1> QED  BY <1>14

-----------------------------------------------------------------------------
(* Theorems *)

LEMMA BlocksOfRegion ==
    ASSUME HeapInv, NEW p \in Regions
    PROVE  /\ BlocksOf(p) = {a \in Blocks(mem, free) : Within(p, free, a)}
           /\ free[p] \in Walk(p)
<1>1. Shape(mem, free)  BY InvFacts
<1>2. Walk(p) = Stops(p)  BY <1>1, WalkEnd
<1>3. free[p] \in Nat  BY <1>1 DEF Shape, Fits
<1>4. \A a \in Blocks(mem, free) : Within(p, free, a) => a # free[p]
  <2>1. \A a \in Blocks(mem, free) : a \in Nat  BY WordsFacts DEF Blocks, Used
  <2> QED  BY <1>3, <2>1 DEF Within
<1> QED  BY <1>2, <1>4 DEF BlocksOf, Stops

LEMMA InvSound ==
    ASSUME HeapInv
    PROVE  HeapSound
<1>1. ASSUME NEW p \in Regions
      PROVE  free[p] \in Walk(p) /\ \A a \in BlocksOf(p) : Is(mem[a], "title")
  BY BlocksOfRegion DEF Blocks
<1>2. ASSUME NEW l \in Live, Is(mem[l], "ref")
      PROVE  \E p \in Regions : mem[l][2] \in BlocksOf(p)
  <2>1. mem[l][2] \in Reach(mem)  BY <1>2, InvFacts DEF Live, Reachable
  <2>2. mem[l][2] \in Blocks(mem, free)  BY <2>1, InvFacts
  <2>3. PICK p \in Regions : Within(p, free, mem[l][2])  BY <2>2 DEF Blocks, Used
  <2> QED  BY <2>2, <2>3, BlocksOfRegion
<1>3. ASSUME NEW l \in Live, Is(mem[l], "str")
      PROVE  mem[l][2] >= 1 /\ mem[l][2] + mem[l][3] <= Len(str) + 1
  BY <1>3, InvFacts DEF Live, Reachable, InText
<1> QED  BY <1>1, <1>2, <1>3 DEF HeapSound

LEMMA InvFreed ==
    ASSUME HeapInv
    PROVE  GarbageFreed
<1> SUFFICES ASSUME last = "all"
             PROVE  /\ BlocksOf(curblock) \subseteq Reachable
                    /\ \A i \in 1 .. Len(str) : \E l \in Live :
                         Is(mem[l], "str") /\ mem[l][2] <= i /\ i < mem[l][2] + mem[l][3]
  BY DEF GarbageFreed
<1>1. Clean(mem, Reachable, free, curblock, str) /\ curblock \in Regions  BY DEF HeapInv
<1>2. BlocksOf(curblock) \subseteq Reachable  BY <1>1, BlocksOfRegion DEF Clean
<1> QED  BY <1>1, <1>2 DEF Clean, Live

\* Every step of the program and every collection keep the heap.
LEMMA HeapStep ==
    ASSUME HeapInv, StrEnd <= IntMax, [Next]_vars
    PROVE  HeapInv'
<1>1. ASSUME NEW r \in Roots, NEW t \in Types, New(r, t)  PROVE HeapInv'
  BY <1>1, NewStep
<1>2. ASSUME NEW r \in Roots, NEW c \in Chars, NewString(r, c)  PROVE HeapInv'
  BY <1>2, NewStringStep
<1>3. ASSUME NEW r \in Roots, NEW q \in Roots, NEW i \in 0..StrEnd, NEW n \in 0..StrEnd,
             Substring(r, q, i, n)
      PROVE  HeapInv'
  <2>1. i \in Nat /\ n \in Nat  OBVIOUS
  <2> QED  BY <1>3, <2>1, SubstringStep
<1>4. ASSUME NEW r \in Roots, NEW q \in Roots, Assign(r, mem[q])  PROVE HeapInv'
  <2>1. r \in Slots(mem, Reach(mem)) /\ q \in Slots(mem, Reach(mem))  BY InvFacts
  <2> QED  BY <1>4, <2>1, AssignStep
<1>5. ASSUME NEW r \in Roots, NEW q \in Roots, Fetch(r, q)  PROVE HeapInv'
  BY <1>5, FetchStep
<1>6. ASSUME NEW r \in Roots, NEW q \in Roots, Store(r, q)  PROVE HeapInv'
  BY <1>6, StoreStep
<1>7. ASSUME NEW r \in Roots, Assign(r, Nil)  PROVE HeapInv'
  BY <1>7, NilStep
<1>8. ASSUME NEW p \in Regions, UseRegion(p)  PROVE HeapInv'
  BY <1>8, UseRegionStep
<1>9. ASSUME NEW ok \in BOOLEAN, Collect(ok)  PROVE HeapInv'
  BY <1>9, CollectHeap
<1>10. CASE UNCHANGED vars
  <2>1. mem' = mem /\ free' = free /\ str' = str /\ curblock' = curblock /\ last' = last
    BY <1>10 DEF vars
  <2>2. Reachable' = Reachable  BY <2>1 DEF Reachable
  <2> QED  BY <2>1, <2>2 DEF HeapInv
<1> QED  BY <1>1, <1>2, <1>3, <1>4, <1>5, <1>6, <1>7, <1>8, <1>9, <1>10 DEF Next, Program

\* The regions, the references and the strings stay a heap: the inductive
\* invariant of the collector.
THEOREM HeapAlways ==
    ASSUME StrEnd <= IntMax
    PROVE  Spec => []HeapInv
<1>1. Init => HeapInv  BY InitHeap
<1>2. HeapInv /\ [Next]_vars => HeapInv'  BY HeapStep
<1> QED  BY <1>1, <1>2, PTL DEF Spec

\* After every step, collections among them, each region can be walked from
\* block to block, no mark or chain is left, and what the program can reach
\* refers to blocks and to text.
THEOREM HeapAlwaysSound ==
    ASSUME StrEnd <= IntMax
    PROVE  Spec => []HeapSound
<1>1. HeapInv => HeapSound  BY InvSound
<1>2. Spec => []HeapInv  BY HeapAlways
<1> QED  BY <1>1, <1>2, PTL

\* A collection that could list all qualifiers frees every block and every
\* character that the program cannot reach.
THEOREM GarbageAlwaysFreed ==
    ASSUME StrEnd <= IntMax
    PROVE  Spec => []GarbageFreed
<1>1. HeapInv => GarbageFreed  BY InvFreed
<1>2. Spec => []HeapInv  BY HeapAlways
<1> QED  BY <1>1, <1>2, PTL

\* The program does not notice a collection: whatever it can reach is what it
\* was, at its new address and with the same text.
THEOREM CollectionUnnoticed ==
    ASSUME StrEnd <= IntMax
    PROVE  Spec => Unnoticed
<1> DEFINE Same ==
      last' # "program" =>
        \A live \in {Reachable} :
          /\ \A r \in Roots : SameWord(live, r, r)
          /\ \A a \in live :
               /\ mem'[Moved(live, a)] = mem[a]
               /\ \A i \in 1 .. Fields(mem[a][2]) :
                    SameWord(live, FieldsAt(a, mem[a][2])[i],
                             FieldsAt(Moved(live, a), mem[a][2])[i])
<1>1. ASSUME HeapInv, [Next]_vars  PROVE [Same]_vars
  <2>1. CASE UNCHANGED vars  BY <2>1
  <2>2. CASE Program
    <3>1. last' = "program"
      BY <2>2 DEF Program, New, NewString, Substring, Assign, Fetch, Store, UseRegion, Put
    <3> QED  BY <3>1
  <2>3. ASSUME NEW ok \in BOOLEAN, Collect(ok)  PROVE Same
    <3>1. KeptAt(Reachable)  BY <1>1, <2>3, CollectSees DEF Reachable
    <3> QED  BY <3>1 DEF KeptAt
  <2> QED  BY <1>1, <2>1, <2>2, <2>3 DEF Next
<1>2. Spec => []HeapInv  BY HeapAlways
<1>3. Spec => [][Same]_vars  BY <1>1, <1>2, PTL DEF Spec
<1> QED  BY <1>3 DEF Unnoticed

=============================================================================
