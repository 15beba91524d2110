--------------------------- MODULE LinkCodeProofs ---------------------------
(***************************************************************************)
(* Proof about LinkCode, for any well-formed ucode: every reference gets   *)
(* the distance to the place of its own label.                             *)
(***************************************************************************)
EXTENDS LinkCode, SequenceTheorems, WellFoundedInduction, TLAPS

-----------------------------------------------------------------------------
(* Recursion on intervals *)

\* A set of natural numbers with an element has a least one: the form in which
\* the proofs use induction, as the least counterexample.
LEMMA LeastNat ==
    ASSUME NEW T \in SUBSET Nat, T # {}
    PROVE  \E x \in T : \A y \in T : x <= y
<1>1. \E x \in T : \A y \in T : ~ (<<y, x>> \in OpToRel(<, Nat))
  BY WFMin, NatLessThanWellFounded
<1>2. PICK x \in T : \A y \in T : ~ (<<y, x>> \in OpToRel(<, Nat))  BY <1>1
<1>3. \A y \in T : ~(y < x)  BY <1>2 DEF OpToRel
<1> QED  BY <1>3

\* f starts with a in A and goes on with the steps of G.
Iterates(f, n, A, a, G) ==
    f \in [0..n -> A] /\ f[0] = a /\ \A i \in 1..n : f[i] = G[i][f[i - 1]]

\* There is such a function.
LEMMA RecursionExists ==
    ASSUME NEW n \in Nat, NEW A, NEW a \in A, NEW G \in [1..n -> [A -> A]]
    PROVE  \E f : Iterates(f, n, A, a, G)
<1> DEFINE Runs(f, k) == f \in [0..k -> A] /\ f[0] = a /\ \A i \in 1..k : f[i] = G[i][f[i - 1]]
           T == {k \in 0..n : ~ \E f : Runs(f, k)}
<1>1. ASSUME T # {}  PROVE FALSE
  <2>1. T \in SUBSET Nat  OBVIOUS
  <2>2. PICK k \in T : \A j \in T : k <= j  BY <1>1, <2>1, LeastNat
  <2>3. k \in 0..n /\ (~ \E f : Runs(f, k)) /\ \A j \in 0..n : j < k => \E f : Runs(f, j)
    <3> HIDE DEF Runs
    <3> QED  BY <2>2
  <2>4. CASE k = 0
    <3>1. Runs([i \in 0..0 |-> a], 0)  OBVIOUS
    <3> QED  BY <2>3, <2>4, <3>1
  <2>5. CASE k > 0
    <3>1. k - 1 \in 0..n /\ k - 1 < k  BY <2>3, <2>5
    <3>2. PICK f : Runs(f, k - 1)
      <4> HIDE DEF Runs
      <4> QED  BY <2>3, <3>1
    <3> DEFINE g == [i \in 0..k |-> IF i < k THEN f[i] ELSE G[k][f[k - 1]]]
    <3>3. f[k - 1] \in A  BY <2>3, <2>5, <3>2
    <3>4. G[k][f[k - 1]] \in A
      <4>1. k \in 1..n  BY <2>3, <2>5
      <4>2. G[k] \in [A -> A]  BY <4>1
      <4> QED  BY <3>3, <4>2
    <3>5. g \in [0..k -> A] /\ g[0] = a
      <4>1. \A i \in 0..k : i < k => i \in 0..(k - 1) /\ f[i] \in A
        BY <2>3, <2>5, <3>2
      <4>2. f[0] = a /\ 0 < k /\ 0 \in 0..k  BY <2>3, <2>5, <3>2
      <4> QED  BY <3>4, <4>1, <4>2
    <3>6. ASSUME NEW i \in 1..k  PROVE g[i] = G[i][g[i - 1]]
      <4>1. g[i - 1] = f[i - 1]  BY <2>3, <3>6
      <4>2. CASE i < k
        <5>1. i \in 1..(k - 1)  BY <2>3, <4>2
        <5>2. f[i] = G[i][f[i - 1]]  BY <3>2, <5>1
        <5>3. g[i] = f[i]  BY <2>3, <4>2
        <5> QED  BY <4>1, <5>2, <5>3
      <4>3. CASE i = k
        <5>1. g[k] = G[k][f[k - 1]]  BY <2>3, <2>5
        <5> HIDE DEF g
        <5> QED  BY <4>1, <4>3, <5>1
      <4> QED  BY <2>3, <4>2, <4>3
    <3>7. Runs(g, k)  BY <3>5, <3>6
    <3> QED  BY <2>3, <3>7
  <2> QED  BY <2>3, <2>4, <2>5
<1>2. n \notin T  BY <1>1
<1>3. PICK f : Runs(f, n)
  <2> HIDE DEF Runs
  <2> QED  BY <1>2
<1> QED  BY <1>3 DEF Iterates

-----------------------------------------------------------------------------
IsRef(x) == x.op \in {"mark", "goto", "chfail"}

\* AddressOf(), in the ucode u.
Addr(u, i) ==
    LET upTo[j \in 0..Len(u)] ==
          IF j = 0 THEN 0 ELSE upTo[j - 1] + SizeOf(u[j])
    IN  upTo[i - 1]

\* No procedure begins between line i and line m, which comes later.
Open(u, i, m) == i < m /\ \A k \in DOMAIN u : u[k].op = "proc" => (k <= i <=> k < m)

\* The references to l, and the places of l, that are in force before line m.
Pending(u, l, m) == {i \in DOMAIN u : IsRef(u[i]) /\ u[i].lab = l /\ Open(u, i, m)}
Placed(u, l, m) == {i \in DOMAIN u : u[i].op = "lab" /\ u[i].lab = l /\ Open(u, i, m)}

\* Line j is the place of the label that line i names.
PlaceFor(u, i, j) ==
    j \in DOMAIN u /\ u[j].op = "lab" /\ u[j].lab = u[i].lab /\ InOne(u, i, j)

\* The chain of the references to l before line m begins with x.
ChainFrom(u, l, m, x) ==
    \/ Pending(u, l, m) = {} /\ x = 0
    \/ \E k \in Pending(u, l, m) :
         (\A i \in Pending(u, l, m) : i <= k) /\ x = -(Addr(u, k) + 1)

-----------------------------------------------------------------------------
(* Ucode *)

LEMMA Lines ==
    ASSUME NEW u, WellFormed(u)
    PROVE  /\ Len(u) \in Nat /\ DOMAIN u = 1..Len(u)
           /\ \A i \in DOMAIN u : LineForm(u[i])
<1>1. u \in Seq({u[i] : i \in DOMAIN u})  BY DEF WellFormed
<1>2. Len(u) \in Nat /\ DOMAIN u = 1..Len(u)  BY <1>1
<1> QED  BY <1>2 DEF WellFormed

LEMMA Sizes ==
    ASSUME NEW x, LineForm(x)
    PROVE  /\ SizeOf(x) \in {0, 1, 2}
           /\ x.op \in Plain \cup {"declend"} => SizeOf(x) = 1
           /\ x.op \in {"int", "invoke", "var", "mark", "goto", "chfail"} => SizeOf(x) = 2
           /\ x.op = "keywd" => SizeOf(x) = IF x.num \in {"fail", "null"} THEN 1 ELSE 2
           /\ x.op \in {"proc", "lab", "end"} => SizeOf(x) = 0
<1>1. CASE DOMAIN x = {"op"} /\ x.op \in Plain \cup {"declend", "end"}
  <2>1. x.op = "end" => SizeOf(x) = 0  BY DEF SizeOf
  <2>2. x.op # "end" => SizeOf(x) = 1
    <3>1. x.op # "end" => x.op \notin {"proc", "lab", "end", "keywd"}  BY <1>1 DEF Plain
    <3> QED  BY <1>1, <3>1 DEF SizeOf
  <2>3. x.op \notin {"int", "invoke", "var", "mark", "goto", "chfail", "keywd", "proc", "lab"}
    BY <1>1 DEF Plain
  <2>4. "end" \notin Plain \cup {"declend"}  BY DEF Plain
  <2> QED  BY <2>1, <2>2, <2>3, <2>4
<1>2. CASE DOMAIN x = {"op", "num"} /\ x.op \in {"int", "invoke", "keywd", "proc", "var"}
  <2>1. x.op \notin Plain \cup {"declend", "mark", "goto", "chfail", "lab", "end"}
    BY <1>2 DEF Plain
  <2>2. x.op = "proc" => SizeOf(x) = 0  BY DEF SizeOf
  <2>3. x.op = "keywd" => SizeOf(x) = IF x.num \in {"fail", "null"} THEN 1 ELSE 2
    BY <1>2 DEF SizeOf
  <2>4. x.op \in {"int", "invoke", "var"} => SizeOf(x) = 2
    BY <1>2 DEF SizeOf
  <2> QED  BY <1>2, <2>1, <2>2, <2>3, <2>4
<1>3. CASE DOMAIN x = {"op", "lab"} /\ x.op \in {"mark", "goto", "chfail", "lab"}
  <2>1. x.op \notin Plain \cup {"declend", "int", "invoke", "var", "keywd", "proc", "end"}
    BY <1>3 DEF Plain
  <2>2. x.op = "lab" => SizeOf(x) = 0  BY DEF SizeOf
  <2>3. x.op \in {"mark", "goto", "chfail"} => SizeOf(x) = 2
    BY <1>3 DEF SizeOf
  <2> QED  BY <1>3, <2>1, <2>2, <2>3
<1> QED  BY <1>1, <1>2, <1>3 DEF LineForm

LEMMA AddrStep ==
    ASSUME NEW u, WellFormed(u)
    PROVE  /\ Addr(u, 1) = 0
           /\ \A i \in 1..(Len(u) + 1) : Addr(u, i) \in Nat
           /\ \A i \in DOMAIN u : Addr(u, i + 1) = Addr(u, i) + SizeOf(u[i])
<1>1. /\ Len(u) \in Nat /\ DOMAIN u = 1..Len(u)
      /\ \A i \in DOMAIN u : SizeOf(u[i]) \in Nat
  BY Lines, Sizes
<1> DEFINE n == Len(u)
           G == [j \in 1..n |-> [x \in Nat |-> x + SizeOf(u[j])]]
           Up(f) == f = [j \in 0..n |-> IF j = 0 THEN 0 ELSE f[j - 1] + SizeOf(u[j])]
           up == CHOOSE f : Up(f)
<1>2. G \in [1..n -> [Nat -> Nat]]
  <2>1. \A j \in 1..n : [x \in Nat |-> x + SizeOf(u[j])] \in [Nat -> Nat]  BY <1>1
  <2> QED  BY <2>1
<1>3. PICK f : Iterates(f, n, Nat, 0, G)
  <2> HIDE DEF G
  <2> QED  BY <1>1, <1>2, RecursionExists
<1>4. f \in [0..n -> Nat] /\ f[0] = 0 /\ \A j \in 1..n : f[j] = f[j - 1] + SizeOf(u[j])
  <2>1. f \in [0..n -> Nat] /\ f[0] = 0 /\ \A j \in 1..n : f[j] = G[j][f[j - 1]]
    BY <1>3 DEF Iterates
  <2>2. \A j \in 1..n : j - 1 \in 0..n  BY <1>1
  <2>3. \A j \in 1..n : f[j - 1] \in Nat  BY <2>1, <2>2
  <2> QED  BY <2>1, <2>3
<1>5. Up(f)
  <2>1. \A j \in 0..n : f[j] = IF j = 0 THEN 0 ELSE f[j - 1] + SizeOf(u[j])
    BY <1>1, <1>4
  <2>2. f = [j \in 0..n |-> f[j]]  BY <1>4
  <2> QED  BY <2>1, <2>2
<1>6. Up(up)  BY <1>5
<1>7. \A j \in 0..n : up[j] = IF j = 0 THEN 0 ELSE up[j - 1] + SizeOf(u[j])
  <2> HIDE DEF up
  <2> QED  BY <1>6
<1>8. \A i : Addr(u, i) = up[i - 1]  BY DEF Addr
<1> HIDE DEF up
<1>9. ASSUME NEW i \in 1..n  PROVE Addr(u, i + 1) = Addr(u, i) + SizeOf(u[i])
  <2>1. (i + 1) - 1 = i /\ i \in 0..n /\ i # 0  BY <1>1
  <2> QED  BY <1>7, <1>8, <2>1
<1>10. Addr(u, 1) = 0
  <2>1. 1 - 1 = 0 /\ 0 \in 0..n  BY <1>1
  <2> QED  BY <1>7, <1>8, <2>1
<1>11. ASSUME NEW i \in 1..(n + 1)  PROVE Addr(u, i) \in Nat
  <2> DEFINE Bad == {k \in 1..(n + 1) : Addr(u, k) \notin Nat}
  <2>1. ASSUME Bad # {}  PROVE FALSE
    <3>1. PICK k \in Bad : \A j \in Bad : k <= j
      <4>1. Bad \in SUBSET Nat  BY <1>1
      <4> HIDE DEF Bad
      <4> QED  BY <2>1, <4>1, LeastNat
    <3>2. k \in 1..(n + 1) /\ Addr(u, k) \notin Nat /\ k # 1  BY <1>10
    <3>3. k - 1 \in 1..n /\ k - 1 \in 1..(n + 1) /\ (k - 1) + 1 = k /\ ~(k <= k - 1)
      BY <1>1, <3>2
    <3>4. Addr(u, k - 1) \in Nat  BY <3>1, <3>3
    <3>5. Addr(u, (k - 1) + 1) = Addr(u, k - 1) + SizeOf(u[k - 1])  BY ONLY <1>9, <3>3
    <3>6. Addr(u, k) = Addr(u, k - 1) + SizeOf(u[k - 1])  BY <3>3, <3>5
    <3>7. SizeOf(u[k - 1]) \in Nat  BY <1>1, <3>3
    <3> QED  BY ONLY <3>2, <3>4, <3>6, <3>7
  <2> QED  BY <2>1
<1> QED  BY <1>1, <1>9, <1>10, <1>11

\* Addresses grow with the lines.
LEMMA AddrGrows ==
    ASSUME NEW u, WellFormed(u), NEW i \in DOMAIN u, NEW j \in 1..(Len(u) + 1), i < j
    PROVE  Addr(u, i) + SizeOf(u[i]) <= Addr(u, j)
<1>1. /\ Len(u) \in Nat /\ DOMAIN u = 1..Len(u)
      /\ \A k \in DOMAIN u : SizeOf(u[k]) \in Nat
      /\ \A k \in 1..(Len(u) + 1) : Addr(u, k) \in Nat
      /\ \A k \in DOMAIN u : Addr(u, k + 1) = Addr(u, k) + SizeOf(u[k])
  BY Lines, Sizes, AddrStep
<1> DEFINE n == Len(u)
           Bad == {k \in (i + 1)..(n + 1) : ~(Addr(u, i) + SizeOf(u[i]) <= Addr(u, k))}
<1>2. ASSUME Bad # {}  PROVE FALSE
  <2>1. PICK k \in Bad : \A m \in Bad : k <= m
    <3>1. Bad \in SUBSET Nat  BY <1>1
    <3> HIDE DEF Bad
    <3> QED  BY <1>2, <3>1, LeastNat
  <2>2. k \in (i + 1)..(n + 1) /\ ~(Addr(u, i) + SizeOf(u[i]) <= Addr(u, k))  OBVIOUS
  <2>3. k # i + 1  BY <1>1, <2>2
  <2>4. k - 1 \in (i + 1)..(n + 1) /\ k - 1 \in 1..n /\ (k - 1) + 1 = k /\ ~(k <= k - 1)
    BY <1>1, <2>2, <2>3
  <2>5. Addr(u, i) + SizeOf(u[i]) <= Addr(u, k - 1)  BY <2>1, <2>4
  <2>6. Addr(u, k) = Addr(u, k - 1) + SizeOf(u[k - 1])  BY <1>1, <2>4
  <2>7. Addr(u, k - 1) \in Nat /\ SizeOf(u[k - 1]) \in Nat /\ Addr(u, i) \in Nat /\ SizeOf(u[i]) \in Nat
    <3>1. k - 1 \in DOMAIN u /\ k - 1 \in 1..(n + 1) /\ i \in 1..(n + 1)  BY <1>1, <2>4
    <3> QED  BY <1>1, <3>1
  <2> QED  BY <2>2, <2>5, <2>6, <2>7
<1>3. j \in (i + 1)..(n + 1)  BY <1>1
<1> QED  BY <1>2, <1>3

\* A reference takes two cells, and so references have addresses of their own.
LEMMA RefAddr ==
    ASSUME NEW u, WellFormed(u), NEW i \in DOMAIN u, IsRef(u[i])
    PROVE  /\ Addr(u, i) \in Nat /\ Addr(u, i + 1) = Addr(u, i) + 2
           /\ \A j \in 1..(Len(u) + 1) : i < j => Addr(u, i) + 2 <= Addr(u, j)
           /\ \A j \in DOMAIN u : IsRef(u[j]) /\ j # i => Addr(u, j) # Addr(u, i)
<1>1. /\ Len(u) \in Nat /\ DOMAIN u = 1..Len(u)
      /\ \A k \in DOMAIN u : IsRef(u[k]) => SizeOf(u[k]) = 2
      /\ \A k \in 1..(Len(u) + 1) : Addr(u, k) \in Nat
      /\ \A k \in DOMAIN u : Addr(u, k + 1) = Addr(u, k) + SizeOf(u[k])
  BY Lines, Sizes, AddrStep DEF IsRef
<1>2. \A k \in DOMAIN u, j \in 1..(Len(u) + 1) : k < j => Addr(u, k) + SizeOf(u[k]) <= Addr(u, j)
  BY AddrGrows
<1>3. ASSUME NEW j \in DOMAIN u, IsRef(u[j]), j # i  PROVE Addr(u, j) # Addr(u, i)
  <2>1. i \in 1..(Len(u) + 1) /\ j \in 1..(Len(u) + 1) /\ (i < j \/ j < i)  BY <1>1, <1>3
  <2>2. Addr(u, i) \in Nat /\ Addr(u, j) \in Nat  BY <1>1, <2>1
  <2>3. i < j => Addr(u, i) + 2 <= Addr(u, j)  BY <1>1, <1>2, <2>1
  <2>4. j < i => Addr(u, j) + 2 <= Addr(u, i)  BY <1>1, <1>2, <1>3, <2>1
  <2> QED  BY <2>1, <2>2, <2>3, <2>4
<1>4. i \in 1..(Len(u) + 1)  BY <1>1
<1> QED  BY <1>1, <1>2, <1>3, <1>4

\* The code of a procedure begins behind its block: no label has address 0.
LEMMA LabelAddr ==
    ASSUME NEW u, WellFormed(u), NEW j \in DOMAIN u, u[j].op = "lab"
    PROVE  Addr(u, j) \in Nat \ {0} /\ Addr(u, j + 1) = Addr(u, j)
<1>1. /\ Len(u) \in Nat /\ DOMAIN u = 1..Len(u)
      /\ \A k \in 1..(Len(u) + 1) : Addr(u, k) \in Nat
      /\ Addr(u, j + 1) = Addr(u, j) + SizeOf(u[j]) /\ SizeOf(u[j]) = 0
  BY Lines, Sizes, AddrStep
<1>2. PICK k \in 1..(j - 1) : u[k].op = "declend"  BY DEF WellFormed
<1>3. k \in DOMAIN u /\ k < j /\ j \in 1..(Len(u) + 1) /\ k \in 1..(Len(u) + 1)  BY <1>1
<1>4. SizeOf(u[k]) = 1  BY <1>2, <1>3, Lines, Sizes
<1>5. Addr(u, k) + 1 <= Addr(u, j)  BY <1>3, <1>4, AddrGrows
<1> QED  BY <1>1, <1>3, <1>5

\* A line belongs to the procedure that begins last before it: ProcAt() tells
\* procedures apart.
LEMMA ProcAtMeans ==
    ASSUME WellFormed(ucode), NEW i \in DOMAIN ucode, NEW j \in DOMAIN ucode
    PROVE  ProcAt(i) = ProcAt(j) <=> InOne(ucode, i, j)
<1> DEFINE Begin(n, k) == /\ k \in 1..n /\ ucode[k].op = "proc"
                          /\ \A m \in (k + 1)..n : ucode[m].op # "proc"
           At(n) == CHOOSE k \in 1..n : /\ ucode[k].op = "proc"
                                        /\ \A m \in (k + 1)..n : ucode[m].op # "proc"
<1>1. Len(ucode) \in Nat /\ DOMAIN ucode = 1..Len(ucode)  BY Lines
<1>2. ucode[1].op = "proc"
  <2>1. ucode # <<>>  BY <1>1
  <2> QED  BY <2>1 DEF WellFormed
<1>3. ASSUME NEW n \in DOMAIN ucode  PROVE Begin(n, At(n))
  <2> DEFINE T == {d \in 0..(n - 1) : ucode[n - d].op = "proc"}
  <2>1. n \in Nat /\ n \in 1..Len(ucode)  BY <1>1
  <2>2. n - 1 \in T
    <3>1. n - (n - 1) = 1 /\ n - 1 \in 0..(n - 1)  BY <2>1
    <3> QED  BY <1>2, <3>1
  <2>3. PICK d \in T : \A e \in T : d <= e
    <3>1. T \in SUBSET Nat  BY <2>1
    <3> HIDE DEF T
    <3> QED  BY <2>2, <3>1, LeastNat
  <2>4. d \in 0..(n - 1) /\ ucode[n - d].op = "proc" /\ n - d \in 1..n  BY <2>1
  <2>5. ASSUME NEW m \in ((n - d) + 1)..n, ucode[m].op = "proc"  PROVE FALSE
    <3>1. n - m \in 0..(n - 1) /\ n - (n - m) = m /\ ~(d <= n - m)
      <4>1. n \in Nat /\ d \in Nat /\ d <= n - 1 /\ m \in Int /\ (n - d) + 1 <= m /\ m <= n
        BY <2>1, <2>4
      <4> QED  BY ONLY <4>1
    <3>2. n - m \in T  BY <2>5, <3>1
    <3> QED  BY <2>3, <3>1, <3>2
  <2>6. Begin(n, n - d)  BY <2>4, <2>5
  <2> QED  BY <2>6
<1>4. ProcAt(i) = ucode[At(i)].num /\ ProcAt(j) = ucode[At(j)].num  BY DEF ProcAt
<1>5. Begin(i, At(i)) /\ Begin(j, At(j))  BY <1>3
<1> HIDE DEF At
<1>6. /\ At(i) \in DOMAIN ucode /\ At(j) \in DOMAIN ucode
      /\ \A k \in DOMAIN ucode : ucode[k].op = "proc" => (k <= i <=> k <= At(i))
      /\ \A k \in DOMAIN ucode : ucode[k].op = "proc" => (k <= j <=> k <= At(j))
  <2>1. At(i) \in DOMAIN ucode /\ At(j) \in DOMAIN ucode /\ At(i) <= i /\ At(j) <= j
    BY <1>1, <1>5
  <2>2. ASSUME NEW k \in DOMAIN ucode, ucode[k].op = "proc"
        PROVE  (k <= i <=> k <= At(i)) /\ (k <= j <=> k <= At(j))
    <3>1. k \notin (At(i) + 1)..i /\ k \notin (At(j) + 1)..j  BY <1>5, <2>2
    <3> QED  BY <1>1, <2>1, <3>1
  <2> QED  BY <2>1, <2>2
<1>7. ProcAt(i) = ProcAt(j) => At(i) = At(j)
  <2>1. \A k, m \in DOMAIN ucode :
          ucode[k].op = "proc" /\ ucode[m].op = "proc" /\ ucode[k].num = ucode[m].num => k = m
    BY DEF WellFormed
  <2>2. ucode[At(i)].op = "proc" /\ ucode[At(j)].op = "proc"  BY <1>5
  <2> HIDE DEF Begin
  <2> QED  BY <1>4, <1>6, <2>1, <2>2
<1>8. At(i) = At(j) => InOne(ucode, i, j)  BY <1>6 DEF InOne
<1>9. InOne(ucode, i, j) => At(i) = At(j)
  <2> HAVE InOne(ucode, i, j)
  <2>1. At(i) <= i /\ At(j) <= j  BY <1>1, <1>5
  <2>2. At(i) <= j /\ At(j) <= i  BY <1>5, <1>6, <2>1 DEF InOne
  <2>3. At(i) <= At(j) /\ At(j) <= At(i)  BY <1>5, <1>6, <2>2
  <2> QED  BY <1>1, <1>6, <2>3
<1> QED  BY <1>4, <1>7, <1>8, <1>9

\* Every reference has one place.
LEMMA OnePlace ==
    ASSUME NEW u, WellFormed(u), NEW i \in DOMAIN u, IsRef(u[i])
    PROVE  /\ \E j : PlaceFor(u, i, j)
           /\ \A j, k : PlaceFor(u, i, j) /\ PlaceFor(u, i, k) => j = k
           /\ u[i].lab \in LabelsOf(u)
<1>1. \E j : PlaceFor(u, i, j)  BY DEF WellFormed, IsRef, PlaceFor
<1>2. ASSUME NEW j, NEW k, PlaceFor(u, i, j), PlaceFor(u, i, k)  PROVE j = k
  <2>1. InOne(u, j, k)  BY <1>2 DEF PlaceFor, InOne
  <2> QED  BY <1>2, <2>1 DEF PlaceFor, WellFormed
<1>3. "lab" \in DOMAIN u[i]  BY Lines DEF IsRef, LineForm, Plain
<1> QED  BY <1>1, <1>2, <1>3 DEF LabelsOf

-----------------------------------------------------------------------------
(* References and places in force *)

LEMMA OpenIsOne ==
    ASSUME NEW u, WellFormed(u), NEW i \in DOMAIN u, NEW m \in DOMAIN u, i < m,
           u[m].op # "proc"
    PROVE  Open(u, i, m) <=> InOne(u, i, m)
<1>1. Len(u) \in Nat /\ DOMAIN u = 1..Len(u)  BY Lines
<1>2. \A k \in DOMAIN u : u[k].op = "proc" => (k < m <=> k <= m)  BY <1>1
<1> QED  BY <1>2 DEF Open, InOne

\* What is in force before the next line.
LEMMA NextLine ==
    ASSUME NEW u, WellFormed(u), NEW m \in DOMAIN u, NEW l
    PROVE  IF u[m].op = "proc"
           THEN Pending(u, l, m + 1) = {} /\ Placed(u, l, m + 1) = {}
           ELSE /\ Pending(u, l, m + 1) = Pending(u, l, m) \cup
                     (IF IsRef(u[m]) /\ u[m].lab = l THEN {m} ELSE {})
                /\ Placed(u, l, m + 1) = Placed(u, l, m) \cup
                     (IF u[m].op = "lab" /\ u[m].lab = l THEN {m} ELSE {})
<1>1. Len(u) \in Nat /\ DOMAIN u = 1..Len(u)  BY Lines
<1>2. CASE u[m].op = "proc"
  <2>1. \A i \in DOMAIN u : Open(u, i, m + 1) => i = m  BY <1>1, <1>2 DEF Open
  <2>2. ~IsRef(u[m]) /\ u[m].op # "lab"  BY <1>2 DEF IsRef
  <2> QED  BY <1>2, <2>1, <2>2 DEF Pending, Placed
<1>3. CASE u[m].op # "proc"
  <2>1. ASSUME NEW i \in DOMAIN u  PROVE Open(u, i, m + 1) <=> Open(u, i, m) \/ i = m
    <3>1. \A k \in DOMAIN u : u[k].op = "proc" => (k < m + 1 <=> k < m) /\ (k <= m <=> k < m + 1)
      BY <1>1, <1>3
    <3>2. i < m + 1 <=> i < m \/ i = m  BY <1>1
    <3>3. ~(m < m)  BY <1>1
    <3> QED  BY <3>1, <3>2, <3>3 DEF Open
  <2> QED  BY <1>3, <2>1 DEF Pending, Placed
<1> QED  BY <1>2, <1>3

\* Between two references in force, what is before the one is what is before the
\* other, up to it.
LEMMA PendingInside ==
    ASSUME NEW u, WellFormed(u), NEW l, NEW m \in 1..(Len(u) + 1), NEW k \in Pending(u, l, m)
    PROVE  \A i : i \in Pending(u, l, k) <=> i \in Pending(u, l, m) /\ i < k
<1>1. Len(u) \in Nat /\ DOMAIN u = 1..Len(u)  BY Lines
<1>2. k \in DOMAIN u /\ u[k].op # "proc" /\ Open(u, k, m)  BY DEF Pending, IsRef
<1>3. ASSUME NEW i \in DOMAIN u  PROVE Open(u, i, k) <=> Open(u, i, m) /\ i < k
  <2>1. \A p \in DOMAIN u : u[p].op = "proc" => (p < k <=> p < m)
    <3>1. \A p \in DOMAIN u : u[p].op = "proc" => (p < k <=> p <= k)  BY <1>1, <1>2
    <3> QED  BY <1>2, <3>1 DEF Open
  <2>2. i < k => i < m  BY <1>1, <1>2 DEF Open
  <2> QED  BY <2>1, <2>2 DEF Open
<1> QED  BY <1>3 DEF Pending

LEMMA HeadType ==
    ASSUME NEW u, WellFormed(u), NEW l, NEW m \in 1..(Len(u) + 1), NEW x, ChainFrom(u, l, m, x)
    PROVE  /\ x \in Int /\ x <= 0
           /\ \A i \in Pending(u, l, m) : Addr(u, i) \in Nat /\ Addr(u, i) + 1 <= -x
           /\ x = 0 \/ \E k \in Pending(u, l, m) : x = -(Addr(u, k) + 1)
<1>1. Len(u) \in Nat /\ DOMAIN u = 1..Len(u)  BY Lines
<1>2. \A i \in Pending(u, l, m) : i \in DOMAIN u /\ IsRef(u[i])  BY DEF Pending
<1>3. \A i \in Pending(u, l, m) : Addr(u, i) \in Nat  BY <1>2, RefAddr
<1>4. CASE Pending(u, l, m) = {} /\ x = 0  BY <1>4
<1>5. CASE \E k \in Pending(u, l, m) :
             (\A i \in Pending(u, l, m) : i <= k) /\ x = -(Addr(u, k) + 1)
  <2>1. PICK k \in Pending(u, l, m) :
          (\A i \in Pending(u, l, m) : i <= k) /\ x = -(Addr(u, k) + 1)
    BY <1>5
  <2>2. ASSUME NEW i \in Pending(u, l, m)  PROVE Addr(u, i) <= Addr(u, k)
    <3>1. i \in DOMAIN u /\ k \in DOMAIN u /\ i <= k /\ IsRef(u[i])  BY <1>2, <2>1
    <3>2. CASE i = k  BY <1>3, <3>2
    <3>3. CASE i # k
      <4>1. i < k /\ k \in 1..(Len(u) + 1)  BY <1>1, <3>1, <3>3
      <4>2. Addr(u, i) + 2 <= Addr(u, k)  BY <3>1, <4>1, RefAddr
      <4> QED  BY <1>3, <4>2
    <3> QED  BY <3>2, <3>3
  <2>3. Addr(u, k) \in Nat  BY <1>3
  <2> QED  BY <1>3, <2>1, <2>2, <2>3
<1> QED  BY <1>4, <1>5 DEF ChainFrom

-----------------------------------------------------------------------------
(* The inductive invariant *)

Numbers(u) == {u[i].num : i \in {j \in DOMAIN u : "num" \in DOMAIN u[j]}}
Opcodes == Plain \cup {"int", "invoke", "keywd", "global", "arg", "block", "mark", "goto", "chfail"}
Cells(u) == [op : Opcodes] \cup [w : Int \cup Numbers(u)]

\* The operand of the reference in line i to the label that line j places: the
\* distance once the label is placed and the chain is walked that far; before
\* that the next link of the chain.
Operand(u, i, j) ==
    LET word == codeb[Addr(u, i) + 2]
    IN  IF j < line \/ (j = line /\ chain # Idle /\ -chain < Addr(u, i) + 1)
        THEN word = Word(Addr(u, j) - (Addr(u, i) + 2))
        ELSE \E x : ChainFrom(u, u[i].lab, i, x) /\ word = Word(x)

Operands(u) ==
    \A i \in DOMAIN u, j \in DOMAIN u :
      IsRef(u[i]) /\ i < line /\ PlaceFor(u, i, j) => Operand(u, i, j)

\* The entry of a label: its address, or the head of its chain.
Table(u) ==
    \A l \in LabelsOf(u) :
      /\ \A j \in Placed(u, l, line) : labels[l] = Addr(u, j)
      /\ Placed(u, l, line) = {} => ChainFrom(u, l, line, labels[l])

\* backpatch() stands at a reference to the label of the line, or at the end.
Walking(u) ==
    chain # Idle =>
      /\ line \in DOMAIN u /\ u[line].op = "lab"
      /\ chain = 0 \/ \E k \in Pending(u, u[line].lab, line) : chain = -(Addr(u, k) + 1)

Types(u) ==
    /\ ucode = u
    /\ line \in 1..(Len(u) + 1)
    /\ codeb \in Seq(Cells(u)) /\ Len(codeb) = Addr(u, line)
    /\ labels \in [LabelsOf(u) -> Int]
    /\ chain \in Int

LInv(u) == Types(u) /\ Table(u) /\ Walking(u) /\ Operands(u)

\* A line that is no label leaves the operands of earlier lines alone.
LEMMA OldOperands ==
    ASSUME NEW u, WellFormed(u), LInv(u), line \in DOMAIN u, u[line].op # "lab",
           chain = Idle, chain' = Idle, line' = line + 1,
           \A k \in 1..Len(codeb) : codeb'[k] = codeb[k],
           NEW i \in DOMAIN u, NEW j \in DOMAIN u,
           IsRef(u[i]), i < line, PlaceFor(u, i, j)
    PROVE  Operand(u, i, j)'
<1>1. Len(u) \in Nat /\ DOMAIN u = 1..Len(u)  BY Lines
<1>2. Operand(u, i, j)  BY DEF LInv, Operands
<1>3. Addr(u, i) \in Nat /\ Addr(u, i) + 2 <= Addr(u, line) /\ Len(codeb) = Addr(u, line)
  <2>1. line \in 1..(Len(u) + 1)  BY <1>1
  <2> QED  BY <2>1, RefAddr DEF LInv, Types
<1>4. Addr(u, line) \in Nat  BY <1>1, AddrStep
<1>5. codeb'[Addr(u, i) + 2] = codeb[Addr(u, i) + 2]  BY <1>3, <1>4
<1>6. j # line  BY DEF PlaceFor
<1>7. j < line + 1 <=> j < line  BY <1>1, <1>6
<1> QED  BY <1>2, <1>5, <1>6, <1>7 DEF Operand

\* A line without a label.
LEMMA PlainLine ==
    ASSUME NEW u, WellFormed(u), LInv(u), line \in DOMAIN u, chain = Idle,
           u[line].op \notin {"proc", "lab"}, ~IsRef(u[line]),
           NEW cells \in Seq(Cells(u)), Len(cells) = SizeOf(u[line]),
           Out(cells), UNCHANGED <<ucode, labels, chain>>
    PROVE  LInv(u)'
<1>1. Len(u) \in Nat /\ DOMAIN u = 1..Len(u)  BY Lines
<1>2. Types(u) /\ Table(u) /\ Walking(u)  BY DEF LInv
<1>3. codeb' = codeb \o cells /\ line' = line + 1  BY DEF Out
<1>4. /\ codeb' \in Seq(Cells(u)) /\ Len(codeb') = Len(codeb) + Len(cells)
      /\ \A k \in 1..Len(codeb) : codeb'[k] = codeb[k]
  <2>1. codeb \in Seq(Cells(u)) /\ Len(codeb) \in Nat /\ Len(cells) \in Nat  BY <1>2 DEF Types
  <2>2. codeb \o cells \in Seq(Cells(u)) /\ Len(codeb \o cells) = Len(codeb) + Len(cells)
    BY <2>1, ConcatProperties
  <2>3. \A k \in 1..(Len(codeb) + Len(cells)) :
          (codeb \o cells)[k] = IF k <= Len(codeb) THEN codeb[k] ELSE cells[k - Len(codeb)]
    BY <2>1, ConcatProperties
  <2>4. \A k \in 1..Len(codeb) : k \in 1..(Len(codeb) + Len(cells)) /\ k <= Len(codeb)
    BY <2>1
  <2> QED  BY <1>3, <2>2, <2>3, <2>4
<1>5. Addr(u, line + 1) = Addr(u, line) + SizeOf(u[line])  BY AddrStep
<1>6. Types(u)'  BY <1>1, <1>2, <1>3, <1>4, <1>5 DEF Types
<1>7. \A l : Pending(u, l, line + 1) = Pending(u, l, line)
             /\ Placed(u, l, line + 1) = Placed(u, l, line)
  <2> TAKE l
  <2>1. /\ Pending(u, l, line + 1) = Pending(u, l, line) \cup
             (IF IsRef(u[line]) /\ u[line].lab = l THEN {line} ELSE {})
        /\ Placed(u, l, line + 1) = Placed(u, l, line) \cup
             (IF u[line].op = "lab" /\ u[line].lab = l THEN {line} ELSE {})
    BY NextLine
  <2> QED  BY <2>1
<1>8. Table(u)'
  <2>1. \A l, x : ChainFrom(u, l, line, x) => ChainFrom(u, l, line + 1, x)  BY <1>7 DEF ChainFrom
  <2> QED  BY <1>2, <1>3, <1>7, <2>1 DEF Table
<1>9. Walking(u)'  BY DEF Walking
<1>10. Operands(u)'
  <2> SUFFICES ASSUME NEW i \in DOMAIN u, NEW j \in DOMAIN u,
                      IsRef(u[i]), i < line', PlaceFor(u, i, j)
               PROVE  Operand(u, i, j)'
    BY DEF Operands
  <2>1. i < line  BY <1>1, <1>3
  <2> QED  BY <1>3, <1>4, <2>1, OldOperands
<1> QED  BY <1>6, <1>8, <1>9, <1>10 DEF LInv

\* The cells of a line.
LEMMA ShortSeqs ==
    ASSUME NEW A, NEW a \in A, NEW b \in A
    PROVE  /\ <<>> \in Seq(A) /\ Len(<<>>) = 0
           /\ <<a>> \in Seq(A) /\ Len(<<a>>) = 1
           /\ <<a, b>> \in Seq(A) /\ Len(<<a, b>>) = 2
OBVIOUS

LEMMA CellSeqs ==
    ASSUME NEW u, NEW name \in Opcodes
    PROVE  /\ <<Op(name)>> \in Seq(Cells(u)) /\ Len(<<Op(name)>>) = 1
           /\ \A w \in Int \cup Numbers(u) :
                <<Op(name), Word(w)>> \in Seq(Cells(u)) /\ Len(<<Op(name), Word(w)>>) = 2
<1>1. Op(name) \in Cells(u)  BY DEF Op, Cells
<1>2. ASSUME NEW w \in Int \cup Numbers(u)
      PROVE  <<Op(name), Word(w)>> \in Seq(Cells(u)) /\ Len(<<Op(name), Word(w)>>) = 2
  <2>1. Word(w) \in Cells(u)  BY DEF Word, Cells
  <2> QED  BY <1>1, <2>1, ShortSeqs
<1>3. <<Op(name)>> \in Seq(Cells(u)) /\ Len(<<Op(name)>>) = 1  BY <1>1, ShortSeqs
<1> QED  BY <1>2, <1>3

LEMMA AtLine ==
    ASSUME NEW u, WellFormed(u), LInv(u), NEW ops, Reading(ops)
    PROVE  /\ chain = Idle /\ line \in DOMAIN u /\ ucode = u /\ u[line].op \in ops
           /\ LineForm(u[line])
<1>1. Len(u) \in Nat /\ DOMAIN u = 1..Len(u)  BY Lines
<1>2. line \in 1..(Len(u) + 1) /\ ucode = u  BY DEF LInv, Types
<1>3. chain = Idle /\ line <= Len(u) /\ u[line].op \in ops  BY <1>2 DEF Reading
<1> QED  BY <1>1, <1>2, <1>3, Lines

LEMMA LemitStep == ASSUME NEW u, WellFormed(u), LInv(u), Lemit  PROVE LInv(u)'
<1>1. /\ chain = Idle /\ line \in DOMAIN u /\ ucode = u /\ u[line].op \in Plain
      /\ LineForm(u[line])
  BY AtLine DEF Lemit
<1> DEFINE cells == <<Op(u[line].op)>>
<1>2. Out(cells) /\ UNCHANGED <<ucode, labels, chain>>  BY <1>1 DEF Lemit
<1>3. u[line].op \in Opcodes /\ u[line].op \notin {"proc", "lab"} /\ ~IsRef(u[line])
  BY <1>1 DEF Plain, IsRef, Opcodes
<1>4. cells \in Seq(Cells(u)) /\ Len(cells) = SizeOf(u[line])  BY <1>1, <1>3, CellSeqs, Sizes
<1> HIDE DEF cells
<1> QED  BY <1>1, <1>2, <1>3, <1>4, PlainLine

LEMMA LemitnStep == ASSUME NEW u, WellFormed(u), LInv(u), Lemitn  PROVE LInv(u)'
<1>1. /\ chain = Idle /\ line \in DOMAIN u /\ ucode = u /\ u[line].op \in {"int", "invoke"}
      /\ LineForm(u[line])
  BY AtLine DEF Lemitn
<1> DEFINE cells == <<Op(u[line].op), Word(u[line].num)>>
<1>2. Out(cells) /\ UNCHANGED <<ucode, labels, chain>>  BY <1>1 DEF Lemitn
<1>3. u[line].op \in Opcodes /\ u[line].op \notin {"proc", "lab"} /\ ~IsRef(u[line])
  BY <1>1 DEF IsRef, Opcodes
<1>4. u[line].num \in Numbers(u)
  <2>1. "num" \in DOMAIN u[line]  BY <1>1 DEF LineForm, Plain
  <2> QED  BY <1>1, <2>1 DEF Numbers
<1>5. cells \in Seq(Cells(u)) /\ Len(cells) = SizeOf(u[line])
  BY <1>1, <1>3, <1>4, CellSeqs, Sizes
<1> HIDE DEF cells
<1> QED  BY <1>1, <1>2, <1>3, <1>5, PlainLine

LEMMA LinkVarStep == ASSUME NEW u, WellFormed(u), LInv(u), LinkVar  PROVE LInv(u)'
<1>1. /\ chain = Idle /\ line \in DOMAIN u /\ ucode = u /\ u[line].op = "var"
      /\ LineForm(u[line])
  BY AtLine DEF LinkVar
<1> DEFINE k == u[line].num
           cells == IF k < Param THEN <<Op("global"), Word(k)>> ELSE <<Op("arg"), Word(k - Param)>>
<1>2. Out(cells) /\ UNCHANGED <<ucode, labels, chain>>  BY <1>1 DEF LinkVar
<1>3. u[line].op \notin {"proc", "lab"} /\ ~IsRef(u[line])  BY <1>1 DEF IsRef
<1>4. k \in Nat  BY <1>1 DEF LineForm, Plain
<1>5. cells \in Seq(Cells(u)) /\ Len(cells) = SizeOf(u[line])
  <2>1. k \in Int /\ k - Param \in Int  BY <1>4 DEF Param
  <2>2. <<Op("global"), Word(k)>> \in Seq(Cells(u)) /\ Len(<<Op("global"), Word(k)>>) = 2
    BY <2>1, CellSeqs DEF Opcodes
  <2>3. <<Op("arg"), Word(k - Param)>> \in Seq(Cells(u)) /\ Len(<<Op("arg"), Word(k - Param)>>) = 2
    BY <2>1, CellSeqs DEF Opcodes
  <2>4. SizeOf(u[line]) = 2  BY <1>1, Sizes
  <2> QED  BY <2>2, <2>3, <2>4
<1> HIDE DEF cells
<1> QED  BY <1>1, <1>2, <1>3, <1>5, PlainLine

LEMMA LinkKeywdStep == ASSUME NEW u, WellFormed(u), LInv(u), LinkKeywd  PROVE LInv(u)'
<1>1. /\ chain = Idle /\ line \in DOMAIN u /\ ucode = u /\ u[line].op = "keywd"
      /\ LineForm(u[line])
  BY AtLine DEF LinkKeywd
<1> DEFINE k == u[line].num
           cells == CASE k = "fail" -> <<Op("efail")>>
                      [] k = "null" -> <<Op("pnull")>>
                      [] OTHER -> <<Op("keywd"), Word(k)>>
<1>2. Out(cells) /\ UNCHANGED <<ucode, labels, chain>>  BY <1>1 DEF LinkKeywd
<1>3. u[line].op \notin {"proc", "lab"} /\ ~IsRef(u[line])  BY <1>1 DEF IsRef
<1>4. k \in Numbers(u)
  <2>1. "num" \in DOMAIN u[line]  BY <1>1 DEF LineForm, Plain
  <2> QED  BY <1>1, <2>1 DEF Numbers
<1>5. cells \in Seq(Cells(u)) /\ Len(cells) = SizeOf(u[line])
  <2>1. SizeOf(u[line]) = IF k \in {"fail", "null"} THEN 1 ELSE 2  BY <1>1, Sizes
  <2>2. CASE k = "fail"
    <3>1. cells = <<Op("efail")>>  BY <2>2
    <3> HIDE DEF cells
    <3> QED  BY <2>1, <2>2, <3>1, CellSeqs DEF Opcodes, Plain
  <2>3. CASE k = "null"
    <3>1. cells = <<Op("pnull")>>  BY <2>3
    <3> HIDE DEF cells
    <3> QED  BY <2>1, <2>3, <3>1, CellSeqs DEF Opcodes, Plain
  <2>4. CASE k # "fail" /\ k # "null"
    <3>1. cells = <<Op("keywd"), Word(k)>>  BY <2>4
    <3> HIDE DEF cells
    <3> QED  BY <1>4, <2>1, <2>4, <3>1, CellSeqs DEF Opcodes
  <2> QED  BY <2>2, <2>3, <2>4
<1> HIDE DEF cells
<1> QED  BY <1>1, <1>2, <1>3, <1>5, PlainLine

LEMMA LinkDeclendStep == ASSUME NEW u, WellFormed(u), LInv(u), LinkDeclend  PROVE LInv(u)'
<1>1. /\ chain = Idle /\ line \in DOMAIN u /\ ucode = u /\ u[line].op = "declend"
      /\ LineForm(u[line])
  BY AtLine DEF LinkDeclend
<1> DEFINE cells == <<Op("block")>>
<1>2. Out(cells) /\ UNCHANGED <<ucode, labels, chain>>  BY DEF LinkDeclend
<1>3. u[line].op \notin {"proc", "lab"} /\ ~IsRef(u[line])  BY <1>1 DEF IsRef
<1>4. cells \in Seq(Cells(u)) /\ Len(cells) = SizeOf(u[line])
  BY <1>1, CellSeqs, Sizes DEF Opcodes
<1> HIDE DEF cells
<1> QED  BY <1>1, <1>2, <1>3, <1>4, PlainLine

LEMMA LinkEndStep == ASSUME NEW u, WellFormed(u), LInv(u), LinkEnd  PROVE LInv(u)'
<1>1. /\ chain = Idle /\ line \in DOMAIN u /\ ucode = u /\ u[line].op = "end"
      /\ LineForm(u[line])
  BY AtLine DEF LinkEnd
<1>2. <<>> \in Seq(Cells(u)) /\ Len(<<>>) = SizeOf(u[line])  BY <1>1, Sizes
<1>3. codeb \o <<>> = codeb  BY ConcatEmptySeq DEF LInv, Types
<1>4. Out(<<>>) /\ UNCHANGED <<ucode, labels, chain>>  BY <1>3 DEF LinkEnd, Out
<1>5. u[line].op \notin {"proc", "lab"} /\ ~IsRef(u[line])  BY <1>1 DEF IsRef
<1> QED  BY <1>1, <1>2, <1>4, <1>5, PlainLine

-----------------------------------------------------------------------------
(* References and labels *)

LEMMA Appended ==
    ASSUME NEW C, NEW s \in Seq(C), NEW a \in C, NEW b \in C
    PROVE  /\ s \o <<a, b>> \in Seq(C) /\ Len(s \o <<a, b>>) = Len(s) + 2
           /\ \A k \in 1..Len(s) : (s \o <<a, b>>)[k] = s[k]
           /\ (s \o <<a, b>>)[Len(s) + 2] = b
<1>1. <<a, b>> \in Seq(C) /\ Len(<<a, b>>) = 2  BY ShortSeqs
<1>2. Len(s) \in Nat  OBVIOUS
<1> DEFINE t == <<a, b>>
<1>3. t[2] = b  OBVIOUS
<1> HIDE DEF t
<1>4. s \o t \in Seq(C) /\ Len(s \o t) = Len(s) + 2  BY <1>1, ConcatProperties DEF t
<1>5. \A k \in 1..(Len(s) + 2) : (s \o t)[k] = IF k <= Len(s) THEN s[k] ELSE t[k - Len(s)]
  BY <1>1, ConcatProperties DEF t
<1>6. \A k \in 1..Len(s) : (s \o t)[k] = s[k]
  <2>1. \A k \in 1..Len(s) : k \in 1..(Len(s) + 2) /\ k <= Len(s)  BY <1>2
  <2> QED  BY <1>5, <2>1
<1>7. (s \o t)[Len(s) + 2] = b
  <2>1. Len(s) + 2 \in 1..(Len(s) + 2) /\ ~(Len(s) + 2 <= Len(s)) /\ (Len(s) + 2) - Len(s) = 2
    BY <1>2
  <2> QED  BY <1>3, <1>5, <2>1
<1> QED  BY <1>4, <1>6, <1>7 DEF t

\* The entry of a label says whether its place is in force.
LEMMA EntryMeans ==
    ASSUME NEW u, WellFormed(u), LInv(u), line \in DOMAIN u, NEW l \in LabelsOf(u)
    PROVE  IF labels[l] <= 0
           THEN Placed(u, l, line) = {} /\ ChainFrom(u, l, line, labels[l])
           ELSE \E j \in Placed(u, l, line) : labels[l] = Addr(u, j)
<1>1. Len(u) \in Nat /\ DOMAIN u = 1..Len(u) /\ line \in 1..(Len(u) + 1)  BY Lines
<1>2. /\ \A j \in Placed(u, l, line) : labels[l] = Addr(u, j)
      /\ Placed(u, l, line) = {} => ChainFrom(u, l, line, labels[l])
  BY DEF LInv, Table
<1>3. \A j \in Placed(u, l, line) : Addr(u, j) \in Nat \ {0}
  BY LabelAddr DEF Placed
<1>4. Placed(u, l, line) = {} => labels[l] <= 0  BY <1>1, <1>2, HeadType
<1>5. Placed(u, l, line) # {} => ~(labels[l] <= 0)  BY <1>2, <1>3
<1> QED  BY <1>2, <1>4, <1>5

\* A place in force is the place of a reference, before it or after it.
LEMMA InForce ==
    ASSUME NEW u, WellFormed(u), NEW i \in DOMAIN u, NEW j \in DOMAIN u,
           IsRef(u[i]), u[j].op = "lab"
    PROVE  /\ j < i => (PlaceFor(u, i, j) <=> j \in Placed(u, u[i].lab, i))
           /\ i < j => (PlaceFor(u, i, j) <=> i \in Pending(u, u[j].lab, j))
           /\ i < j \/ j < i
<1>1. Len(u) \in Nat /\ DOMAIN u = 1..Len(u)  BY Lines
<1>2. u[i].op # "proc" /\ u[i].op # "lab"  BY DEF IsRef
<1>3. InOne(u, i, j) <=> InOne(u, j, i)  BY DEF InOne
<1>4. j < i => (Open(u, j, i) <=> InOne(u, j, i))  BY <1>2, OpenIsOne
<1>5. i < j => (Open(u, i, j) <=> InOne(u, i, j))  BY OpenIsOne
<1>6. i < j \/ j < i  BY <1>1, <1>2
<1> QED  BY <1>3, <1>4, <1>5, <1>6 DEF PlaceFor, Placed, Pending

LEMMA LemitlStep == ASSUME NEW u, WellFormed(u), LInv(u), Lemitl  PROVE LInv(u)'
<1>1. /\ chain = Idle /\ line \in DOMAIN u /\ ucode = u
      /\ u[line].op \in {"mark", "goto", "chfail"} /\ LineForm(u[line])
  BY AtLine DEF Lemitl
<1> DEFINE lab == u[line].lab
<1>2. Len(u) \in Nat /\ DOMAIN u = 1..Len(u) /\ line \in 1..(Len(u) + 1)  BY <1>1, Lines
<1>3. IsRef(u[line]) /\ u[line].op \in Opcodes /\ u[line].op \notin {"proc", "lab"}
  BY <1>1 DEF IsRef, Opcodes
<1>4. lab \in LabelsOf(u)  BY <1>1, <1>3, OnePlace
<1>5. /\ codeb \in Seq(Cells(u)) /\ Len(codeb) = Addr(u, line) /\ Addr(u, line) \in Nat
      /\ labels \in [LabelsOf(u) -> Int]
  BY <1>2, AddrStep DEF LInv, Types
<1>6. PICK w \in Int :
        /\ codeb' = codeb \o <<Op(u[line].op), Word(w)>> /\ line' = line + 1
        /\ UNCHANGED <<ucode, chain>>
        /\ IF labels[lab] <= 0
           THEN w = labels[lab] /\ labels' = [labels EXCEPT ![lab] = -(pc + 1)]
           ELSE w = labels[lab] - (pc + 2) /\ labels' = labels
  <2>1. labels[lab] \in Int /\ pc \in Int  BY <1>4, <1>5 DEF pc
  <2>2. CASE labels[lab] <= 0
    <3>1. /\ Out(<<Op(u[line].op), Word(labels[lab])>>) /\ UNCHANGED <<ucode, chain>>
          /\ labels' = [labels EXCEPT ![lab] = -(pc + 1)]
      BY <1>1, <2>2 DEF Lemitl
    <3> QED  BY <2>1, <2>2, <3>1 DEF Out
  <2>3. CASE ~(labels[lab] <= 0)
    <3>1. /\ Out(<<Op(u[line].op), Word(labels[lab] - ((pc + 1) + WordSize))>>)
          /\ UNCHANGED <<ucode, chain, labels>>
      BY <1>1, <2>3 DEF Lemitl
    <3>2. (pc + 1) + WordSize = pc + 2  BY <2>1 DEF WordSize
    <3>3. labels[lab] - (pc + 2) \in Int  BY <2>1
    <3>4. /\ codeb' = codeb \o <<Op(u[line].op), Word(labels[lab] - (pc + 2))>>
          /\ line' = line + 1 /\ UNCHANGED <<ucode, chain, labels>>
      BY <3>1, <3>2 DEF Out
    <3> WITNESS labels[lab] - (pc + 2) \in Int
    <3> QED  BY <2>3, <3>4
  <2> QED  BY <2>2, <2>3
<1>7. /\ codeb' \in Seq(Cells(u)) /\ Len(codeb') = Addr(u, line) + 2
      /\ \A k \in 1..Len(codeb) : codeb'[k] = codeb[k]
      /\ codeb'[Addr(u, line) + 2] = Word(w)
  <2>1. Op(u[line].op) \in Cells(u) /\ Word(w) \in Cells(u)
    BY <1>3, <1>6 DEF Op, Word, Cells
  <2> DEFINE C == Cells(u)
             a == Op(u[line].op)
             b == Word(w)
             new == codeb \o <<a, b>>
  <2>2. codeb \in Seq(C) /\ a \in C /\ b \in C /\ codeb' = new  BY <1>5, <1>6, <2>1
  <2>3. /\ new \in Seq(C) /\ Len(new) = Len(codeb) + 2
        /\ \A k \in 1..Len(codeb) : new[k] = codeb[k]
        /\ new[Len(codeb) + 2] = b
    <3> HIDE DEF C, a, b
    <3> QED  BY <2>2, Appended DEF new
  <2> QED  BY <1>5, <2>2, <2>3
<1>8. IF labels[lab] <= 0
      THEN Placed(u, lab, line) = {} /\ ChainFrom(u, lab, line, labels[lab])
      ELSE \E j \in Placed(u, lab, line) : labels[lab] = Addr(u, j)
  BY <1>1, <1>4, EntryMeans
<1>9. Types(u)'
  <2>1. Addr(u, line + 1) = Addr(u, line) + 2  BY <1>1, <1>3, RefAddr
  <2>2. labels' \in [LabelsOf(u) -> Int]
    <3>1. pc \in Int  BY <1>5 DEF pc
    <3> QED  BY <1>5, <1>6, <3>1
  <2>3. line + 1 \in 1..(Len(u) + 1)  BY <1>1, <1>2
  <2>4. chain' \in Int  BY <1>1, <1>6 DEF Idle
  <2> QED  BY <1>1, <1>6, <1>7, <2>1, <2>2, <2>3, <2>4 DEF Types
<1>10. Table(u)'
  <2>1. SUFFICES ASSUME NEW l \in LabelsOf(u)
                 PROVE  /\ \A j \in Placed(u, l, line + 1) : labels'[l] = Addr(u, j)
                        /\ Placed(u, l, line + 1) = {} => ChainFrom(u, l, line + 1, labels'[l])
    BY <1>6 DEF Table
  <2>2. /\ Pending(u, l, line + 1) = Pending(u, l, line) \cup (IF lab = l THEN {line} ELSE {})
        /\ Placed(u, l, line + 1) = Placed(u, l, line)
    <3>1. /\ Pending(u, l, line + 1) = Pending(u, l, line) \cup
               (IF IsRef(u[line]) /\ u[line].lab = l THEN {line} ELSE {})
          /\ Placed(u, l, line + 1) = Placed(u, l, line) \cup
               (IF u[line].op = "lab" /\ u[line].lab = l THEN {line} ELSE {})
      BY <1>1, <1>3, NextLine
    <3> QED  BY <1>3, <3>1
  <2>3. /\ \A j \in Placed(u, l, line) : labels[l] = Addr(u, j)
        /\ Placed(u, l, line) = {} => ChainFrom(u, l, line, labels[l])
    BY DEF LInv, Table
  <2>4. CASE l # lab
    <3>1. labels'[l] = labels[l] /\ Pending(u, l, line + 1) = Pending(u, l, line)
      BY <1>5, <1>6, <2>2, <2>4
    <3> QED  BY <2>2, <2>3, <3>1 DEF ChainFrom
  <2>5. CASE l = lab /\ labels[lab] <= 0
    <3>1. labels'[l] = -(Addr(u, line) + 1)  BY <1>4, <1>5, <1>6, <2>5 DEF pc
    <3>2. line \in Pending(u, l, line + 1)  BY <2>2, <2>5
    <3>3. \A i \in Pending(u, l, line + 1) : i <= line
      <4>1. \A i \in Pending(u, l, line) : i <= line  BY <1>2 DEF Pending, Open
      <4> QED  BY <1>2, <2>2, <2>5, <4>1
    <3>4. ChainFrom(u, l, line + 1, labels'[l])  BY <3>1, <3>2, <3>3 DEF ChainFrom
    <3> QED  BY <1>8, <2>2, <2>5, <3>4
  <2>6. CASE l = lab /\ ~(labels[lab] <= 0)
    <3>1. labels'[l] = labels[l]  BY <1>6, <2>6
    <3> QED  BY <1>8, <2>2, <2>3, <2>6, <3>1
  <2> QED  BY <2>4, <2>5, <2>6
<1>11. Walking(u)'  BY <1>1, <1>6 DEF Walking
<1>12. Operands(u)'
  <2> SUFFICES ASSUME NEW i \in DOMAIN u, NEW j \in DOMAIN u,
                      IsRef(u[i]), i < line', PlaceFor(u, i, j)
               PROVE  Operand(u, i, j)'
    BY DEF Operands
  <2>1. CASE i < line  BY <1>1, <1>3, <1>6, <1>7, <2>1, OldOperands
  <2>2. CASE i = line
    <3>1. u[j].op = "lab"  BY DEF PlaceFor
    <3>2. /\ j < line => (PlaceFor(u, line, j) <=> j \in Placed(u, lab, line))
          /\ line < j \/ j < line
      BY <1>1, <1>3, <3>1, InForce
    <3>3. CASE labels[lab] <= 0
      <4>1. line < j  BY <1>8, <2>2, <3>2, <3>3
      <4>2. ~(j < line + 1)  BY <1>2, <4>1
      <4>3. ChainFrom(u, u[i].lab, i, w) /\ codeb'[Addr(u, i) + 2] = Word(w)
        BY <1>6, <1>7, <1>8, <2>2, <3>3
      <4>4. line' = line + 1 /\ chain' = Idle  BY <1>1, <1>6
      <4>5. j # line + 1 \/ chain' = Idle  BY <4>4
      <4> QED  BY <4>2, <4>3, <4>4 DEF Operand
    <3>4. CASE ~(labels[lab] <= 0)
      <4>1. PICK m \in Placed(u, lab, line) : labels[lab] = Addr(u, m)  BY <1>8, <3>4
      <4>2. m \in DOMAIN u /\ u[m].op = "lab" /\ m < line  BY DEF Placed, Open
      <4>3. PlaceFor(u, line, m)  BY <1>1, <1>3, <4>1, <4>2, InForce
      <4>4. j = m  BY <1>1, <1>3, <2>2, <4>3, OnePlace
      <4>5. j < line + 1 /\ line' = line + 1  BY <1>2, <1>6, <4>2, <4>4
      <4>6. w = Addr(u, j) - (Addr(u, line) + 2)  BY <1>5, <1>6, <3>4, <4>1, <4>4 DEF pc
      <4> QED  BY <1>7, <2>2, <4>5, <4>6 DEF Operand
    <3> QED  BY <3>3, <3>4
  <2> QED  BY <1>2, <1>6, <2>1, <2>2
<1> QED  BY <1>9, <1>10, <1>11, <1>12 DEF LInv

LEMMA StartBackpatchStep ==
    ASSUME NEW u, WellFormed(u), LInv(u), StartBackpatch  PROVE LInv(u)'
<1>1. /\ chain = Idle /\ line \in DOMAIN u /\ ucode = u /\ u[line].op = "lab"
      /\ LineForm(u[line])
  BY AtLine DEF StartBackpatch
<1> DEFINE lab == u[line].lab
<1>2. Len(u) \in Nat /\ DOMAIN u = 1..Len(u) /\ line \in 1..(Len(u) + 1)  BY <1>1, Lines
<1>3. /\ labels[lab] <= 0 /\ chain' = labels[lab]
      /\ UNCHANGED <<ucode, line, codeb, labels>>
  BY <1>1 DEF StartBackpatch
<1>4. lab \in LabelsOf(u)
  <2>1. "lab" \in DOMAIN u[line]  BY <1>1 DEF LineForm, Plain
  <2> QED  BY <1>1, <2>1 DEF LabelsOf
<1>5. ChainFrom(u, lab, line, labels[lab])  BY <1>1, <1>3, <1>4, EntryMeans
<1>6. /\ chain' \in Int /\ chain' <= 0
      /\ \A i \in Pending(u, lab, line) : Addr(u, i) \in Nat /\ Addr(u, i) + 1 <= -chain'
      /\ chain' = 0 \/ \E k \in Pending(u, lab, line) : chain' = -(Addr(u, k) + 1)
  BY <1>2, <1>3, <1>5, HeadType
<1>7. Types(u)' /\ Table(u)'  BY <1>3, <1>6 DEF LInv, Types, Table
<1>8. Walking(u)'  BY <1>1, <1>3, <1>6 DEF Walking
<1>9. Operands(u)'
  <2> SUFFICES ASSUME NEW i \in DOMAIN u, NEW j \in DOMAIN u,
                      IsRef(u[i]), i < line, PlaceFor(u, i, j)
               PROVE  Operand(u, i, j)'
    BY <1>3 DEF Operands
  <2>1. Operand(u, i, j)  BY DEF LInv, Operands
  <2>2. j = line => ~(-chain' < Addr(u, i) + 1)
    <3> HAVE j = line
    <3>1. i \in Pending(u, lab, line)  BY <1>1, InForce
    <3> QED  BY <1>6, <3>1
  <2> QED  BY <1>1, <1>3, <2>1, <2>2 DEF Operand
<1> QED  BY <1>7, <1>8, <1>9 DEF LInv

LEMMA BackpatchStep ==
    ASSUME NEW u, WellFormed(u), LInv(u), Backpatch  PROVE LInv(u)'
<1> DEFINE lab == u[line].lab
<1>1. PICK k \in Pending(u, lab, line) : chain = -(Addr(u, k) + 1)
  BY DEF LInv, Walking, Backpatch, Idle
<1>2. line \in DOMAIN u /\ u[line].op = "lab"  BY DEF LInv, Walking, Backpatch, Idle
<1>3. Len(u) \in Nat /\ DOMAIN u = 1..Len(u) /\ line \in 1..(Len(u) + 1)  BY <1>2, Lines
<1>4. k \in DOMAIN u /\ IsRef(u[k]) /\ u[k].lab = lab /\ k < line /\ k \in 1..(Len(u) + 1)
  BY <1>3 DEF Pending, Open
<1>5. PlaceFor(u, k, line)  BY <1>1, <1>2, <1>4, InForce
<1>6. /\ Addr(u, k) \in Nat /\ Addr(u, line) \in Nat /\ Addr(u, k) + 2 <= Addr(u, line)
      /\ codeb \in Seq(Cells(u)) /\ Len(codeb) = Addr(u, line) /\ ucode = u
  BY <1>3, <1>4, RefAddr, AddrStep DEF LInv, Types
<1> DEFINE at == Addr(u, k) + 2
<1>7. -chain + 1 = at /\ pc - (WordSize - chain) = Addr(u, line) - at /\ chain # Idle
      /\ ~(-chain < Addr(u, k) + 1) /\ at \in 1..Len(codeb)
  BY <1>1, <1>6 DEF pc, WordSize, Idle
<1>8. /\ chain' = codeb[at].w /\ codeb' = [codeb EXCEPT ![at] = Word(Addr(u, line) - at)]
      /\ UNCHANGED <<ucode, line, labels>>
  BY <1>7 DEF Backpatch
<1>9. ChainFrom(u, lab, k, chain')
  <2>1. Operand(u, k, line)  BY <1>2, <1>4, <1>5 DEF LInv, Operands
  <2>2. ~(line < line)  BY <1>3
  <2>3. PICK x : ChainFrom(u, u[k].lab, k, x) /\ codeb[at] = Word(x)
    BY <1>7, <2>1, <2>2 DEF Operand
  <2>4. codeb[at].w = x  BY <2>3 DEF Word
  <2> QED  BY <1>4, <1>8, <2>3, <2>4
<1>10. /\ chain' \in Int /\ chain' <= 0
       /\ \A i \in Pending(u, lab, k) : Addr(u, i) \in Nat /\ Addr(u, i) + 1 <= -chain'
       /\ chain' = 0 \/ \E m \in Pending(u, lab, k) : chain' = -(Addr(u, m) + 1)
  <2> DEFINE l == lab
             x == chain'
  <2>1. k \in 1..(Len(u) + 1) /\ ChainFrom(u, l, k, x)  BY <1>4, <1>9
  <2> HIDE DEF l, x
  <2>2. /\ x \in Int /\ x <= 0
        /\ \A i \in Pending(u, l, k) : Addr(u, i) \in Nat /\ Addr(u, i) + 1 <= -x
        /\ x = 0 \/ \E m \in Pending(u, l, k) : x = -(Addr(u, m) + 1)
    BY <2>1, HeadType
  <2> QED  BY <2>2 DEF l, x
<1>11. \A i : i \in Pending(u, lab, k) <=> i \in Pending(u, lab, line) /\ i < k
  BY <1>1, <1>3, PendingInside
<1>12. -chain' < Addr(u, k) + 1
  <2>1. CASE chain' = 0  BY <1>6, <2>1
  <2>2. CASE chain' # 0
    <3>1. PICK m \in Pending(u, lab, k) : chain' = -(Addr(u, m) + 1)  BY <1>10, <2>2
    <3>2. m \in DOMAIN u /\ IsRef(u[m]) /\ m < k  BY <1>11 DEF Pending
    <3>3. Addr(u, m) \in Nat /\ Addr(u, m) + 2 <= Addr(u, k)  BY <1>4, <3>2, RefAddr
    <3> QED  BY <1>6, <3>1, <3>3
  <2> QED  BY <2>1, <2>2
<1>13. /\ codeb' \in Seq(Cells(u)) /\ Len(codeb') = Len(codeb)
       /\ codeb'[at] = Word(Addr(u, line) - at)
       /\ \A m \in 1..Len(codeb) : m # at => codeb'[m] = codeb[m]
  <2>1. Word(Addr(u, line) - at) \in Cells(u)  BY <1>6 DEF Word, Cells
  <2> DEFINE C == Cells(u)
             b == Word(Addr(u, line) - at)
  <2>2. codeb \in Seq(C) /\ b \in C /\ at \in 1..Len(codeb) /\ codeb' = [codeb EXCEPT ![at] = b]
    BY <1>6, <1>7, <1>8, <2>1
  <2> HIDE DEF C, b, at
  <2>3. /\ codeb' \in Seq(C) /\ Len(codeb') = Len(codeb) /\ codeb'[at] = b
        /\ \A m \in 1..Len(codeb) : m # at => codeb'[m] = codeb[m]
    BY <2>2
  <2> QED  BY <2>3 DEF C, b
<1>14. Types(u)'  BY <1>8, <1>10, <1>13 DEF LInv, Types
<1>15. Table(u)'  BY <1>8 DEF LInv, Table
<1>16. Walking(u)'
  <2>1. chain' = 0 \/ \E m \in Pending(u, lab, line) : chain' = -(Addr(u, m) + 1)
    BY <1>10, <1>11
  <2> QED  BY <1>2, <1>8, <2>1 DEF Walking
<1>17. Operands(u)'
  <2> SUFFICES ASSUME NEW i \in DOMAIN u, NEW j \in DOMAIN u,
                      IsRef(u[i]), i < line, PlaceFor(u, i, j)
               PROVE  Operand(u, i, j)'
    BY <1>8 DEF Operands
  <2>1. Operand(u, i, j)  BY DEF LInv, Operands
  <2>2. chain' # Idle  BY <1>10 DEF Idle
  <2>3. CASE i = k
    <3>1. j = line  BY <1>4, <1>5, <2>3, OnePlace
    <3> QED  BY <1>8, <1>12, <1>13, <2>2, <2>3, <3>1 DEF Operand
  <2>4. CASE i # k
    <3>1. /\ Addr(u, i) \in Nat /\ Addr(u, i) # Addr(u, k)
          /\ Addr(u, i) + 2 <= Addr(u, line)
          /\ i < k => Addr(u, i) + 2 <= Addr(u, k)
          /\ k < i => Addr(u, k) + 2 <= Addr(u, i)
          /\ i < k \/ k < i
      <4>1. i \in 1..(Len(u) + 1) /\ (i < k \/ k < i)  BY <1>3, <1>4, <2>4
      <4> QED  BY <1>3, <1>4, <2>4, <4>1, RefAddr
    <3>2. codeb'[Addr(u, i) + 2] = codeb[Addr(u, i) + 2]
      <4>1. Addr(u, i) + 2 \in 1..Len(codeb) /\ Addr(u, i) + 2 # at  BY <1>6, <3>1
      <4> QED  BY <1>13, <4>1
    <3>3. j = line => (-chain < Addr(u, i) + 1 <=> -chain' < Addr(u, i) + 1)
      <4> HAVE j = line
      <4>1. i \in Pending(u, lab, line)  BY <1>2, InForce
      <4>2. CASE i < k
        <5>1. Addr(u, i) + 1 <= -chain'  BY <1>10, <1>11, <4>1, <4>2
        <5> QED  BY <1>1, <1>6, <1>10, <3>1, <4>2, <5>1
      <4>3. CASE k < i  BY <1>1, <1>6, <1>10, <1>12, <3>1, <4>3
      <4> QED  BY <3>1, <4>2, <4>3
    <3> QED  BY <1>7, <1>8, <2>1, <2>2, <3>2, <3>3 DEF Operand
  <2> QED  BY <2>3, <2>4
<1> QED  BY <1>14, <1>15, <1>16, <1>17 DEF LInv

LEMMA EndBackpatchStep ==
    ASSUME NEW u, WellFormed(u), LInv(u), EndBackpatch  PROVE LInv(u)'
<1> DEFINE lab == u[line].lab
<1>1. line \in DOMAIN u /\ u[line].op = "lab" /\ ucode = u /\ chain = 0
  BY DEF LInv, Types, Walking, EndBackpatch, Idle
<1>2. Len(u) \in Nat /\ DOMAIN u = 1..Len(u) /\ line \in 1..(Len(u) + 1)  BY <1>1, Lines
<1>3. /\ labels' = [labels EXCEPT ![lab] = Addr(u, line)] /\ chain' = Idle
      /\ line' = line + 1 /\ UNCHANGED <<ucode, codeb>>
  BY <1>1 DEF EndBackpatch, LInv, Types, pc
<1>4. Addr(u, line) \in Nat /\ Addr(u, line + 1) = Addr(u, line)  BY <1>1, LabelAddr
<1>5. labels \in [LabelsOf(u) -> Int] /\ lab \in LabelsOf(u)
  <2>1. "lab" \in DOMAIN u[line]  BY <1>1, Lines DEF LineForm, Plain
  <2> QED  BY <1>1, <2>1 DEF LabelsOf, LInv, Types
<1>6. Types(u)'
  <2>1. line + 1 \in 1..(Len(u) + 1)  BY <1>1, <1>2
  <2>2. labels' \in [LabelsOf(u) -> Int] /\ Idle \in Int  BY <1>3, <1>4, <1>5 DEF Idle
  <2> QED  BY <1>3, <1>4, <2>1, <2>2 DEF LInv, Types
<1>7. Table(u)'
  <2>1. SUFFICES ASSUME NEW l \in LabelsOf(u)
                 PROVE  /\ \A j \in Placed(u, l, line + 1) : labels'[l] = Addr(u, j)
                        /\ Placed(u, l, line + 1) = {} => ChainFrom(u, l, line + 1, labels'[l])
    BY <1>3 DEF Table
  <2>2. /\ Pending(u, l, line + 1) = Pending(u, l, line)
        /\ Placed(u, l, line + 1) = Placed(u, l, line) \cup (IF lab = l THEN {line} ELSE {})
    <3>1. /\ Pending(u, l, line + 1) = Pending(u, l, line) \cup
               (IF IsRef(u[line]) /\ u[line].lab = l THEN {line} ELSE {})
          /\ Placed(u, l, line + 1) = Placed(u, l, line) \cup
               (IF u[line].op = "lab" /\ u[line].lab = l THEN {line} ELSE {})
      BY <1>1, NextLine
    <3> QED  BY <1>1, <3>1 DEF IsRef
  <2>3. CASE l # lab
    <3>1. labels'[l] = labels[l]  BY <1>3, <1>5, <2>3
    <3>2. /\ \A j \in Placed(u, l, line) : labels[l] = Addr(u, j)
          /\ Placed(u, l, line) = {} => ChainFrom(u, l, line, labels[l])
      BY DEF LInv, Table
    <3> QED  BY <2>2, <2>3, <3>1, <3>2 DEF ChainFrom
  <2>4. CASE l = lab
    <3>1. labels'[l] = Addr(u, line)  BY <1>3, <1>5, <2>4
    <3>2. ASSUME NEW j \in Placed(u, l, line)  PROVE j = line
      <4>1. j \in DOMAIN u /\ u[j].op = "lab" /\ u[j].lab = lab /\ Open(u, j, line)
        BY <2>4 DEF Placed
      <4>2. InOne(u, j, line)  BY <1>1, <4>1, OpenIsOne DEF Open
      <4> QED  BY <1>1, <4>1, <4>2 DEF WellFormed
    <3> QED  BY <2>2, <2>4, <3>1, <3>2
  <2> QED  BY <2>3, <2>4
<1>8. Walking(u)'  BY <1>3 DEF Walking
<1>9. Operands(u)'
  <2> SUFFICES ASSUME NEW i \in DOMAIN u, NEW j \in DOMAIN u,
                      IsRef(u[i]), i < line + 1, PlaceFor(u, i, j)
               PROVE  Operand(u, i, j)'
    BY <1>3 DEF Operands
  <2>1. i # line  BY <1>1 DEF IsRef
  <2>2. i < line  BY <1>2, <2>1
  <2>3. Operand(u, i, j)  BY <2>2 DEF LInv, Operands
  <2>4. Addr(u, i) \in Nat  BY RefAddr
  <2>5. -chain < Addr(u, i) + 1 /\ chain # Idle  BY <1>1, <2>4 DEF Idle
  <2>6. j < line + 1 <=> j < line \/ j = line  BY <1>2
  <2> QED  BY <1>3, <2>3, <2>5, <2>6 DEF Operand
<1> QED  BY <1>6, <1>7, <1>8, <1>9 DEF LInv

LEMMA LinkProcStep == ASSUME NEW u, WellFormed(u), LInv(u), LinkProc  PROVE LInv(u)'
<1>1. /\ chain = Idle /\ line \in DOMAIN u /\ ucode = u /\ u[line].op = "proc"
      /\ LineForm(u[line])
  BY AtLine DEF LinkProc
<1>2. Len(u) \in Nat /\ DOMAIN u = 1..Len(u)  BY Lines
<1>3. /\ labels' = [l \in LabelsOf(u) |-> 0] /\ line' = line + 1
      /\ UNCHANGED <<ucode, codeb, chain>>
  BY DEF LinkProc, LInv, Types
<1>4. Addr(u, line + 1) = Addr(u, line)
  <2>1. SizeOf(u[line]) = 0 /\ Addr(u, line + 1) = Addr(u, line) + SizeOf(u[line])
    BY <1>1, Sizes, AddrStep
  <2>2. Addr(u, line) \in Nat  BY <1>1, <1>2, AddrStep
  <2> QED  BY <2>1, <2>2
<1>5. Types(u)'
  <2>1. line + 1 \in 1..(Len(u) + 1) /\ labels' \in [LabelsOf(u) -> Int]  BY <1>1, <1>2, <1>3
  <2> QED  BY <1>3, <1>4, <2>1 DEF LInv, Types
<1>6. Table(u)'
  <2>1. \A l : Pending(u, l, line + 1) = {} /\ Placed(u, l, line + 1) = {}
    BY <1>1, NextLine
  <2>2. \A l \in LabelsOf(u) : labels'[l] = 0  BY <1>3
  <2> QED  BY <1>3, <2>1, <2>2 DEF Table, ChainFrom
<1>7. Walking(u)'  BY <1>1, <1>3 DEF Walking
<1>8. Operands(u)'
  <2> SUFFICES ASSUME NEW i \in DOMAIN u, NEW j \in DOMAIN u,
                      IsRef(u[i]), i < line + 1, PlaceFor(u, i, j)
               PROVE  Operand(u, i, j)'
    BY <1>3 DEF Operands
  <2>1. i # line  BY <1>1 DEF IsRef
  <2>2. i < line /\ u[line].op # "lab"  BY <1>1, <1>2, <2>1
  <2>3. chain' = Idle  BY <1>1, <1>3
  <2>4. \A k \in 1..Len(codeb) : codeb'[k] = codeb[k]  BY <1>3
  <2> QED  BY <1>1, <1>3, <2>2, <2>3, <2>4, OldOperands
<1> QED  BY <1>5, <1>6, <1>7, <1>8 DEF LInv

-----------------------------------------------------------------------------
(* The theorem *)

LEMMA LinkStart == ASSUME NEW u, WellFormed(u), LinkInit(u)  PROVE LInv(u)
<1>1. /\ ucode = u /\ line = 1 /\ codeb = <<>> /\ chain = Idle
      /\ labels = [l \in LabelsOf(u) |-> 0]
  BY DEF LinkInit
<1>2. Len(u) \in Nat /\ DOMAIN u = 1..Len(u) /\ Addr(u, 1) = 0  BY Lines, AddrStep
<1>3. Types(u)
  <2>1. codeb \in Seq(Cells(u)) /\ Len(codeb) = 0  BY <1>1
  <2>2. line \in 1..(Len(u) + 1)  BY <1>1, <1>2
  <2>3. labels \in [LabelsOf(u) -> Int] /\ chain \in Int  BY <1>1 DEF Idle
  <2> QED  BY <1>1, <1>2, <2>1, <2>2, <2>3 DEF Types
<1>4. Table(u)
  <2>1. \A i \in DOMAIN u : ~(i < 1)  BY <1>2
  <2>2. \A l : Pending(u, l, 1) = {} /\ Placed(u, l, 1) = {}
    BY <2>1 DEF Pending, Placed, Open
  <2>3. \A l \in LabelsOf(u) : labels[l] = 0  BY <1>1
  <2> QED  BY <1>1, <2>2, <2>3 DEF Table, ChainFrom
<1>5. Walking(u)  BY <1>1 DEF Walking
<1>6. Operands(u)  BY <1>1, <1>2 DEF Operands
<1> QED  BY <1>3, <1>4, <1>5, <1>6 DEF LInv

LEMMA LinkStep == ASSUME NEW u, WellFormed(u), LInv(u), [LinkNext]_linkVars  PROVE LInv(u)'
<1>1. CASE Lemit  BY <1>1, LemitStep
<1>2. CASE Lemitn  BY <1>2, LemitnStep
<1>3. CASE LinkVar  BY <1>3, LinkVarStep
<1>4. CASE LinkKeywd  BY <1>4, LinkKeywdStep
<1>5. CASE Lemitl  BY <1>5, LemitlStep
<1>6. CASE StartBackpatch  BY <1>6, StartBackpatchStep
<1>7. CASE Backpatch  BY <1>7, BackpatchStep
<1>8. CASE EndBackpatch  BY <1>8, EndBackpatchStep
<1>9. CASE LinkProc  BY <1>9, LinkProcStep
<1>10. CASE LinkDeclend  BY <1>10, LinkDeclendStep
<1>11. CASE LinkEnd  BY <1>11, LinkEndStep
<1>12. CASE UNCHANGED linkVars
  BY <1>12 DEF linkVars, LInv, Types, Table, Walking, Operands, Operand
<1> QED
  BY <1>1, <1>2, <1>3, <1>4, <1>5, <1>6, <1>7, <1>8, <1>9, <1>10, <1>11, <1>12 DEF LinkNext

LEMMA AllLinked == ASSUME NEW u, WellFormed(u), LInv(u), Gencoded  PROVE Linked
<1>1. Len(u) \in Nat /\ DOMAIN u = 1..Len(u) /\ ucode = u /\ line \in 1..(Len(u) + 1)
  BY Lines DEF LInv, Types
<1>2. SUFFICES ASSUME NEW i \in References
               PROVE  codeb[(AddressOf(i) + 1) + 1] =
                        Word(AddressOf(PlaceOf(i)) - ((AddressOf(i) + 1) + WordSize))
  BY DEF Linked
<1>3. i \in DOMAIN u /\ IsRef(u[i])  BY <1>1 DEF References, IsRef
<1>4. \A k : AddressOf(k) = Addr(u, k)  BY <1>1 DEF AddressOf, Addr
<1> DEFINE Place(j) == /\ ucode[j].op = "lab" /\ ucode[j].lab = ucode[i].lab
                       /\ ProcAt(j) = ProcAt(i)
           j == CHOOSE k \in DOMAIN ucode : Place(k)
<1>5. PlaceOf(i) = j  BY DEF PlaceOf
<1>6. \A k \in DOMAIN u : Place(k) <=> PlaceFor(u, i, k)
  <2>1. \A k \in DOMAIN u : ProcAt(k) = ProcAt(i) <=> InOne(u, k, i)
    BY <1>1, <1>3, ProcAtMeans
  <2>2. \A k : InOne(u, k, i) <=> InOne(u, i, k)  BY DEF InOne
  <2> QED  BY <1>1, <2>1, <2>2 DEF PlaceFor
<1>7. \E k \in DOMAIN ucode : Place(k)
  <2>1. PICK k : PlaceFor(u, i, k)  BY <1>3, OnePlace
  <2>2. k \in DOMAIN u  BY <2>1 DEF PlaceFor
  <2> QED  BY <1>1, <1>6, <2>1, <2>2
<1>8. j \in DOMAIN u /\ Place(j)
  <2> HIDE DEF Place
  <2> QED  BY <1>1, <1>7
<1>9. PlaceFor(u, i, j)
  <2> HIDE DEF Place, j
  <2> QED  BY <1>6, <1>8
<1> HIDE DEF j
<1>10. i < line /\ j < line  BY <1>1, <1>3, <1>8 DEF Gencoded
<1>11. Operand(u, i, j)  BY <1>3, <1>8, <1>9, <1>10 DEF LInv, Operands
<1>12. codeb[Addr(u, i) + 2] = Word(Addr(u, j) - (Addr(u, i) + 2))
  BY <1>10, <1>11 DEF Operand
<1>13. Addr(u, i) \in Nat  BY <1>3, RefAddr
<1>14. (Addr(u, i) + 1) + 1 = Addr(u, i) + 2 /\ (Addr(u, i) + 1) + WordSize = Addr(u, i) + 2
  BY <1>13 DEF WordSize
<1> QED  BY <1>4, <1>5, <1>12, <1>14

\* Whatever ucode the translator writes, once gencode() has read it the operand
\* of each reference is the distance to the place of its own label (lemitl(),
\* backpatch(), clearlab()), in any procedure, with chains of any length.
THEOREM LinkerRight ==
    ASSUME NEW u, WellFormed(u)
    PROVE  LinkInit(u) /\ [][LinkNext]_linkVars => LinkedRight
<1>1. LinkInit(u) => LInv(u)  BY LinkStart
<1>2. LInv(u) /\ [LinkNext]_linkVars => LInv(u)'  BY LinkStep
<1>3. LInv(u)' => (Gencoded' => Linked')
  <2>1. LInv(u) => (Gencoded => Linked)  BY AllLinked
  <2> QED  BY <2>1, PTL
<1>4. LInv(u)' => [~Gencoded /\ Gencoded' => Linked']_linkVars  BY <1>3
<1> QED  BY <1>1, <1>2, <1>4, PTL DEF LinkedRight
=============================================================================
