------------------------------ MODULE Collector ------------------------------
(***************************************************************************)
(* collect() of runtime/rmemmgt.r on one string region and several block   *)
(* regions, of which the current one is compacted.  Marking threads every  *)
(* location that refers to a block of the current region into a chain that *)
(* starts in the title of the block and ends with the title's value;       *)
(* adjust() runs along the chains and puts the address the block will have *)
(* there; compact() moves the blocks down.  Strings are compacted before,  *)
(* by a sorted list of the locations that refer to them.                   *)
(*                                                                         *)
(* A word is a title, null, a reference to a block or a qualifier; a       *)
(* descriptor is one word, its first half being implied by what the second *)
(* half held before the collection.  A block is a title, contents without  *)
(* references, and fields, first pointers and then descriptors.  Words     *)
(* that the program cannot reach, but for the titles of blocks, are null:  *)
(* the collector never reads them.                                         *)
(***************************************************************************)
EXTENDS Integers, SequencesExt

CONSTANTS
    Roots,      \* locations outside the regions
    Types,      \* block types
    Size,       \* the words of a block of each type (bsizes)
    Ptrs,       \* the number of pointer fields of each type (ptrno)
    Descs,      \* and of descriptor fields
    Chars,
    Regions,    \* block regions
    RegionBase, RegionEnd, \* their first words and the words after their last
    StrEnd,     \* length of the string region
    QualSize,   \* length of the qualifier list at the start
    IntMax      \* the largest int

ASSUME CollectorAssumption ==
    /\ IsFiniteSet(Roots) /\ Roots # {} /\ IsFiniteSet(Regions)
    /\ \A p \in Regions : /\ Roots \cap (RegionBase[p] .. RegionEnd[p] - 1) = {}
                         /\ RegionBase[p] <= RegionEnd[p]
    /\ Ptrs \in [Types -> Nat] /\ Descs \in [Types -> Nat]
    /\ Size \in [Types -> Nat] /\ \A t \in Types : Size[t] > Ptrs[t] + Descs[t]
    /\ RegionBase \in [Regions -> Nat] /\ RegionEnd \in [Regions -> Nat]
    /\ \A p, q \in Regions : p # q =>
         RegionEnd[p] <= RegionBase[q] \/ RegionEnd[q] <= RegionBase[p]
    /\ StrEnd \in Nat /\ QualSize \in Nat /\ IntMax \in Nat

VARIABLES
    mem,        \* the words of the roots and the block regions
    free,       \* the free pointer of each block region
    curblock,   \* the current block region
    str,        \* the characters of the string region up to strfree
    last        \* whether the last step was of the program, or a collection that
                \* could list "all" or only "some" of the qualifiers

vars == <<mem, free, curblock, str, last>>

Nil == <<"nil">>
Title(t) == <<"title", t>>
Marked(t) == <<"marked", t>>
Ref(a) == <<"ref", a>>
Str(loc, len) == <<"str", loc, len>>
Is(w, k) == w[1] = k

BlkSize(t) == Size[t]
Fields(t) == Ptrs[t] + Descs[t]

\* The locations of the fields of a block of type t at a, in the order in
\* which they are marked.
FieldsAt(a, t) == [i \in 1 .. Fields(t) |-> a + BlkSize(t) - Fields(t) + i - 1]

\* The words of the block at a in the memory m.
BlockAt(m, a) == a .. a + BlkSize(m[a][2]) - 1

InRegion(p, a) == RegionBase[p] <= a /\ a < free[p]

Words == UNION {RegionBase[p] .. RegionEnd[p] - 1 : p \in Regions}
-----------------------------------------------------------------------------
(* Marking.  s holds the memory, the qualifiers listed so far and the       *)
(* locations that the calls of markblock() and markptr() under way have     *)
(* still to visit, in their order.                                          *)

MarkState(m, quals, qualfail, todo) ==
    [mem |-> m, quals |-> quals, qualfail |-> qualfail, todo |-> todo]

\* Mutant of postqual: that the list is full is not recorded.
postqualSilent(s, loc, ok) ==
    IF ok \/ Cardinality(s.quals) < QualSize
    THEN MarkState(s.mem, s.quals \cup {loc}, s.qualfail, s.todo)
    ELSE s

\* ok: the list can be made longer when it is full.
postqual(s, loc, ok) ==
    IF ok \/ Cardinality(s.quals) < QualSize
    THEN MarkState(s.mem, s.quals \cup {loc}, s.qualfail, s.todo)
    ELSE MarkState(s.mem, s.quals, TRUE, s.todo)

\* The first location is visited; a block that was not marked adds its fields.
Mark(s, ok) ==
    LET loc == Head(s.todo)
        a == s.mem[loc][2]
        title == s.mem[a]
        new == IF Is(title, "title") THEN FieldsAt(a, title[2]) ELSE <<>>
        next(m, fields) == MarkState(m, s.quals, s.qualfail, fields \o Tail(s.todo))
    IN  CASE Is(s.mem[loc], "str") -> postqual(next(s.mem, <<>>), loc, ok)
          [] Is(s.mem[loc], "ref") /\ InRegion(curblock, a) ->
               next([s.mem EXCEPT ![loc] = title, ![a] = Ref(loc)], new)
          [] Is(s.mem[loc], "ref") /\ ~ InRegion(curblock, a) /\ Is(title, "title") ->
               next([s.mem EXCEPT ![a] = Marked(title[2])], new)
          [] OTHER -> next(s.mem, <<>>)

MarkRoots(ok) ==
    LET marking[n \in 0 .. Cardinality(DOMAIN mem)] ==
            IF n = 0 THEN MarkState(mem, {}, FALSE, SetToSeq(Roots))
            ELSE LET s == marking[n - 1] IN IF s.todo = <<>> THEN s ELSE Mark(s, ok)
    IN  marking[Cardinality(DOMAIN mem)]
-----------------------------------------------------------------------------
(* Reclaiming. *)

\* The difference of two locations is cast to an int.
qlcmp(x, y) == LET half == IntMax + 1 IN ((x - y + half) % (2 * half)) - half

Sorted(m, quals) ==
    CHOOSE c \in [1 .. Cardinality(quals) -> quals] :
      /\ quals = {c[i] : i \in DOMAIN c}
      /\ \A i, j \in DOMAIN c : i < j => qlcmp(m[c[i]][2], m[c[j]][2]) <= 0

\* The text of the strings that have been moved and of the clump that has not.
Clumped(s) == s.str \o SubSeq(str, s.source, s.cend - 1)

MoveState(m, text, source, cend) ==
    [mem |-> m, str |-> text, source |-> source, cend |-> cend]

\* The clump is moved when the next string does not touch it.
Flush(s, loc) ==
    IF loc > s.cend THEN MoveState(s.mem, Clumped(s), loc, loc) ELSE s

\* The string at q is added to the clump.
Extend(s, q) ==
    LET loc == s.mem[q][2]
        len == s.mem[q][3]
    IN  MoveState([s.mem EXCEPT ![q] = Str(loc - s.source + Len(s.str) + 1, len)],
                  s.str, s.source, IF loc + len > s.cend THEN loc + len ELSE s.cend)

MoveString(s, q) == Extend(Flush(s, s.mem[q][2]), q)

\* The strings that the qualifiers at the locations quals refer to are moved
\* down in clumps, and the qualifiers with them.
scollect(m, quals) ==
    LET sorted == Sorted(m, quals)
        start == m[sorted[1]][2]
        moved[i \in 0 .. Cardinality(quals)] ==
            IF i = 0 THEN MoveState(m, <<>>, start, start)
            ELSE MoveString(moved[i - 1], sorted[i])
        end == moved[Cardinality(quals)]
    IN  IF quals = {} THEN [mem |-> m, str |-> <<>>]
        ELSE [mem |-> end.mem, str |-> Clumped(end)]

LinkState(m, w) == [mem |-> m, word |-> w]

\* Every location of the chain w gets the address dest.
Unlink(u, dest) ==
    IF ~ Is(u.word, "ref") THEN u
    ELSE LinkState([u.mem EXCEPT ![u.word[2]] = Ref(dest)], u.mem[u.word[2]])

Unchain(m, w, dest) ==
    LET link[n \in 0 .. Cardinality(DOMAIN m)] ==
            IF n = 0 THEN LinkState(m, w) ELSE Unlink(link[n - 1], dest)
    IN  link[Cardinality(DOMAIN m)]

InUse(p) == free[p] - RegionBase[p]

\* One block of the walks through the current region.
WalkState(m, source, dest) == [mem |-> m, source |-> source, dest |-> dest]

AdjustBlock(s) ==
    LET u == Unchain(s.mem, s.mem[s.source], s.dest)
        n == BlkSize(u.word[2])
    IN  IF s.source >= free[curblock] THEN s
        ELSE IF ~ Is(s.mem[s.source], "ref") THEN WalkState(s.mem, s.source + n, s.dest)
        ELSE WalkState([u.mem EXCEPT ![s.source] = Marked(u.word[2])], s.source + n, s.dest + n)

adjust(m) ==
    LET walk[n \in 0 .. InUse(curblock)] ==
            IF n = 0 THEN WalkState(m, RegionBase[curblock], RegionBase[curblock])
            ELSE AdjustBlock(walk[n - 1])
    IN  walk[InUse(curblock)].mem

mvc(m, n, source, dest) ==
    [a \in DOMAIN m |-> IF a \in dest .. dest + n - 1 THEN m[a - dest + source] ELSE m[a]]

CompactBlock(s) ==
    LET t == s.mem[s.source][2]
        n == BlkSize(t)
    IN  IF s.source >= free[curblock] THEN s
        ELSE IF ~ Is(s.mem[s.source], "marked") THEN WalkState(s.mem, s.source + n, s.dest)
        ELSE WalkState(mvc([s.mem EXCEPT ![s.source] = Title(t)], n, s.source, s.dest),
                       s.source + n, s.dest + n)

compact(m) ==
    LET walk[n \in 0 .. InUse(curblock)] ==
            IF n = 0 THEN WalkState(m, RegionBase[curblock], RegionBase[curblock])
            ELSE CompactBlock(walk[n - 1])
    IN  walk[InUse(curblock)]

\* Mutant of reclaim: blkfree keeps its value.
reclaimHigh(s) ==
    LET c == IF s.qualfail THEN [mem |-> s.mem, str |-> str] ELSE scollect(s.mem, s.quals)
        b == compact(adjust(c.mem))
    IN  [mem |-> b.mem, free |-> free[curblock], str |-> c.str]

reclaim(s) ==
    LET c == IF s.qualfail THEN [mem |-> s.mem, str |-> str] ELSE scollect(s.mem, s.quals)
        b == compact(adjust(c.mem))
    IN  [mem |-> b.mem, free |-> b.dest, str |-> c.str]

\* Mutant of Unmark: the other regions are forgotten.
UnmarkNone(m) == m

\* The marks of blocks in other regions are turned off.
Unmark(m) ==
    [a \in DOMAIN m |-> IF a \in Words /\ Is(m[a], "marked") THEN Title(m[a][2]) ELSE m[a]]

\* The locations of the variables and of the fields of the blocks at B in m.
Slots(m, B) == Roots \cup UNION {ToSet(FieldsAt(a, m[a][2])) : a \in B}

\* The addresses of the blocks they refer to.
Targets(m, L) == {m[l][2] : l \in {k \in L : Is(m[k], "ref")}}

Titles(m) == {a \in Words : Is(m[a], "title")}

\* The addresses of the blocks that the variables lead to in m.
Reach(m) ==
    LET round[n \in 0 .. Cardinality(Titles(m))] ==
            IF n = 0 THEN {}
            ELSE LET B == round[n - 1] IN B \cup Targets(m, Slots(m, B))
    IN  round[Cardinality(Titles(m))]

\* m with null for what cannot be reached, where fr are the free pointers.
Forget(m, fr) ==
    LET kept == Roots \cup UNION {BlockAt(m, a) : a \in Reach(m)}
        titles == {a \in Titles(m) : \E p \in Regions : RegionBase[p] <= a /\ a < fr[p]}
    IN  [l \in DOMAIN m |-> IF l \in kept \cup titles THEN m[l] ELSE Nil]

Collect(ok) ==
    LET s == MarkRoots(ok)
        b == reclaim(s)
    IN
    /\ free' = [free EXCEPT ![curblock] = b.free]
    /\ mem' = Forget(Unmark(b.mem), free')
    /\ str' = b.str
    /\ last' = IF s.qualfail THEN "some" ELSE "all"
    /\ UNCHANGED curblock
-----------------------------------------------------------------------------
(* The program, between collections. *)

Init ==
    /\ mem = [a \in Roots \cup Words |-> Nil]
    /\ free = RegionBase
    /\ curblock \in Regions
    /\ str = <<>>
    /\ last = "program"

\* The blocks the program can reach.
Reachable == Reach(mem)

Put(m) == mem' = Forget(m, free') /\ last' = "program"

\* AlcBlk() and the filling in of a new block, whose address goes to r.
New(r, t) ==
    LET a == free[curblock]
    IN
    /\ a + BlkSize(t) <= RegionEnd[curblock]
    /\ free' = [free EXCEPT ![curblock] = a + BlkSize(t)]
    /\ UNCHANGED <<curblock, str>>
    /\ Put([w \in DOMAIN mem |-> IF w = r THEN Ref(a)
                                  ELSE IF w = a THEN Title(t) ELSE mem[w]])

\* alcstr() of one character, which is none of those in the string region so
\* that text that was moved wrongly differs from what it should be.
NewString(r, c) ==
    /\ Len(str) < StrEnd /\ c \notin ToSet(str)
    /\ str' = Append(str, c)
    /\ UNCHANGED <<free, curblock>>
    /\ Put([mem EXCEPT ![r] = Str(Len(str) + 1, 1)])

\* sect(): the section may be empty, and then lie behind the last character.
Substring(r, q, i, n) ==
    /\ Is(mem[q], "str") /\ i + n <= mem[q][3]
    /\ UNCHANGED <<free, curblock, str>>
    /\ Put([mem EXCEPT ![r] = Str(mem[q][2] + i, n)])

Assign(r, w) ==
    /\ UNCHANGED <<free, curblock, str>>
    /\ Put([mem EXCEPT ![r] = w])

\* A field of the block that r refers to is read or assigned.
Fetch(r, q) ==
    /\ Is(mem[q], "ref")
    /\ \E l \in ToSet(FieldsAt(mem[q][2], mem[mem[q][2]][2])) : Assign(r, mem[l])

Store(r, q) ==
    /\ Is(mem[r], "ref")
    /\ LET a == mem[r][2]
           t == mem[a][2]
       IN  \E i \in 1 .. Fields(t) :
             /\ i <= Ptrs[t] => ~ Is(mem[q], "str")
             /\ Assign(FieldsAt(a, t)[i], mem[q])

\* reserve() makes another region the current one.
UseRegion(p) ==
    /\ p # curblock
    /\ curblock' = p /\ last' = "program"
    /\ UNCHANGED <<mem, free, str>>

Program ==
    \/ \E r \in Roots :
         \/ \E t \in Types : New(r, t)
         \/ \E c \in Chars : NewString(r, c)
         \/ \E q \in Roots :
              \/ \E i, n \in 0..StrEnd : Substring(r, q, i, n)
              \/ Assign(r, mem[q])
              \/ Fetch(r, q)
              \/ Store(r, q)
         \/ Assign(r, Nil)
    \/ \E p \in Regions : UseRegion(p)

Next == Program \/ \E ok \in BOOLEAN : Collect(ok)

Spec == Init /\ [][Next]_vars
-----------------------------------------------------------------------------
(* Properties *)

\* The locations of the variables and of the fields of reachable blocks.
Live == Slots(mem, Reachable)

\* The addresses at which a walk through region p by block sizes stops.
Walk(p) ==
    LET next(a) ==
            IF a >= free[p] \/ ~ Is(mem[a], "title") THEN a ELSE a + BlkSize(mem[a][2])
        stop[n \in 0 .. InUse(p)] == IF n = 0 THEN RegionBase[p] ELSE next(stop[n - 1])
    IN  {stop[n] : n \in 0 .. InUse(p)}

BlocksOf(p) == Walk(p) \ {free[p]}

\* Every region can be walked from its base to its free pointer, no mark and
\* no chain is left in a title, and what the program can reach refers to the
\* starts of blocks and to text below strfree.
HeapSound ==
    /\ \A p \in Regions :
         /\ free[p] \in Walk(p)
         /\ \A a \in BlocksOf(p) : Is(mem[a], "title")
    /\ \A l \in Live :
         /\ Is(mem[l], "ref") => \E p \in Regions : mem[l][2] \in BlocksOf(p)
         /\ Is(mem[l], "str") => mem[l][2] >= 1 /\ mem[l][2] + mem[l][3] <= Len(str) + 1

\* A collection that could list all qualifiers leaves no block in the current
\* region that the program cannot reach and no character that no string has.
GarbageFreed ==
    last = "all" =>
      /\ BlocksOf(curblock) \subseteq Reachable
      /\ \A i \in 1 .. Len(str) : \E l \in Live :
           Is(mem[l], "str") /\ mem[l][2] <= i /\ i < mem[l][2] + mem[l][3]

\* Where the block at a is after a collection of which the blocks at live are
\* the survivors: those of the current region slide down in their order.
Moved(live, a) ==
    LET base == RegionBase[curblock]
        slid[n \in 0 .. InUse(curblock)] ==
            IF n = 0 THEN base
            ELSE slid[n - 1] + IF base + n - 1 \in live THEN BlkSize(mem[base + n - 1][2]) ELSE 0
    IN  IF InRegion(curblock, a) THEN slid[a - base] ELSE a

Text(m, s, l) == SubSeq(s, m[l][2], m[l][2] + m[l][3] - 1)

\* What the program sees at l is at k after the step.
SameWord(live, l, k) ==
    CASE Is(mem[l], "ref") -> mem'[k] = Ref(Moved(live, mem[l][2]))
      [] Is(mem[l], "str") -> /\ Is(mem'[k], "str")
                              /\ mem'[k][2] >= 1 /\ mem'[k][2] + mem'[k][3] <= Len(str') + 1
                              /\ Text(mem', str', k) = Text(mem, str, l)
      [] OTHER -> mem'[k] = mem[l]

\* Blocks that move, strings that move and locations that hold parts of chains
\* make no difference to the program: after a collection every variable and
\* every field of every block that it can reach has the value it had, with the
\* same text if that is a string and the moved block if it is a reference.
Unnoticed == [][
    last' # "program" =>
      \A live \in {Reachable} :
        /\ \A r \in Roots : SameWord(live, r, r)
        /\ \A a \in live :
             /\ mem'[Moved(live, a)] = mem[a]
             /\ \A i \in 1 .. Fields(mem[a][2]) :
                  SameWord(live, FieldsAt(a, mem[a][2])[i],
                           FieldsAt(Moved(live, a), mem[a][2])[i]) ]_vars
=============================================================================
