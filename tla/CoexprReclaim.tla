---------------------------- MODULE CoexprReclaim ----------------------------
(***************************************************************************)
(* Co-expressions, the threads that run them, and the collector that frees *)
(* the ones no longer needed: Ocreate() and activate() of runtime/lmisc.r, *)
(* pushact() and popact() of runtime/rmisc.r, co_chng() and coclean() of   *)
(* runtime/rcoexpr.r, spawn() of runtime/fmisc.r, and markthreads(), the   *)
(* part of markblock() for co-expressions and cofree() of                  *)
(* runtime/rmemmgt.r, with native context switches.                        *)
(*                                                                         *)
(* A spawned co-expression has an OS thread and a thread state, both named *)
(* after it here; those of the program are named Main.  The thread state   *)
(* says which co-expression the thread runs now.  The variables on the     *)
(* stack of a co-expression, the copies in its refresh block and the       *)
(* values in its boxes are one set of references, refs.  A collection is   *)
(* one step: all other threads are stopped (ThreadControl).                *)
(***************************************************************************)
EXTENDS Naturals, FiniteSets, Sequences, SequencesExt

CONSTANTS
    Coexprs,     \* co-expression blocks, allocated or not
    Main,        \* &main
    Activators,  \* the threads whose code activates co-expressions
    MaxActs,     \* bound of the activator stacks
    None

ASSUME CoexprAssumption ==
    /\ IsFiniteSet(Coexprs) /\ Main \in Coexprs
    /\ Activators \subseteq Coexprs
    /\ MaxActs \in Nat \ {0}
    /\ None \notin Coexprs

VARIABLES
    stklist,   \* the allocated co-expressions but &main, the newest first
    refs,      \* the co-expressions each one refers to
    act,       \* es_actstk, the activator stacks
    thread,    \* status Ts_Thread
    async,     \* status Ts_Async
    alive,     \* cp->alive: 0, 1, -8 while its thread ends, -1 after that
    cur,       \* curtstate->c of each thread state, None if there is none
    running,   \* the OS threads that execute
    result     \* where the value a thread returned has gone

blocks == <<stklist, refs, act>>
flags == <<thread, async, alive>>
vars == <<blocks, flags, cur, running, result>>

Init ==
    /\ stklist = <<>>
    /\ refs = [x \in Coexprs |-> {}]
    /\ act = [x \in Coexprs |-> IF x = Main THEN <<Main>> ELSE <<>>]
    /\ thread = {}
    /\ async = {Main}
    /\ alive = [x \in Coexprs |-> IF x = Main THEN 1 ELSE 0]
    /\ cur = [x \in Coexprs |-> IF x = Main THEN Main ELSE None]
    /\ running = {Main}
    /\ result = [x \in Coexprs |-> "none"]

Allocated == {Main} \cup ToSet(stklist)

\* A thread is given at most one co-expression as a value.
Values(S) == {{}} \cup {{v} : v \in S}

-----------------------------------------------------------------------------
(* Running code *)

\* Ocreate(): the refresh block copies the locals of the procedure.
Create(t, x) ==
    /\ t \in running
    /\ x \in Coexprs \ Allocated
    /\ stklist' = <<x>> \o stklist
    /\ \E locals \in SUBSET refs[cur[t]] :
         refs' = [refs EXCEPT ![cur[t]] = @ \cup {x}, ![x] = locals]
    /\ UNCHANGED <<act, flags, cur, running, result>>

\* A variable is assigned another value.
Forget(t, x) ==
    /\ t \in running
    /\ x \in refs[cur[t]]
    /\ refs' = [refs EXCEPT ![cur[t]] = @ \ {x}]
    /\ UNCHANGED <<stklist, act, flags, cur, running, result>>

\* A value goes to the inbox of a co-expression, or comes out of its outbox.
Message(t, p, v) ==
    /\ t \in running
    /\ p \in refs[cur[t]]
    /\ \/ v \in refs[cur[t]] /\ refs' = [refs EXCEPT ![p] = @ \cup {v}]
       \/ v \in refs[p] /\ refs' = [refs EXCEPT ![cur[t]] = @ \cup {v}]
    /\ UNCHANGED <<stklist, act, flags, cur, running, result>>

\* Mutant: a second activation by the same activator is not counted.
PushOnce(x, a) ==
    act' = [act EXCEPT ![x] = IF @ # <<>> /\ Last(@) = a THEN @ ELSE Append(@, a)]

\* pushact(): the activator goes on the stack of the activated co-expression.
\* A count stands for equal neighbours.
Push(x, a) == act' = [act EXCEPT ![x] = Append(@, a)]

\* Mutant: an activator that activated twice is not taken off.
PopCounted(x) ==
    LET s == act[x]
        twice == Len(s) > 1 /\ s[Len(s)] = s[Len(s) - 1]
    IN  act' = IF twice THEN act ELSE [act EXCEPT ![x] = Front(@)]

\* popact(): the last activator comes off the stack.
Pop(x) == act' = [act EXCEPT ![x] = Front(@)]

\* co_chng(): thread t leaves the co-expression c for n.  Ts_Async moves along.
Switch(t, c, n) ==
    /\ cur' = [cur EXCEPT ![t] = n]
    /\ async' = (async \cup {n}) \ {c}

\* activate() of a co-expression that is not an async thread (with one, values
\* go through the boxes: Message), and that no other thread runs.
Activate(t, x) ==
    LET c == cur[t]
    IN  /\ t \in running \cap Activators
        /\ x \in refs[c] \cup {Main, c}
        /\ x \notin thread \cap async
        /\ \A u \in running \ {t} : cur[u] # x
        /\ Len(act[x]) < MaxActs
        /\ Push(x, c)
        /\ Switch(t, c, x)
        /\ \E V \in Values(refs[c]) : refs' = [refs EXCEPT ![x] = @ \cup V]
        /\ UNCHANGED <<stklist, thread, alive, running, result>>

\* Op_Coret and Op_Cofail of a co-expression that is not a thread: popact() names
\* the co-expression to go back to.  &main does not return, it ends the program.
Return(t) ==
    LET c == cur[t]
        n == Last(act[c])
    IN  /\ t \in running
        /\ c \notin thread \cup {Main}
        /\ act[c] # <<>>
        /\ \A u \in running \ {t} : cur[u] # n
        /\ Pop(c)
        /\ Switch(t, c, n)
        /\ \E V \in Values(refs[c]) : refs' = [refs EXCEPT ![n] = @ \cup V]
        /\ UNCHANGED <<stklist, thread, alive, running, result>>

\* spawn() of a co-expression that was not activated: a thread, a thread state
\* and the spawning co-expression as first activator.
Spawn(t, x) ==
    /\ t \in running
    /\ x \in refs[cur[t]] \ thread
    /\ alive[x] = 0
    /\ act[x] = <<>>
    /\ thread' = thread \cup {x}
    /\ async' = async \cup {x}
    /\ alive' = [alive EXCEPT ![x] = 1]
    /\ cur' = [cur EXCEPT ![x] = x]
    /\ running' = running \cup {x}
    /\ Push(x, cur[t])
    /\ UNCHANGED <<stklist, refs, result>>

\* Op_Coret or Op_Cofail of a thread: a value goes to the outbox if the thread
\* and the activator popact() names are both async, else to the place where the
\* activator waits for a result; then coclean() ends the thread.
ThreadEnd(t) ==
    LET c == cur[t]
        n == Last(act[c])
    IN  /\ t \in running
        /\ c \in thread
        /\ act[c] # <<>>
        /\ Pop(c)
        /\ alive' = [alive EXCEPT ![c] = -1]
        /\ running' = running \ {t}
        /\ \/ result' = [result EXCEPT ![c] = IF {c, n} \subseteq async THEN "outbox" ELSE "activator"]
           \/ UNCHANGED result
        /\ UNCHANGED <<stklist, refs, thread, async, cur>>

-----------------------------------------------------------------------------
(* Garbage collection *)

\* Mutant: the stack of activators is not traversed.
PointsStackOnly(x) == refs[x]

\* What markblock() follows from a co-expression.
Points(x) == refs[x] \cup ToSet(act[x])

\* Mutant: only the root thread state is marked.
RootsNoThreads(t) == {Main, cur[t], cur[Main]}

\* The roots: &main, &current of the collecting thread, and by markthreads()
\* &current of roottstate and of every thread state that runs a thread.
Roots(t) == {Main, cur[t], cur[Main]} \cup {cur[p] : p \in {q \in Coexprs : cur[q] \in thread}}

Marked(t) ==
    LET reach[i \in 0..Cardinality(Coexprs)] ==
            IF i = 0 THEN Roots(t)
            ELSE LET before == reach[i - 1] IN before \cup UNION {Points(x) : x \in before}
    IN reach[Cardinality(Coexprs)]

\* cofree() takes the co-expressions of S out of the list s.
Without(s, S) ==
    LET left[i \in 0..Len(s)] ==
            IF i = 0 THEN <<>>
            ELSE IF s[i] \in S THEN left[i - 1] ELSE Append(left[i - 1], s[i])
    IN left[Len(s)]

\* collect(): cofree() takes what is not marked off the list, the newest first,
\* and frees it.  When coclean() finds the thread of one alive, it gives the heap
\* of that thread up and then locks MTX_NARTHREADS to take the thread out of the
\* count.  The collector holds that mutex (CleanLive of ThreadControl): it never
\* gives control back, and all threads stay stopped.
Collect(t) ==
    LET marked == Marked(t)
        garbage == {i \in DOMAIN stklist : stklist[i] \notin marked}
        live == {i \in garbage : stklist[i] \in thread /\ alive[stklist[i]] = 1}
        freed == {stklist[i] : i \in {j \in garbage : \A k \in live : j < k}}
        caught == {stklist[i] : i \in {j \in live : \A k \in live : j <= k}}
    IN  /\ t \in running
        /\ stklist' = Without(stklist, freed \cup caught)
        /\ refs' = [x \in Coexprs |-> IF x \in freed THEN {} ELSE refs[x]]
        /\ act' = [x \in Coexprs |-> IF x \in freed THEN <<>> ELSE act[x]]
        /\ thread' = thread \ freed
        /\ async' = async \ freed
        /\ alive' = [x \in Coexprs |-> IF x \in freed THEN 0
                                       ELSE IF x \in caught THEN -8 ELSE alive[x]]
        /\ result' = [x \in Coexprs |-> IF x \in freed THEN "none" ELSE result[x]]
        /\ cur' = [x \in Coexprs |-> IF x \in freed THEN None ELSE cur[x]]
        /\ running' = IF live = {} THEN running ELSE {}

-----------------------------------------------------------------------------

Next == \E t \in Coexprs :
    \/ Return(t) \/ ThreadEnd(t) \/ Collect(t)
    \/ \E x \in Coexprs :
         \/ Create(t, x) \/ Forget(t, x) \/ Activate(t, x) \/ Spawn(t, x)
         \/ \E v \in Coexprs : Message(t, x, v)

Spec == Init /\ [][Next]_vars

-----------------------------------------------------------------------------
(* Properties *)

\* Every variable has its type.
TypeOK ==
    /\ stklist \in Seq(Coexprs \ {Main})
    /\ refs \in [Coexprs -> SUBSET Coexprs]
    /\ act \in [Coexprs -> Seq(Coexprs)]
    /\ thread \subseteq Coexprs
    /\ async \subseteq Coexprs
    /\ alive \in [Coexprs -> {-8, -1, 0, 1}]
    /\ cur \in [Coexprs -> Coexprs \cup {None}]
    /\ running \subseteq Coexprs
    /\ result \in [Coexprs -> {"none", "outbox", "activator"}]

\* The first entry of the stack of &main and of a thread is there from the start.
Base(x) == IF x = Main \/ (x \in thread /\ alive[x] = 1) THEN 1 ELSE 0

\* The entries, of all stacks, in which x waits for what it activated.
Waits(x) ==
    {e \in Coexprs \X (1..MaxActs) :
       e[2] > Base(e[1]) /\ e[2] <= Len(act[e[1]]) /\ act[e[1]][e[2]] = x}

\* Every variable has its type, and the stacks together are the way from &main to
\* the co-expression that runs: each co-expression was activated as often as it
\* waits for another, but the last one once more and &main once less.
ReclaimInv ==
    /\ TypeOK
    /\ \A x \in Coexprs :
         Len(act[x]) - Base(x) + (IF x = Main THEN 1 ELSE 0)
           = Cardinality(Waits(x)) + (IF x = cur[Main] THEN 1 ELSE 0)

\* popact() finds an activator: in whatever order co-expressions activate each
\* other, themselves and &main and return, the one that runs has somebody to go
\* back to.
ActivatorReady ==
    \A t \in running : cur[t] # t => act[cur[t]] # <<>>

\* What runs, what is referred to by something allocated and what waits as an
\* activator is allocated: a collection frees nothing that is still needed.
NoDangling ==
    /\ \A t \in running : cur[t] \in Allocated
    /\ \A x \in Allocated : Points(x) \subseteq Allocated

\* "Mark all the threads, because hey, they are live even if we don't reach
\* them": no collection takes a co-expression whose thread is alive for garbage,
\* and none leaves the collecting thread blocked on its own mutex.
ThreadsKept ==
    /\ \A p \in Coexprs : p \in thread /\ alive[p] = 1 => p \in Allocated /\ p \in running
    /\ Main \in running

\* "The CE thread is genereating a new value, it should go into the outbox."
\* TLC refutes it: README, section 6.
ResultInOutbox == \A p \in Coexprs : result[p] # "activator"

=============================================================================
