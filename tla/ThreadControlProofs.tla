------------------------ MODULE ThreadControlProofs ------------------------
(***************************************************************************)
(* Proofs about ThreadControl, for every finite set of threads: IInv is an *)
(* inductive invariant, and it implies that a thread in control is alone.  *)
(***************************************************************************)
EXTENDS ThreadControl, FiniteSetTheorems, TLAPS

Bit(l, L) == IF l \in L THEN 1 ELSE 0

\* Thread t alone may be at different labels in f and in g.
Moved(f, g, t) == \A u \in Threads \ {t} : g[u] = f[u]

-----------------------------------------------------------------------------
(* Counting threads *)

\* How the number of threads at the labels L changes when only thread t moves.
LEMMA CountMove ==
    ASSUME NEW f, NEW g, NEW t \in Threads, NEW L, Moved(f, g, t)
    PROVE  /\ CountAt(f, L) \in Nat
           /\ CountAt(g, L) = CountAt(f, L) + Bit(g[t], L) - Bit(f[t], L)
<1> DEFINE S == {u \in Threads : f[u] \in L}
           T == {u \in Threads : g[u] \in L}
<1>1. IsFiniteSet(S) /\ Cardinality(S) \in Nat
  BY ThreadsAssumption, FS_Subset, FS_CardinalityType
<1> USE DEF Moved
<1>2. CountAt(f, L) = Cardinality(S) /\ CountAt(g, L) = Cardinality(T)
  BY DEF CountAt
<1>3. CASE g[t] \in L <=> f[t] \in L
  <2>1. \A u \in Threads : g[u] \in L <=> f[u] \in L  BY <1>3
  <2>2. T = S  BY <2>1
  <2>3. Bit(g[t], L) = Bit(f[t], L) /\ Bit(f[t], L) \in Int  BY <1>3 DEF Bit
  <2>4. CountAt(g, L) = CountAt(f, L) /\ CountAt(f, L) \in Nat  BY <1>1, <1>2, <2>2
  <2> HIDE DEF S, T
  <2> QED  BY <2>3, <2>4
<1>4. CASE g[t] \in L /\ f[t] \notin L
  <2>1. T = S \cup {t} /\ t \notin S  BY <1>4
  <2>2. Cardinality(T) = Cardinality(S) + 1  BY <1>1, <2>1, FS_AddElement
  <2> QED  BY <1>1, <1>2, <1>4, <2>2 DEF Bit
<1>5. CASE g[t] \notin L /\ f[t] \in L
  <2>1. T = S \ {t} /\ t \in S  BY <1>5
  <2>2. Cardinality(T) = Cardinality(S) - 1  BY <1>1, <2>1, FS_RemoveElement
  <2> QED  BY <1>1, <1>2, <1>5, <2>2 DEF Bit
<1> QED  BY <1>3, <1>4, <1>5

\* The same for a step that moves two threads, t and u.
LEMMA CountTwo ==
    ASSUME NEW f, NEW g, NEW t \in Threads, NEW u \in Threads, t # u, NEW L,
           \A v \in Threads \ {t, u} : g[v] = f[v]
    PROVE  /\ CountAt(f, L) \in Nat
           /\ CountAt(g, L) = CountAt(f, L) + (Bit(g[t], L) - Bit(f[t], L))
                                            + (Bit(g[u], L) - Bit(f[u], L))
<1> DEFINE k == [v \in Threads |-> IF v = t THEN g[t] ELSE f[v]]
<1>1. \E h : h[t] = g[t] /\ h[u] = f[u] /\ \A v \in Threads \ {t, u} : h[v] = f[v]
  <2>1. k[t] = g[t] /\ k[u] = f[u] /\ \A v \in Threads \ {t, u} : k[v] = f[v]  OBVIOUS
  <2> QED  BY <2>1
<1>2. PICK h : h[t] = g[t] /\ h[u] = f[u] /\ \A v \in Threads \ {t, u} : h[v] = f[v]
  BY <1>1
<1>3. Moved(f, h, t)  BY <1>2 DEF Moved
<1>4. Moved(h, g, u)  BY <1>2 DEF Moved
<1>5. /\ CountAt(f, L) \in Nat
      /\ CountAt(h, L) = CountAt(f, L) + Bit(h[t], L) - Bit(f[t], L)
  BY <1>3, CountMove
<1>6. CountAt(g, L) = CountAt(h, L) + Bit(g[u], L) - Bit(h[u], L)
  BY <1>4, CountMove
<1>7. /\ Bit(g[t], L) \in Int /\ Bit(f[t], L) \in Int
      /\ Bit(g[u], L) \in Int /\ Bit(f[u], L) \in Int
  BY DEF Bit
<1> QED  BY <1>2, <1>5, <1>6, <1>7

\* Nothing changes when no thread enters or leaves the labels L.
LEMMA CountSame ==
    ASSUME NEW f, NEW g, NEW L, \A u \in Threads : g[u] \in L <=> f[u] \in L
    PROVE  CountAt(g, L) = CountAt(f, L)
<1>1. {u \in Threads : g[u] \in L} = {u \in Threads : f[u] \in L}  OBVIOUS
<1> QED  BY <1>1 DEF CountAt

\* A count is a natural number; it is zero iff no thread is at the labels L.
LEMMA CountZero ==
    ASSUME NEW f, NEW L
    PROVE  /\ CountAt(f, L) \in Nat
           /\ CountAt(f, L) = 0 <=> \A u \in Threads : f[u] \notin L
<1> DEFINE S == {u \in Threads : f[u] \in L}
<1>1. IsFiniteSet(S) /\ Cardinality(S) \in Nat
  BY ThreadsAssumption, FS_Subset, FS_CardinalityType
<1>2. Cardinality(S) = 0 <=> S = {}  BY <1>1, FS_EmptySet
<1>3. S = {} <=> \A u \in Threads : f[u] \notin L  OBVIOUS
<1>4. CountAt(f, L) = Cardinality(S)  BY DEF CountAt
<1> HIDE DEF S
<1> QED  BY <1>1, <1>2, <1>3, <1>4

\* Both counters stay exact when one thread moves and they follow its move.
LEMMA Counts ==
    ASSUME IInv, NEW t \in Threads,
           Moved(pc, pc', t),
           NARthreads' = NARthreads + (Bit(pc'[t], TallyLabels) - Bit(pc[t], TallyLabels))
                                    - (Bit(pc'[t], OwingLabels) - Bit(pc[t], OwingLabels)),
           tc_queue' = tc_queue + (Bit(pc'[t], QueuedLabels) - Bit(pc[t], QueuedLabels))
    PROVE  NARthreadsExact' /\ QueueExact'
<1>1. \A L : /\ CountAt(pc, L) \in Nat
             /\ CountAt(pc', L) = CountAt(pc, L) + Bit(pc'[t], L) - Bit(pc[t], L)
  BY CountMove
<1>2. \A l, L : Bit(l, L) \in Int  BY DEF Bit
<1>3. NARthreads = CountAt(pc, TallyLabels) - CountAt(pc, OwingLabels)
      /\ tc_queue = CountAt(pc, QueuedLabels)
  BY DEF IInv, NARthreadsExact, QueueExact
<1>4. NARthreads' = CountAt(pc', TallyLabels) - CountAt(pc', OwingLabels)
  BY <1>1, <1>2, <1>3
<1>5. tc_queue' = CountAt(pc', QueuedLabels)
  BY <1>1, <1>2, <1>3
<1> QED  BY <1>4, <1>5 DEF NARthreadsExact, QueueExact

-----------------------------------------------------------------------------
(* What the inductive invariant implies *)

\* While a thread is in control nobody is counted, and it alone is in control.
LEMMA Alone ==
    ASSUME IInv, NEW t \in Threads, pc[t] \in ControlLabels
    PROVE  \A u \in Threads : /\ pc[u] \notin TallyLabels
                              /\ u # t => pc[u] \notin ControlLabels
<1>1. mtx["NARTHREADS"] = t /\ mtx["THREADCONTROL"] = t
  BY DEF IInv, MutexInv
<1>2. \A u \in Threads \ {t} : pc[u] \notin ControlLabels \cup OwingLabels
  BY <1>1 DEF IInv, MutexInv, OwingLabels
<1>3. pc[t] \notin OwingLabels  BY DEF ControlLabels, OwingLabels
<1>4. CountAt(pc, OwingLabels) = 0  BY <1>2, <1>3, CountZero
<1>5. NARthreads <= 0  BY <1>1, ThreadsAssumption DEF IInv, CountInv
<1>6. CountAt(pc, TallyLabels) = 0
  <2>1. NARthreads = CountAt(pc, TallyLabels)  BY <1>4, CountZero DEF IInv, NARthreadsExact
  <2>2. CountAt(pc, TallyLabels) \in Nat  BY CountZero
  <2> QED  BY <1>5, <2>1, <2>2
<1> QED  BY <1>2, <1>6, CountZero

-----------------------------------------------------------------------------
(* Every step preserves the inductive invariant *)

\* The state init_main() leaves satisfies the inductive invariant.
LEMMA InitIInv ==
    ASSUME Init
    PROVE  IInv
<1> USE DEF Init, Labels, CountedLabels, BlockedLabels, ControlLabels
<1>1. TypeOK
  <2>1. pc \in [Threads -> Labels]  OBVIOUS
  <2>2. mtx \in [Mutexes -> Threads \cup {NoThread}]  OBVIOUS
  <2>3. NARthreads \in Int /\ tc_queue \in Int /\ sem_tc \in Int  OBVIOUS
  <2>4. /\ action_in_progress \in {"TC_NONE", "TC_KILLALLTHREADS"}
        /\ master_thread \in Threads \cup {NoThread}
    OBVIOUS
  <2>5. thread_call \in BOOLEAN  BY Zenon
  <2> QED  BY <2>1, <2>2, <2>3, <2>4, <2>5 DEF TypeOK
<1>2. MutexInv  BY ThreadsAssumption DEF MutexInv, Mutexes
<1>3. CountInv  BY DEF CountInv, Mutexes
<1>4. MasterInv /\ CallInv  BY ThreadsAssumption DEF MasterInv, CallInv
<1>5. QueueExact
  <2>1. \A u \in Threads : pc[u] \notin QueuedLabels  BY DEF QueuedLabels
  <2> QED  BY <2>1, CountZero DEF QueueExact
<1>6. NARthreadsExact
  <2>1. {u \in Threads : pc[u] \in TallyLabels} = {Main}
    BY ThreadsAssumption DEF TallyLabels
  <2>2. CountAt(pc, TallyLabels) = 1  BY <2>1, FS_Singleton DEF CountAt
  <2>3. \A u \in Threads : pc[u] \notin OwingLabels  BY DEF OwingLabels
  <2>4. CountAt(pc, OwingLabels) = 0  BY <2>3, CountZero
  <2> QED  BY <2>2, <2>4 DEF NARthreadsExact
<1> QED  BY <1>1, <1>2, <1>3, <1>4, <1>5, <1>6 DEF IInv

\* Leaving and joining the count, and controlled locks.
LEMMA AccountingInv ==
    ASSUME IInv, NEW t \in Threads, Accounting(t)
    PROVE  IInv'
<1> USE ThreadsAssumption
<1> USE DEF Goto, Free, Acquire, Release, request, queue, Mutexes,
           Labels, CountedLabels, BlockedLabels, ControlLabels, HandLabels
<1>0. TypeOK /\ MutexInv /\ CountInv /\ CallInv /\ MasterInv  BY DEF IInv
<1>1. ASSUME DecNARthreads(t)  PROVE IInv'
  <2>1. TypeOK'  BY <1>0, <1>1 DEF TypeOK, DecNARthreads
  <2>2. MutexInv'  BY <1>0, <1>1 DEF TypeOK, MutexInv, DecNARthreads
  <2>3. CountInv'  BY <1>0, <1>1 DEF TypeOK, MutexInv, CountInv, DecNARthreads
  <2>4. MasterInv' /\ CallInv'
    BY <1>0, <1>1 DEF TypeOK, MutexInv, MasterInv, CallInv, DecNARthreads
  <2>5. NARthreadsExact' /\ QueueExact'
    BY <1>0, <1>1, Counts DEF TypeOK, DecNARthreads,
       Moved, Bit, TallyLabels, OwingLabels, QueuedLabels
  <2> QED  BY <2>1, <2>2, <2>3, <2>4, <2>5 DEF IInv
<1>2. ASSUME IoReturn(t)  PROVE IInv'
  <2>1. TypeOK'  BY <1>0, <1>2 DEF TypeOK, IoReturn
  <2>2. MutexInv'  BY <1>0, <1>2 DEF TypeOK, MutexInv, IoReturn
  <2>3. CountInv'  BY <1>0, <1>2 DEF TypeOK, MutexInv, CountInv, IoReturn
  <2>4. MasterInv' /\ CallInv'
    BY <1>0, <1>2 DEF TypeOK, MutexInv, MasterInv, CallInv, IoReturn
  <2>5. NARthreadsExact' /\ QueueExact'
    BY <1>0, <1>2, Counts DEF TypeOK, IoReturn,
       Moved, Bit, TallyLabels, OwingLabels, QueuedLabels
  <2> QED  BY <2>1, <2>2, <2>3, <2>4, <2>5 DEF IInv
<1>3. ASSUME IncLockTC(t)  PROVE IInv'
  <2>1. TypeOK'  BY <1>0, <1>3 DEF TypeOK, IncLockTC
  <2>2. MutexInv'  BY <1>0, <1>3 DEF TypeOK, MutexInv, IncLockTC
  <2>3. CountInv'  BY <1>0, <1>3 DEF TypeOK, MutexInv, CountInv, IncLockTC
  <2>4. MasterInv' /\ CallInv'
    BY <1>0, <1>3 DEF TypeOK, MutexInv, MasterInv, CallInv, IncLockTC
  <2>5. NARthreadsExact' /\ QueueExact'
    BY <1>0, <1>3, Counts DEF TypeOK, IncLockTC,
       Moved, Bit, TallyLabels, OwingLabels, QueuedLabels
  <2> QED  BY <2>1, <2>2, <2>3, <2>4, <2>5 DEF IInv
<1>4. ASSUME IncNARthreads(t)  PROVE IInv'
  <2>1. TypeOK'  BY <1>0, <1>4 DEF TypeOK, IncNARthreads
  <2>2. MutexInv'  BY <1>0, <1>4 DEF TypeOK, MutexInv, IncNARthreads
  <2>3. CountInv'  BY <1>0, <1>4 DEF TypeOK, MutexInv, CountInv, IncNARthreads
  <2>4. MasterInv' /\ CallInv'
    BY <1>0, <1>4 DEF TypeOK, MutexInv, MasterInv, CallInv, IncNARthreads
  <2>5. NARthreadsExact' /\ QueueExact'
    BY <1>0, <1>4, Counts DEF TypeOK, IncNARthreads,
       Moved, Bit, TallyLabels, OwingLabels, QueuedLabels
  <2> QED  BY <2>1, <2>2, <2>3, <2>4, <2>5 DEF IInv
<1>5. ASSUME LockControlled(t)  PROVE IInv'
  <2>1. TypeOK'  BY <1>0, <1>5 DEF TypeOK, LockControlled
  <2>2. MutexInv'  BY <1>0, <1>5 DEF TypeOK, MutexInv, LockControlled
  <2>3. CountInv'  BY <1>0, <1>5 DEF TypeOK, MutexInv, CountInv, LockControlled
  <2>4. MasterInv' /\ CallInv'
    BY <1>0, <1>5 DEF TypeOK, MutexInv, MasterInv, CallInv, LockControlled
  <2>5. NARthreadsExact' /\ QueueExact'
    BY <1>0, <1>5, Counts DEF TypeOK, LockControlled,
       Moved, Bit, TallyLabels, OwingLabels, QueuedLabels
  <2> QED  BY <2>1, <2>2, <2>3, <2>4, <2>5 DEF IInv
<1>6. ASSUME Unlock(t)  PROVE IInv'
  <2>1. TypeOK'  BY <1>0, <1>6 DEF TypeOK, Unlock
  <2>2. MutexInv'  BY <1>0, <1>6 DEF TypeOK, MutexInv, Unlock
  <2>3. CountInv'  BY <1>0, <1>6 DEF TypeOK, MutexInv, CountInv, Unlock
  <2>4. MasterInv' /\ CallInv'
    BY <1>0, <1>6 DEF TypeOK, MutexInv, MasterInv, CallInv, Unlock
  <2>5. NARthreadsExact' /\ QueueExact'
    BY <1>0, <1>6, Counts DEF TypeOK, Unlock,
       Moved, Bit, TallyLabels, OwingLabels, QueuedLabels
  <2> QED  BY <2>1, <2>2, <2>3, <2>4, <2>5 DEF IInv
<1>7. ASSUME LockDec(t)  PROVE IInv'
  <2>1. TypeOK'  BY <1>0, <1>7 DEF TypeOK, LockDec
  <2>2. MutexInv'  BY <1>0, <1>7 DEF TypeOK, MutexInv, LockDec
  <2>3. CountInv'  BY <1>0, <1>7 DEF TypeOK, MutexInv, CountInv, LockDec
  <2>4. MasterInv' /\ CallInv'
    BY <1>0, <1>7 DEF TypeOK, MutexInv, MasterInv, CallInv, LockDec
  <2>5. NARthreadsExact' /\ QueueExact'
    BY <1>0, <1>7, Counts DEF TypeOK, LockDec,
       Moved, Bit, TallyLabels, OwingLabels, QueuedLabels
  <2> QED  BY <2>1, <2>2, <2>3, <2>4, <2>5 DEF IInv
<1>8. ASSUME LockBlock(t)  PROVE IInv'
  <2>1. TypeOK'  BY <1>0, <1>8 DEF TypeOK, LockBlock
  <2>2. MutexInv'  BY <1>0, <1>8 DEF TypeOK, MutexInv, LockBlock
  <2>3. CountInv'  BY <1>0, <1>8 DEF TypeOK, MutexInv, CountInv, LockBlock
  <2>4. MasterInv' /\ CallInv'
    BY <1>0, <1>8 DEF TypeOK, MutexInv, MasterInv, CallInv, LockBlock
  <2>5. NARthreadsExact' /\ QueueExact'
    BY <1>0, <1>8, Counts DEF TypeOK, LockBlock,
       Moved, Bit, TallyLabels, OwingLabels, QueuedLabels
  <2> QED  BY <2>1, <2>2, <2>3, <2>4, <2>5 DEF IInv
<1> QED  BY <1>1, <1>2, <1>3, <1>4, <1>5, <1>6, <1>7, <1>8 DEF Accounting

\* Answering a call.
LEMMA AnswerInv ==
    ASSUME IInv, NEW t \in Threads, Answer(t)
    PROVE  IInv'
<1> USE ThreadsAssumption
<1> USE DEF Goto, Free, Acquire, Release, request, queue, Mutexes,
           Labels, CountedLabels, BlockedLabels, ControlLabels, HandLabels
<1>0. TypeOK /\ MutexInv /\ CountInv /\ CallInv /\ MasterInv  BY DEF IInv
<1>1. ASSUME AnswerCall(t)  PROVE IInv'
  <2>1. TypeOK'  BY <1>0, <1>1 DEF TypeOK, AnswerCall
  <2>2. MutexInv'  BY <1>0, <1>1 DEF TypeOK, MutexInv, AnswerCall
  <2>3. CountInv'  BY <1>0, <1>1 DEF TypeOK, MutexInv, CountInv, AnswerCall
  <2>4. MasterInv' /\ CallInv'
    BY <1>0, <1>1 DEF TypeOK, MutexInv, MasterInv, CallInv, AnswerCall
  <2>5. NARthreadsExact' /\ QueueExact'
    BY <1>0, <1>1, Counts DEF TypeOK, AnswerCall,
       Moved, Bit, TallyLabels, OwingLabels, QueuedLabels
  <2> QED  BY <2>1, <2>2, <2>3, <2>4, <2>5 DEF IInv
<1>2. ASSUME AnswerLock(t)  PROVE IInv'
  <2>1. TypeOK'  BY <1>0, <1>2 DEF TypeOK, AnswerLock
  <2>2. MutexInv'  BY <1>0, <1>2 DEF TypeOK, MutexInv, AnswerLock
  <2>3. CountInv'  BY <1>0, <1>2 DEF TypeOK, MutexInv, CountInv, AnswerLock
  <2>4. MasterInv' /\ CallInv'
    BY <1>0, <1>2 DEF TypeOK, MutexInv, MasterInv, CallInv, AnswerLock
  <2>5. NARthreadsExact' /\ QueueExact'
    BY <1>0, <1>2, Counts DEF TypeOK, AnswerLock,
       Moved, Bit, TallyLabels, OwingLabels, QueuedLabels
  <2> QED  BY <2>1, <2>2, <2>3, <2>4, <2>5 DEF IInv
<1>3. ASSUME AnswerDec(t)  PROVE IInv'
  <2>1. TypeOK'  BY <1>0, <1>3 DEF TypeOK, AnswerDec
  <2>2. MutexInv'  BY <1>0, <1>3 DEF TypeOK, MutexInv, AnswerDec
  <2>3. CountInv'  BY <1>0, <1>3 DEF TypeOK, MutexInv, CountInv, AnswerDec
  <2>4. MasterInv' /\ CallInv'
    BY <1>0, <1>3 DEF TypeOK, MutexInv, MasterInv, CallInv, AnswerDec
  <2>5. NARthreadsExact' /\ QueueExact'
    BY <1>0, <1>3, Counts DEF TypeOK, AnswerDec,
       Moved, Bit, TallyLabels, OwingLabels, QueuedLabels
  <2> QED  BY <2>1, <2>2, <2>3, <2>4, <2>5 DEF IInv
<1>4. ASSUME TestThreadCall(t)  PROVE IInv'
  <2>1. TypeOK'  BY <1>0, <1>4 DEF TypeOK, TestThreadCall
  <2>2. MutexInv'  BY <1>0, <1>4 DEF TypeOK, MutexInv, TestThreadCall
  <2>3. CountInv'  BY <1>0, <1>4 DEF TypeOK, MutexInv, CountInv, TestThreadCall
  <2>4. MasterInv' /\ CallInv'
    BY <1>0, <1>4 DEF TypeOK, MutexInv, MasterInv, CallInv, TestThreadCall
  <2>5. NARthreadsExact' /\ QueueExact'
    BY <1>0, <1>4, Counts DEF TypeOK, TestThreadCall,
       Moved, Bit, TallyLabels, OwingLabels, QueuedLabels
  <2> QED  BY <2>1, <2>2, <2>3, <2>4, <2>5 DEF IInv
<1>5. ASSUME CondWait(t)  PROVE IInv'
  <2>1. TypeOK'  BY <1>0, <1>5 DEF TypeOK, CondWait
  <2>2. MutexInv'  BY <1>0, <1>5 DEF TypeOK, MutexInv, CondWait
  <2>3. CountInv'  BY <1>0, <1>5 DEF TypeOK, MutexInv, CountInv, CondWait
  <2>4. MasterInv' /\ CallInv'
    BY <1>0, <1>5 DEF TypeOK, MutexInv, MasterInv, CallInv, CondWait
  <2>5. NARthreadsExact' /\ QueueExact'
    BY <1>0, <1>5, Counts DEF TypeOK, CondWait,
       Moved, Bit, TallyLabels, OwingLabels, QueuedLabels
  <2> QED  BY <2>1, <2>2, <2>3, <2>4, <2>5 DEF IInv
<1>6. ASSUME SpuriousWakeup(t)  PROVE IInv'
  <2>1. TypeOK'  BY <1>0, <1>6 DEF TypeOK, SpuriousWakeup
  <2>2. MutexInv'  BY <1>0, <1>6 DEF TypeOK, MutexInv, SpuriousWakeup
  <2>3. CountInv'  BY <1>0, <1>6 DEF TypeOK, MutexInv, CountInv, SpuriousWakeup
  <2>4. MasterInv' /\ CallInv'
    BY <1>0, <1>6 DEF TypeOK, MutexInv, MasterInv, CallInv, SpuriousWakeup
  <2>5. NARthreadsExact' /\ QueueExact'
    BY <1>0, <1>6, Counts DEF TypeOK, SpuriousWakeup,
       Moved, Bit, TallyLabels, OwingLabels, QueuedLabels
  <2> QED  BY <2>1, <2>2, <2>3, <2>4, <2>5 DEF IInv
<1>7. ASSUME CondReturn(t)  PROVE IInv'
  <2>1. TypeOK'  BY <1>0, <1>7 DEF TypeOK, CondReturn
  <2>2. MutexInv'  BY <1>0, <1>7 DEF TypeOK, MutexInv, CondReturn
  <2>3. CountInv'  BY <1>0, <1>7 DEF TypeOK, MutexInv, CountInv, CondReturn
  <2>4. MasterInv' /\ CallInv'
    BY <1>0, <1>7 DEF TypeOK, MutexInv, MasterInv, CallInv, CondReturn
  <2>5. NARthreadsExact' /\ QueueExact'
    BY <1>0, <1>7, Counts DEF TypeOK, CondReturn,
       Moved, Bit, TallyLabels, OwingLabels, QueuedLabels
  <2> QED  BY <2>1, <2>2, <2>3, <2>4, <2>5 DEF IInv
<1> QED  BY <1>1, <1>2, <1>3, <1>4, <1>5, <1>6, <1>7 DEF Answer

\* Taking control, and what a thread does in control.
LEMMA StopInv ==
    ASSUME IInv, NEW t \in Threads, Stop(t)
    PROVE  IInv'
<1> USE ThreadsAssumption
<1> USE DEF Goto, Free, Acquire, Release, request, queue, Mutexes,
           Labels, CountedLabels, BlockedLabels, ControlLabels, HandLabels
<1>0. TypeOK /\ MutexInv /\ CountInv /\ CallInv /\ MasterInv  BY DEF IInv
<1>1. ASSUME StopRequest(t)  PROVE IInv'
  <2>1. TypeOK'  BY <1>0, <1>1 DEF TypeOK, StopRequest
  <2>2. MutexInv'  BY <1>0, <1>1 DEF TypeOK, MutexInv, StopRequest
  <2>3. CountInv'  BY <1>0, <1>1 DEF TypeOK, MutexInv, CountInv, StopRequest
  <2>4. MasterInv' /\ CallInv'
    BY <1>0, <1>1 DEF TypeOK, MutexInv, MasterInv, CallInv, StopRequest
  <2>5. NARthreadsExact' /\ QueueExact'
    BY <1>0, <1>1, Counts DEF TypeOK, StopRequest,
       Moved, Bit, TallyLabels, OwingLabels, QueuedLabels
  <2> QED  BY <2>1, <2>2, <2>3, <2>4, <2>5 DEF IInv
<1>2. ASSUME StopSemWait(t)  PROVE IInv'
  <2>1. TypeOK'  BY <1>0, <1>2 DEF TypeOK, StopSemWait
  <2>2. MutexInv'  BY <1>0, <1>2 DEF TypeOK, MutexInv, StopSemWait
  <2>3. CountInv'  BY <1>0, <1>2 DEF TypeOK, MutexInv, CountInv, StopSemWait
  <2>4. MasterInv' /\ CallInv'
    BY <1>0, <1>2 DEF TypeOK, MutexInv, MasterInv, CallInv, StopSemWait
  <2>5. NARthreadsExact' /\ QueueExact'
    BY <1>0, <1>2, Counts DEF TypeOK, StopSemWait,
       Moved, Bit, TallyLabels, OwingLabels, QueuedLabels
  <2> QED  BY <2>1, <2>2, <2>3, <2>4, <2>5 DEF IInv
<1>3. ASSUME StopPassCond(t)  PROVE IInv'
  <2>1. TypeOK'  BY <1>0, <1>3 DEF TypeOK, StopPassCond
  <2>2. MutexInv'  BY <1>0, <1>3 DEF TypeOK, MutexInv, StopPassCond
  <2>3. CountInv'  BY <1>0, <1>3 DEF TypeOK, MutexInv, CountInv, StopPassCond
  <2>4. MasterInv' /\ CallInv'
    BY <1>0, <1>3 DEF TypeOK, MutexInv, MasterInv, CallInv, StopPassCond
  <2>5. NARthreadsExact' /\ QueueExact'
    BY <1>0, <1>3, Counts DEF TypeOK, StopPassCond,
       Moved, Bit, TallyLabels, OwingLabels, QueuedLabels
  <2> QED  BY <2>1, <2>2, <2>3, <2>4, <2>5 DEF IInv
<1>4. ASSUME StopLockTC(t)  PROVE IInv'
  <2>1. TypeOK'  BY <1>0, <1>4 DEF TypeOK, StopLockTC
  <2>2. MutexInv'  BY <1>0, <1>4 DEF TypeOK, MutexInv, StopLockTC
  <2>3. CountInv'  BY <1>0, <1>4 DEF TypeOK, MutexInv, CountInv, StopLockTC
  <2>4. MasterInv' /\ CallInv'
    BY <1>0, <1>4 DEF TypeOK, MutexInv, MasterInv, CallInv, StopLockTC
  <2>5. NARthreadsExact' /\ QueueExact'
    BY <1>0, <1>4, Counts DEF TypeOK, StopLockTC,
       Moved, Bit, TallyLabels, OwingLabels, QueuedLabels
  <2> QED  BY <2>1, <2>2, <2>3, <2>4, <2>5 DEF IInv
<1>5. ASSUME StopControl(t)  PROVE IInv'
  <2>1. TypeOK'  BY <1>0, <1>5 DEF TypeOK, StopControl
  <2>2. MutexInv'  BY <1>0, <1>5 DEF TypeOK, MutexInv, StopControl
  <2>3. CountInv'  BY <1>0, <1>5 DEF TypeOK, MutexInv, CountInv, StopControl
  <2>4. MasterInv' /\ CallInv'
    BY <1>0, <1>5 DEF TypeOK, MutexInv, MasterInv, CallInv, StopControl
  <2>5. NARthreadsExact' /\ QueueExact'
    BY <1>0, <1>5, Counts DEF TypeOK, StopControl,
       Moved, Bit, TallyLabels, OwingLabels, QueuedLabels
  <2> QED  BY <2>1, <2>2, <2>3, <2>4, <2>5 DEF IInv
<1>6. ASSUME ErrorExit(t)  PROVE IInv'
  <2>1. TypeOK'  BY <1>0, <1>6 DEF TypeOK, ErrorExit
  <2>2. MutexInv'  BY <1>0, <1>6 DEF TypeOK, MutexInv, ErrorExit
  <2>3. CountInv'  BY <1>0, <1>6 DEF TypeOK, MutexInv, CountInv, ErrorExit
  <2>4. MasterInv' /\ CallInv'
    BY <1>0, <1>6 DEF TypeOK, MutexInv, MasterInv, CallInv, ErrorExit
  <2>5. NARthreadsExact' /\ QueueExact'
    BY <1>0, <1>6, Counts DEF TypeOK, ErrorExit,
       Moved, Bit, TallyLabels, OwingLabels, QueuedLabels
  <2> QED  BY <2>1, <2>2, <2>3, <2>4, <2>5 DEF IInv
<1>7. ASSUME CleanLive(t)  PROVE IInv'
  <2>1. TypeOK'  BY <1>0, <1>7 DEF TypeOK, CleanLive
  <2>2. MutexInv'  BY <1>0, <1>7 DEF TypeOK, MutexInv, CleanLive
  <2>3. CountInv'  BY <1>0, <1>7 DEF TypeOK, MutexInv, CountInv, CleanLive
  <2>4. MasterInv' /\ CallInv'
    BY <1>0, <1>7 DEF TypeOK, MutexInv, MasterInv, CallInv, CleanLive
  <2>5. NARthreadsExact' /\ QueueExact'
    BY <1>0, <1>7, Counts DEF TypeOK, CleanLive,
       Moved, Bit, TallyLabels, OwingLabels, QueuedLabels
  <2> QED  BY <2>1, <2>2, <2>3, <2>4, <2>5 DEF IInv
<1> QED  BY <1>1, <1>2, <1>3, <1>4, <1>5, <1>6, <1>7 DEF Stop

\* Giving control up.
LEMMA WakeupInv ==
    ASSUME IInv, NEW t \in Threads, Wakeup(t)
    PROVE  IInv'
<1> USE ThreadsAssumption
<1> USE DEF Goto, Free, Acquire, Release, request, queue, Mutexes,
           Labels, CountedLabels, BlockedLabels, ControlLabels, HandLabels
<1>0. TypeOK /\ MutexInv /\ CountInv /\ CallInv /\ MasterInv  BY DEF IInv
<1>1. ASSUME HandOver(t)  PROVE IInv'
  <2>1. TypeOK'  BY <1>0, <1>1 DEF TypeOK, HandOver
  <2>2. MutexInv'  BY <1>0, <1>1 DEF TypeOK, MutexInv, HandOver
  <2>3. CountInv'  BY <1>0, <1>1 DEF TypeOK, MutexInv, CountInv, HandOver
  <2>4. MasterInv' /\ CallInv'
    BY <1>0, <1>1 DEF TypeOK, MutexInv, MasterInv, CallInv, HandOver
  <2>5. NARthreadsExact' /\ QueueExact'
    BY <1>0, <1>1, Counts DEF TypeOK, HandOver,
       Moved, Bit, TallyLabels, OwingLabels, QueuedLabels
  <2> QED  BY <2>1, <2>2, <2>3, <2>4, <2>5 DEF IInv
<1>2. ASSUME HandOverPost(t)  PROVE IInv'
  <2>1. TypeOK'  BY <1>0, <1>2 DEF TypeOK, HandOverPost
  <2>2. MutexInv'  BY <1>0, <1>2 DEF TypeOK, MutexInv, HandOverPost
  <2>3. CountInv'  BY <1>0, <1>2 DEF TypeOK, MutexInv, CountInv, HandOverPost
  <2>4. MasterInv' /\ CallInv'
    BY <1>0, <1>2 DEF TypeOK, MutexInv, MasterInv, CallInv, HandOverPost
  <2>5. NARthreadsExact' /\ QueueExact'
    BY <1>0, <1>2, Counts DEF TypeOK, HandOverPost,
       Moved, Bit, TallyLabels, OwingLabels, QueuedLabels
  <2> QED  BY <2>1, <2>2, <2>3, <2>4, <2>5 DEF IInv
<1>3. ASSUME HandOverInc(t)  PROVE IInv'
  <2>1. TypeOK'  BY <1>0, <1>3 DEF TypeOK, HandOverInc
  <2>2. MutexInv'  BY <1>0, <1>3 DEF TypeOK, MutexInv, HandOverInc
  <2>3. CountInv'  BY <1>0, <1>3 DEF TypeOK, MutexInv, CountInv, HandOverInc
  <2>4. MasterInv' /\ CallInv'
    BY <1>0, <1>3 DEF TypeOK, MutexInv, MasterInv, CallInv, HandOverInc
  <2>5. NARthreadsExact' /\ QueueExact'
    BY <1>0, <1>3, Counts DEF TypeOK, HandOverInc,
       Moved, Bit, TallyLabels, OwingLabels, QueuedLabels
  <2> QED  BY <2>1, <2>2, <2>3, <2>4, <2>5 DEF IInv
<1>4. ASSUME WakeupCall(t)  PROVE IInv'
  <2>1. TypeOK'  BY <1>0, <1>4 DEF TypeOK, WakeupCall
  <2>2. MutexInv'  BY <1>0, <1>4 DEF TypeOK, MutexInv, WakeupCall
  <2>3. CountInv'  BY <1>0, <1>4 DEF TypeOK, MutexInv, CountInv, WakeupCall
  <2>4. MasterInv' /\ CallInv'
    BY <1>0, <1>4 DEF TypeOK, MutexInv, MasterInv, CallInv, WakeupCall
  <2>5. NARthreadsExact' /\ QueueExact'
    BY <1>0, <1>4, Counts DEF TypeOK, WakeupCall,
       Moved, Bit, TallyLabels, OwingLabels, QueuedLabels
  <2> QED  BY <2>1, <2>2, <2>3, <2>4, <2>5 DEF IInv
<1>5. ASSUME WakeupPost(t)  PROVE IInv'
  <2>1. TypeOK'  BY <1>0, <1>5 DEF TypeOK, WakeupPost
  <2>2. MutexInv'  BY <1>0, <1>5 DEF TypeOK, MutexInv, WakeupPost
  <2>3. CountInv'  BY <1>0, <1>5 DEF TypeOK, MutexInv, CountInv, WakeupPost
  <2>4. MasterInv' /\ CallInv'
    BY <1>0, <1>5 DEF TypeOK, MutexInv, MasterInv, CallInv, WakeupPost
  <2>5. NARthreadsExact' /\ QueueExact'
    BY <1>0, <1>5, Counts DEF TypeOK, WakeupPost,
       Moved, Bit, TallyLabels, OwingLabels, QueuedLabels
  <2> QED  BY <2>1, <2>2, <2>3, <2>4, <2>5 DEF IInv
<1>6. ASSUME WakeupMaster(t)  PROVE IInv'
  <2>1. TypeOK'  BY <1>0, <1>6 DEF TypeOK, WakeupMaster
  <2>2. MutexInv'  BY <1>0, <1>6 DEF TypeOK, MutexInv, WakeupMaster
  <2>3. CountInv'  BY <1>0, <1>6 DEF TypeOK, MutexInv, CountInv, WakeupMaster
  <2>4. MasterInv' /\ CallInv'
    BY <1>0, <1>6, Alone DEF TypeOK, MutexInv, MasterInv, CallInv, WakeupMaster, TallyLabels
  <2>5. NARthreadsExact' /\ QueueExact'
    BY <1>0, <1>6, Counts DEF TypeOK, WakeupMaster,
       Moved, Bit, TallyLabels, OwingLabels, QueuedLabels
  <2> QED  BY <2>1, <2>2, <2>3, <2>4, <2>5 DEF IInv
<1>7. ASSUME WakeupBroadcast(t)  PROVE IInv'
  <2>1. TypeOK'  BY <1>0, <1>7 DEF TypeOK, WakeupBroadcast
  <2>2. MutexInv'  BY <1>0, <1>7 DEF TypeOK, MutexInv, WakeupBroadcast
  <2>3. CountInv'  BY <1>0, <1>7 DEF TypeOK, MutexInv, CountInv, WakeupBroadcast
  <2>4. MasterInv' /\ CallInv'  BY <1>0, <1>7 DEF TypeOK, MutexInv, MasterInv, CallInv, WakeupBroadcast
  <2>5. /\ \A v \in Threads : pc'[v] \in TallyLabels <=> pc[v] \in TallyLabels
        /\ \A v \in Threads : pc'[v] \in OwingLabels <=> pc[v] \in OwingLabels
        /\ \A v \in Threads : pc'[v] \in QueuedLabels <=> pc[v] \in QueuedLabels
    BY <1>0, <1>7 DEF TypeOK, WakeupBroadcast, TallyLabels, OwingLabels, QueuedLabels
  <2>6. NARthreads' = NARthreads /\ tc_queue' = tc_queue  BY <1>7 DEF WakeupBroadcast
  <2>7. NARthreadsExact' /\ QueueExact'
    BY <2>5, <2>6, CountSame DEF IInv, NARthreadsExact, QueueExact
  <2> QED  BY <2>1, <2>2, <2>3, <2>4, <2>7 DEF IInv
<1> QED  BY <1>1, <1>2, <1>3, <1>4, <1>5, <1>6, <1>7 DEF Wakeup

\* The heap of a new thread, and a new region for a running one.
LEMMA HeapInv ==
    ASSUME IInv, NEW t \in Threads, Heap(t)
    PROVE  IInv'
<1> USE ThreadsAssumption
<1> USE DEF Goto, Free, Acquire, Release, request, queue, Mutexes,
           Labels, CountedLabels, BlockedLabels, ControlLabels, HandLabels
<1>0. TypeOK /\ MutexInv /\ CountInv /\ CallInv /\ MasterInv  BY DEF IInv
<1>1. ASSUME InitHeap(t)  PROVE IInv'
  <2>1. TypeOK'  BY <1>0, <1>1 DEF TypeOK, InitHeap
  <2>2. MutexInv'  BY <1>0, <1>1 DEF TypeOK, MutexInv, InitHeap
  <2>3. CountInv'  BY <1>0, <1>1 DEF TypeOK, MutexInv, CountInv, InitHeap
  <2>4. MasterInv' /\ CallInv'
    BY <1>0, <1>1 DEF TypeOK, MutexInv, MasterInv, CallInv, InitHeap
  <2>5. NARthreadsExact' /\ QueueExact'
    BY <1>0, <1>1, Counts DEF TypeOK, InitHeap,
       Moved, Bit, TallyLabels, OwingLabels, QueuedLabels
  <2> QED  BY <2>1, <2>2, <2>3, <2>4, <2>5 DEF IInv
<1>2. ASSUME InitLinked(t)  PROVE IInv'
  <2>1. TypeOK'  BY <1>0, <1>2 DEF TypeOK, InitLinked
  <2>2. MutexInv'  BY <1>0, <1>2 DEF TypeOK, MutexInv, InitLinked
  <2>3. CountInv'  BY <1>0, <1>2 DEF TypeOK, MutexInv, CountInv, InitLinked
  <2>4. MasterInv' /\ CallInv'
    BY <1>0, <1>2 DEF TypeOK, MutexInv, MasterInv, CallInv, InitLinked
  <2>5. NARthreadsExact' /\ QueueExact'
    BY <1>0, <1>2, Counts DEF TypeOK, InitLinked,
       Moved, Bit, TallyLabels, OwingLabels, QueuedLabels
  <2> QED  BY <2>1, <2>2, <2>3, <2>4, <2>5 DEF IInv
<1>3. ASSUME GrowHeap(t)  PROVE IInv'
  <2>1. TypeOK'  BY <1>0, <1>3 DEF TypeOK, GrowHeap
  <2>2. MutexInv'  BY <1>0, <1>3 DEF TypeOK, MutexInv, GrowHeap
  <2>3. CountInv'  BY <1>0, <1>3 DEF TypeOK, MutexInv, CountInv, GrowHeap
  <2>4. MasterInv' /\ CallInv'
    BY <1>0, <1>3 DEF TypeOK, MutexInv, MasterInv, CallInv, GrowHeap
  <2>5. NARthreadsExact' /\ QueueExact'
    BY <1>0, <1>3, Counts DEF TypeOK, GrowHeap,
       Moved, Bit, TallyLabels, OwingLabels, QueuedLabels
  <2> QED  BY <2>1, <2>2, <2>3, <2>4, <2>5 DEF IInv
<1>4. ASSUME GrowLock(t)  PROVE IInv'
  <2>1. TypeOK'  BY <1>0, <1>4 DEF TypeOK, GrowLock
  <2>2. MutexInv'  BY <1>0, <1>4 DEF TypeOK, MutexInv, GrowLock
  <2>3. CountInv'  BY <1>0, <1>4 DEF TypeOK, MutexInv, CountInv, GrowLock
  <2>4. MasterInv' /\ CallInv'
    BY <1>0, <1>4 DEF TypeOK, MutexInv, MasterInv, CallInv, GrowLock
  <2>5. NARthreadsExact' /\ QueueExact'
    BY <1>0, <1>4, Counts DEF TypeOK, GrowLock,
       Moved, Bit, TallyLabels, OwingLabels, QueuedLabels
  <2> QED  BY <2>1, <2>2, <2>3, <2>4, <2>5 DEF IInv
<1>5. ASSUME GrowLinked(t)  PROVE IInv'
  <2>1. TypeOK'  BY <1>0, <1>5 DEF TypeOK, GrowLinked
  <2>2. MutexInv'  BY <1>0, <1>5 DEF TypeOK, MutexInv, GrowLinked
  <2>3. CountInv'  BY <1>0, <1>5 DEF TypeOK, MutexInv, CountInv, GrowLinked
  <2>4. MasterInv' /\ CallInv'
    BY <1>0, <1>5 DEF TypeOK, MutexInv, MasterInv, CallInv, GrowLinked
  <2>5. NARthreadsExact' /\ QueueExact'
    BY <1>0, <1>5, Counts DEF TypeOK, GrowLinked,
       Moved, Bit, TallyLabels, OwingLabels, QueuedLabels
  <2> QED  BY <2>1, <2>2, <2>3, <2>4, <2>5 DEF IInv
<1> QED  BY <1>1, <1>2, <1>3, <1>4, <1>5 DEF Heap

\* Birth and end of threads, and the end of the program.
LEMMA LifecycleInv ==
    ASSUME IInv, NEW t \in Threads, Lifecycle(t)
    PROVE  IInv'
<1> USE ThreadsAssumption
<1> USE DEF Goto, Free, Acquire, Release, request, queue, Mutexes,
           Labels, CountedLabels, BlockedLabels, ControlLabels, HandLabels
<1>0. TypeOK /\ MutexInv /\ CountInv /\ CallInv /\ MasterInv  BY DEF IInv
<1>1. ASSUME NEW u \in Threads, Spawn(t, u)  PROVE IInv'
  <2>1. TypeOK'  BY <1>0, <1>1 DEF TypeOK, Spawn
  <2>2. MutexInv'  BY <1>0, <1>1 DEF TypeOK, MutexInv, Spawn
  <2>3. CountInv'  BY <1>0, <1>1 DEF TypeOK, MutexInv, CountInv, Spawn
  <2>4. MasterInv' /\ CallInv'  BY <1>0, <1>1 DEF TypeOK, MutexInv, MasterInv, CallInv, Spawn
  <2>5. /\ \A v \in Threads : pc'[v] \in TallyLabels <=> pc[v] \in TallyLabels
        /\ \A v \in Threads : pc'[v] \in OwingLabels <=> pc[v] \in OwingLabels
        /\ \A v \in Threads : pc'[v] \in QueuedLabels <=> pc[v] \in QueuedLabels
    BY <1>0, <1>1 DEF TypeOK, Spawn, TallyLabels, OwingLabels, QueuedLabels
  <2>6. NARthreads' = NARthreads /\ tc_queue' = tc_queue  BY <1>1 DEF Spawn
  <2>7. NARthreadsExact' /\ QueueExact'
    BY <2>5, <2>6, CountSame DEF IInv, NARthreadsExact, QueueExact
  <2> QED  BY <2>1, <2>2, <2>3, <2>4, <2>7 DEF IInv
<1>2. ASSUME NEW u \in Threads, SpawnPost(t, u)  PROVE IInv'
  <2>1. TypeOK'  BY <1>0, <1>2 DEF TypeOK, SpawnPost
  <2>2. MutexInv'  BY <1>0, <1>2 DEF TypeOK, MutexInv, SpawnPost
  <2>3. CountInv'  BY <1>0, <1>2 DEF TypeOK, MutexInv, CountInv, SpawnPost
  <2>4. MasterInv' /\ CallInv'  BY <1>0, <1>2 DEF TypeOK, MutexInv, MasterInv, CallInv, SpawnPost
  <2>5. NARthreadsExact' /\ QueueExact'
    <3>1. t # u  BY <1>0, <1>2 DEF TypeOK, SpawnPost
    <3>2. /\ pc[t] = "spawn_post" /\ pc'[t] = "spawn_inc"
          /\ pc[u] = "created" /\ pc'[u] = "init"
      BY <1>0, <1>2 DEF TypeOK, SpawnPost
    <3>3. \A v \in Threads \ {t, u} : pc'[v] = pc[v]  BY <1>0, <1>2 DEF TypeOK, SpawnPost
    <3>4. \A L : /\ CountAt(pc, L) \in Nat
                 /\ CountAt(pc', L) = CountAt(pc, L) + (Bit(pc'[t], L) - Bit(pc[t], L))
                                                    + (Bit(pc'[u], L) - Bit(pc[u], L))
      BY <3>1, <3>3, CountTwo
    <3>5. /\ Bit("spawn_post", TallyLabels) = 1 /\ Bit("spawn_inc", TallyLabels) = 1
          /\ Bit("created", TallyLabels) = 0 /\ Bit("init", TallyLabels) = 1
          /\ Bit("spawn_post", OwingLabels) = 0 /\ Bit("spawn_inc", OwingLabels) = 1
          /\ Bit("created", OwingLabels) = 0 /\ Bit("init", OwingLabels) = 0
          /\ Bit("spawn_post", QueuedLabels) = 0 /\ Bit("spawn_inc", QueuedLabels) = 0
          /\ Bit("created", QueuedLabels) = 0 /\ Bit("init", QueuedLabels) = 0
      BY DEF Bit, TallyLabels, OwingLabels, QueuedLabels
    <3>6. /\ CountAt(pc', TallyLabels) = CountAt(pc, TallyLabels) + 1
          /\ CountAt(pc', OwingLabels) = CountAt(pc, OwingLabels) + 1
          /\ CountAt(pc', QueuedLabels) = CountAt(pc, QueuedLabels)
      BY <3>2, <3>4, <3>5
    <3>7. NARthreads' = NARthreads /\ tc_queue' = tc_queue  BY <1>2 DEF SpawnPost
    <3> QED  BY <3>4, <3>6, <3>7 DEF IInv, NARthreadsExact, QueueExact
  <2> QED  BY <2>1, <2>2, <2>3, <2>4, <2>5 DEF IInv
<1>3. ASSUME SpawnInc(t)  PROVE IInv'
  <2>1. TypeOK'  BY <1>0, <1>3 DEF TypeOK, SpawnInc
  <2>2. MutexInv'  BY <1>0, <1>3 DEF TypeOK, MutexInv, SpawnInc
  <2>3. CountInv'  BY <1>0, <1>3 DEF TypeOK, MutexInv, CountInv, SpawnInc
  <2>4. MasterInv' /\ CallInv'
    BY <1>0, <1>3 DEF TypeOK, MutexInv, MasterInv, CallInv, SpawnInc
  <2>5. NARthreadsExact' /\ QueueExact'
    BY <1>0, <1>3, Counts DEF TypeOK, SpawnInc,
       Moved, Bit, TallyLabels, OwingLabels, QueuedLabels
  <2> QED  BY <2>1, <2>2, <2>3, <2>4, <2>5 DEF IInv
<1>4. ASSUME ThreadEnd(t)  PROVE IInv'
  <2>1. TypeOK'  BY <1>0, <1>4 DEF TypeOK, ThreadEnd
  <2>2. MutexInv'  BY <1>0, <1>4 DEF TypeOK, MutexInv, ThreadEnd
  <2>3. CountInv'  BY <1>0, <1>4 DEF TypeOK, MutexInv, CountInv, ThreadEnd
  <2>4. MasterInv' /\ CallInv'
    BY <1>0, <1>4 DEF TypeOK, MutexInv, MasterInv, CallInv, ThreadEnd
  <2>5. NARthreadsExact' /\ QueueExact'
    BY <1>0, <1>4, Counts DEF TypeOK, ThreadEnd,
       Moved, Bit, TallyLabels, OwingLabels, QueuedLabels
  <2> QED  BY <2>1, <2>2, <2>3, <2>4, <2>5 DEF IInv
<1>5. ASSUME CleanLock(t)  PROVE IInv'
  <2>1. TypeOK'  BY <1>0, <1>5 DEF TypeOK, CleanLock
  <2>2. MutexInv'  BY <1>0, <1>5 DEF TypeOK, MutexInv, CleanLock
  <2>3. CountInv'  BY <1>0, <1>5 DEF TypeOK, MutexInv, CountInv, CleanLock
  <2>4. MasterInv' /\ CallInv'
    BY <1>0, <1>5 DEF TypeOK, MutexInv, MasterInv, CallInv, CleanLock
  <2>5. NARthreadsExact' /\ QueueExact'
    BY <1>0, <1>5, Counts DEF TypeOK, CleanLock,
       Moved, Bit, TallyLabels, OwingLabels, QueuedLabels
  <2> QED  BY <2>1, <2>2, <2>3, <2>4, <2>5 DEF IInv
<1>6. ASSUME CleanSwap(t)  PROVE IInv'
  <2>1. TypeOK'  BY <1>0, <1>6 DEF TypeOK, CleanSwap
  <2>2. MutexInv'  BY <1>0, <1>6 DEF TypeOK, MutexInv, CleanSwap
  <2>3. CountInv'  BY <1>0, <1>6 DEF TypeOK, MutexInv, CountInv, CleanSwap
  <2>4. MasterInv' /\ CallInv'
    BY <1>0, <1>6 DEF TypeOK, MutexInv, MasterInv, CallInv, CleanSwap
  <2>5. NARthreadsExact' /\ QueueExact'
    BY <1>0, <1>6, Counts DEF TypeOK, CleanSwap,
       Moved, Bit, TallyLabels, OwingLabels, QueuedLabels
  <2> QED  BY <2>1, <2>2, <2>3, <2>4, <2>5 DEF IInv
<1>7. ASSUME CleanDec(t)  PROVE IInv'
  <2>1. TypeOK'  BY <1>0, <1>7 DEF TypeOK, CleanDec
  <2>2. MutexInv'  BY <1>0, <1>7 DEF TypeOK, MutexInv, CleanDec
  <2>3. CountInv'  BY <1>0, <1>7 DEF TypeOK, MutexInv, CountInv, CleanDec
  <2>4. MasterInv' /\ CallInv'
    BY <1>0, <1>7 DEF TypeOK, MutexInv, MasterInv, CallInv, CleanDec
  <2>5. NARthreadsExact' /\ QueueExact'
    BY <1>0, <1>7, Counts DEF TypeOK, CleanDec,
       Moved, Bit, TallyLabels, OwingLabels, QueuedLabels
  <2> QED  BY <2>1, <2>2, <2>3, <2>4, <2>5 DEF IInv
<1>8. ASSUME KillRequest(t)  PROVE IInv'
  <2>1. TypeOK'  BY <1>0, <1>8 DEF TypeOK, KillRequest
  <2>2. MutexInv'  BY <1>0, <1>8 DEF TypeOK, MutexInv, KillRequest
  <2>3. CountInv'  BY <1>0, <1>8 DEF TypeOK, MutexInv, CountInv, KillRequest
  <2>4. MasterInv' /\ CallInv'
    BY <1>0, <1>8 DEF TypeOK, MutexInv, MasterInv, CallInv, KillRequest
  <2>5. NARthreadsExact' /\ QueueExact'
    BY <1>0, <1>8, Counts DEF TypeOK, KillRequest,
       Moved, Bit, TallyLabels, OwingLabels, QueuedLabels
  <2> QED  BY <2>1, <2>2, <2>3, <2>4, <2>5 DEF IInv
<1>9. ASSUME KillCall(t)  PROVE IInv'
  <2>1. TypeOK'  BY <1>0, <1>9 DEF TypeOK, KillCall
  <2>2. MutexInv'  BY <1>0, <1>9 DEF TypeOK, MutexInv, KillCall
  <2>3. CountInv'  BY <1>0, <1>9 DEF TypeOK, MutexInv, CountInv, KillCall
  <2>4. MasterInv' /\ CallInv'
    BY <1>0, <1>9 DEF TypeOK, MutexInv, MasterInv, CallInv, KillCall
  <2>5. NARthreadsExact' /\ QueueExact'
    BY <1>0, <1>9, Counts DEF TypeOK, KillCall,
       Moved, Bit, TallyLabels, OwingLabels, QueuedLabels
  <2> QED  BY <2>1, <2>2, <2>3, <2>4, <2>5 DEF IInv
<1>10. ASSUME KillAction(t)  PROVE IInv'
  <2>1. TypeOK'  BY <1>0, <1>10 DEF TypeOK, KillAction
  <2>2. MutexInv'  BY <1>0, <1>10 DEF TypeOK, MutexInv, KillAction
  <2>3. CountInv'  BY <1>0, <1>10 DEF TypeOK, MutexInv, CountInv, KillAction
  <2>4. MasterInv' /\ CallInv'
    BY <1>0, <1>10 DEF TypeOK, MutexInv, MasterInv, CallInv, KillAction
  <2>5. NARthreadsExact' /\ QueueExact'
    BY <1>0, <1>10, Counts DEF TypeOK, KillAction,
       Moved, Bit, TallyLabels, OwingLabels, QueuedLabels
  <2> QED  BY <2>1, <2>2, <2>3, <2>4, <2>5 DEF IInv
<1>11. ASSUME KillDone(t)  PROVE IInv'
  <2>1. TypeOK'  BY <1>0, <1>11 DEF TypeOK, KillDone
  <2>2. MutexInv'  BY <1>0, <1>11 DEF TypeOK, MutexInv, KillDone
  <2>3. CountInv'  BY <1>0, <1>11 DEF TypeOK, MutexInv, CountInv, KillDone
  <2>4. MasterInv' /\ CallInv'
    BY <1>0, <1>11, Alone DEF TypeOK, MutexInv, MasterInv, CallInv, KillDone, TallyLabels
  <2>5. NARthreadsExact' /\ QueueExact'
    BY <1>0, <1>11, Counts DEF TypeOK, KillDone,
       Moved, Bit, TallyLabels, OwingLabels, QueuedLabels
  <2> QED  BY <2>1, <2>2, <2>3, <2>4, <2>5 DEF IInv
<1>12. ASSUME ProcessExit(t)  PROVE IInv'
  BY <1>12 DEF ProcessExit, vars, IInv, TypeOK, MutexInv, CountInv, CallInv, MasterInv,
     NARthreadsExact, QueueExact, CountAt
<1> QED  BY <1>1, <1>2, <1>3, <1>4, <1>5, <1>6, <1>7, <1>8, <1>9, <1>10, <1>11, <1>12 DEF Lifecycle

-----------------------------------------------------------------------------
(* Theorems *)

\* IInv holds in every reachable state: the variables keep their types (TypeOK
\* is its first conjunct) and the bookkeeping of the protocol is consistent.
THEOREM Inductive == Spec => []IInv
<1>1. Init => IInv  BY InitIInv
<1>2. IInv /\ [Next]_vars => IInv'
  <2>1. ASSUME IInv, UNCHANGED vars  PROVE IInv'
    BY <2>1 DEF vars, request, queue, IInv, TypeOK, MutexInv, CountInv, CallInv, MasterInv,
       NARthreadsExact, QueueExact, CountAt
  <2>2. ASSUME IInv, Next  PROVE IInv'
    BY <2>2, AccountingInv, AnswerInv, StopInv, WakeupInv, HeapInv, LifecycleInv
    DEF Next
  <2> QED  BY <2>1, <2>2
<1> QED  BY <1>1, <1>2, PTL DEF Spec

\* Every variable keeps its type.
THEOREM TypeCorrect == Spec => []TypeOK
<1>1. IInv => TypeOK  BY DEF IInv
<1> QED  BY <1>1, Inductive, PTL

\* A thread that thread_control() puts in control is the only one that runs
\* code that may touch the heap.
THEOREM ControlIsExclusive == Spec => []Exclusive
<1>1. IInv => Exclusive
  BY Alone DEF Exclusive, TallyLabels
<1> QED  BY <1>1, Inductive, PTL

\* NARthreads is exact: its increments and decrements, scattered over the
\* run-time system, match the threads that run.
THEOREM CountIsExact == Spec => []NARthreadsExact
<1>1. IInv => NARthreadsExact  BY DEF IInv
<1> QED  BY <1>1, Inductive, PTL

\* tc_queue is exact: TC_WAKEUPCALL hands control over iff a thread waits.
THEOREM QueueIsExact == Spec => []QueueExact
<1>1. IInv => QueueExact  BY DEF IInv
<1> QED  BY <1>1, Inductive, PTL

\* The unlocked writes of master_thread never make a thread that runs, or that
\* asks for control, look like the thread in control, nor the converse.
THEOREM MasterIsExact == Spec => []MasterExact
<1>1. IInv => MasterExact
  BY DEF IInv, MasterInv, MasterExact, ControlLabels, HandLabels
<1> QED  BY <1>1, Inductive, PTL
=============================================================================
