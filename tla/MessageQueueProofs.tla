------------------------- MODULE MessageQueueProofs -------------------------
(***************************************************************************)
(* Proofs about MessageQueue, for any finite sets of senders and receivers *)
(* and any limits: the counters of waiters are exact, the senders and the  *)
(* receivers never all wait for each other, and the queue implements the   *)
(* bounded channel.                                                        *)
(***************************************************************************)
EXTENDS MessageQueue, FiniteSetTheorems, SequenceTheorems, TLAPS

Bit(l, L) == IF l \in L THEN 1 ELSE 0

-----------------------------------------------------------------------------
(* Counting waiters *)

LEMMA ThreadsFinite == IsFiniteSet(Threads)
BY QueueAssumption, FS_Union DEF Threads

\* A count of threads is a natural number.
LEMMA CountType ==
    ASSUME NEW f, NEW L
    PROVE  CountAt(f, L) \in Nat
<1> DEFINE S == {t \in Threads : f[t] \in L}
<1>1. IsFiniteSet(S)  BY ThreadsFinite, FS_Subset
<1>2. Cardinality(S) \in Nat  BY <1>1, FS_CardinalityType
<1> QED  BY <1>2 DEF CountAt

\* A count is not zero when some thread is counted.
LEMMA CountPositive ==
    ASSUME NEW f, NEW L, NEW t \in Threads, f[t] \in L
    PROVE  CountAt(f, L) # 0
<1> DEFINE S == {u \in Threads : f[u] \in L}
<1>1. IsFiniteSet(S)  BY ThreadsFinite, FS_Subset
<1>2. t \in S  OBVIOUS
<1>3. Cardinality(S) # 0  BY <1>1, <1>2, FS_EmptySet
<1> QED  BY <1>3 DEF CountAt

\* How a count changes when thread t alone may enter or leave the labels L.
LEMMA CountMove ==
    ASSUME NEW f, NEW g, NEW t \in Threads, NEW L,
           \A u \in Threads \ {t} : g[u] \in L <=> f[u] \in L
    PROVE  CountAt(g, L) = CountAt(f, L) + Bit(g[t], L) - Bit(f[t], L)
<1> DEFINE S == {u \in Threads : f[u] \in L}
           T == {u \in Threads : g[u] \in L}
<1>1. IsFiniteSet(S) /\ Cardinality(S) \in Nat
  BY ThreadsFinite, FS_Subset, FS_CardinalityType
<1>2. CountAt(f, L) = Cardinality(S) /\ CountAt(g, L) = Cardinality(T)
  BY DEF CountAt
<1>3. CASE g[t] \in L <=> f[t] \in L
  <2>1. T = S  BY <1>3
  <2>2. Bit(g[t], L) = Bit(f[t], L) /\ Bit(f[t], L) \in Int  BY <1>3 DEF Bit
  <2> HIDE DEF S, T
  <2> QED  BY <1>1, <1>2, <2>1, <2>2
<1>4. CASE g[t] \in L /\ f[t] \notin L
  <2>1. T = S \cup {t} /\ t \notin S  BY <1>4
  <2>2. Cardinality(T) = Cardinality(S) + 1  BY <1>1, <2>1, FS_AddElement
  <2> QED  BY <1>1, <1>2, <1>4, <2>2 DEF Bit
<1>5. CASE g[t] \notin L /\ f[t] \in L
  <2>1. T = S \ {t} /\ t \in S  BY <1>5
  <2>2. Cardinality(T) = Cardinality(S) - 1  BY <1>1, <2>1, FS_RemoveElement
  <2> QED  BY <1>1, <1>2, <1>5, <2>2 DEF Bit
<1> QED  BY <1>3, <1>4, <1>5

\* A step of thread t that moves others at most from a wait to the label behind
\* it keeps the counters exact if full and empty follow the move of t.
Woke(l, m) ==
    \/ m = l
    \/ l = "sndbk_wait" /\ m = "sndbk_wake"
    \/ l = "rcvbk_wait" /\ m = "rcvbk_wake"
    \/ l = "timed_wait" /\ m = "timed_wake"

LEMMA Counts ==
    ASSUME WaitersCounted, NEW t \in Threads,
           \A u \in Threads \ {t} : Woke(pc[u], pc'[u]),
           full' = full + Bit(pc'[t], FullLabels) - Bit(pc[t], FullLabels),
           empty' = empty + Bit(pc'[t], EmptyLabels) - Bit(pc[t], EmptyLabels)
    PROVE  WaitersCounted'
<1>1. \A u \in Threads \ {t} : /\ pc'[u] \in FullLabels <=> pc[u] \in FullLabels
                               /\ pc'[u] \in EmptyLabels <=> pc[u] \in EmptyLabels
  BY DEF Woke, FullLabels, EmptyLabels
<1>2. CountAt(pc', FullLabels)
        = CountAt(pc, FullLabels) + Bit(pc'[t], FullLabels) - Bit(pc[t], FullLabels)
  BY <1>1, CountMove
<1>3. CountAt(pc', EmptyLabels)
        = CountAt(pc, EmptyLabels) + Bit(pc'[t], EmptyLabels) - Bit(pc[t], EmptyLabels)
  BY <1>1, CountMove
<1> QED  BY <1>2, <1>3 DEF WaitersCounted

-----------------------------------------------------------------------------
(* Signals *)

\* CV_SIGNAL_EMPTYBLK moves at most one receiver from its wait, and does move
\* one if a receiver waits and empty is not zero.
LEMMA SignalEmptyWakes ==
    ASSUME pc \in [Threads -> Labels], NEW f \in SignalEmpty(pc)
    PROVE  /\ f \in [Threads -> Labels]
           /\ \A u \in Threads : Woke(pc[u], f[u])
           /\ \A u \in Threads : pc[u] \notin {"rcvbk_wait", "timed_wait"} => f[u] = pc[u]
           /\ (empty # 0 /\ \E u \in Threads : pc[u] \in {"rcvbk_wait", "timed_wait"})
                => \E u \in Threads : f[u] \in {"rcvbk_wake", "timed_wake"}
                                      /\ pc[u] \in {"rcvbk_wait", "timed_wait"}
<1>1. CASE f = pc /\ (empty = 0 \/ ~ \E u \in Threads : pc[u] \in {"rcvbk_wait", "timed_wait"})
  BY <1>1 DEF Woke
<1>2. CASE \E v \in Threads : /\ pc[v] \in {"rcvbk_wait", "timed_wait"}
                              /\ f = [pc EXCEPT ![v] = IF pc[v] = "rcvbk_wait"
                                                         THEN "rcvbk_wake" ELSE "timed_wake"]
  BY <1>2 DEF Woke, Labels, SendLabels, ReceiveLabels
<1> QED  BY <1>1, <1>2 DEF SignalEmpty, Woken

\* CV_SIGNAL_FULLBLK does the same for the senders.
LEMMA SignalFullWakes ==
    ASSUME pc \in [Threads -> Labels], NEW f \in SignalFull(pc)
    PROVE  /\ f \in [Threads -> Labels]
           /\ \A u \in Threads : Woke(pc[u], f[u])
           /\ \A u \in Threads : pc[u] # "sndbk_wait" => f[u] = pc[u]
           /\ (full # 0 /\ \E u \in Threads : pc[u] = "sndbk_wait")
                => \E u \in Threads : f[u] = "sndbk_wake" /\ pc[u] = "sndbk_wait"
<1>1. CASE f = pc /\ (full = 0 \/ ~ \E u \in Threads : pc[u] = "sndbk_wait")
  BY <1>1 DEF Woke
<1>2. CASE \E v \in Threads : pc[v] = "sndbk_wait" /\ f = [pc EXCEPT ![v] = "sndbk_wake"]
  BY <1>2 DEF Woke, Labels, SendLabels, ReceiveLabels
<1> QED  BY <1>1, <1>2 DEF SignalFull, Woken

-----------------------------------------------------------------------------
(* Every step preserves QueueInv *)

\* The steps of a thread inside a send operator.
LEMMA SendInv ==
    ASSUME QueueInv, NEW t \in Threads, SendStep(t)
    PROVE  QueueInv'
<1> USE QueueAssumption DEF Goto, Labels, SendLabels, ReceiveLabels
<1>0. TypeOK /\ WaitersCounted /\ InRole  BY DEF QueueInv
<1>1. ASSUME SndPeek(t)  PROVE QueueInv'
  <2>1. TypeOK'  BY <1>0, <1>1 DEF TypeOK, SndPeek
  <2>2. WaitersCounted'
    BY <1>0, <1>1, Counts DEF TypeOK, SndPeek, Bit, FullLabels, EmptyLabels, Woke
  <2>3. InRole'  BY <1>0, <1>1 DEF TypeOK, InRole, SndPeek
  <2> QED  BY <2>1, <2>2, <2>3 DEF QueueInv
<1>2. ASSUME SndLocked(t)  PROVE QueueInv'
  <2>1. TypeOK'
    <3>1. val[t] \in Values /\ Append(q, val[t]) \in Seq(Values)
      BY <1>0, <1>2 DEF TypeOK, InRole, SndLocked
    <3>2. q' \in Seq(Values)  BY <1>0, <1>2, <3>1 DEF TypeOK, SndLocked
    <3>3. pc' \in [Threads -> Labels]  BY <1>0, <1>2 DEF TypeOK, SndLocked
    <3> QED  BY <1>0, <1>2, <3>2, <3>3 DEF TypeOK, SndLocked
  <2>2. WaitersCounted'
    BY <1>0, <1>2, Counts DEF TypeOK, SndLocked, Bit, FullLabels, EmptyLabels, Woke
  <2>3. InRole'  BY <1>0, <1>2 DEF TypeOK, InRole, SndLocked
  <2> QED  BY <2>1, <2>2, <2>3 DEF QueueInv
<1>3. ASSUME SndBkPut(t)  PROVE QueueInv'
  <2>1. TypeOK'  BY <1>0, <1>3 DEF TypeOK, InRole, SndBkPut
  <2>2. WaitersCounted'
    BY <1>0, <1>3, Counts DEF TypeOK, SndBkPut, Bit, FullLabels, EmptyLabels, Woke
  <2>3. InRole'  BY <1>0, <1>3 DEF TypeOK, InRole, SndBkPut
  <2> QED  BY <2>1, <2>2, <2>3 DEF QueueInv
<1>4. ASSUME SndBkWait(t)  PROVE QueueInv'
  <2>1. PICK f \in SignalEmpty(pc) : pc' = [f EXCEPT ![t] = "sndbk_wait"]  BY <1>4 DEF SndBkWait
  <2>2. /\ f \in [Threads -> Labels]
        /\ \A u \in Threads : Woke(pc[u], f[u])
    BY <1>0, <2>1, SignalEmptyWakes DEF TypeOK
  <2>3. \A u \in Threads \ {t} : Woke(pc[u], pc'[u])  BY <2>1, <2>2
  <2>4. pc' \in [Threads -> Labels] /\ pc'[t] = "sndbk_wait"  BY <2>1, <2>2
  <2>5. TypeOK'  BY <1>0, <1>4, <2>4 DEF TypeOK, SndBkWait
  <2>6. WaitersCounted'
    BY <1>0, <1>4, <2>3, <2>4, Counts DEF TypeOK, SndBkWait, Bit, FullLabels, EmptyLabels
  <2>7. InRole'  BY <1>0, <1>4, <2>3, <2>4 DEF TypeOK, InRole, SndBkWait, Woke
  <2> QED  BY <2>5, <2>6, <2>7 DEF QueueInv
<1>5. ASSUME SendSignal(t)  PROVE QueueInv'
  <2>1. PICK f \in SignalEmpty(pc) : pc' = [f EXCEPT ![t] = "idle"]  BY <1>5 DEF SendSignal
  <2>2. /\ f \in [Threads -> Labels]
        /\ \A u \in Threads : Woke(pc[u], f[u])
    BY <1>0, <2>1, SignalEmptyWakes DEF TypeOK
  <2>3. \A u \in Threads \ {t} : Woke(pc[u], pc'[u])  BY <2>1, <2>2
  <2>4. pc' \in [Threads -> Labels] /\ pc'[t] = "idle"  BY <2>1, <2>2
  <2>5. TypeOK'  BY <1>0, <1>5, <2>4 DEF TypeOK, SendSignal
  <2>6. WaitersCounted'
    BY <1>0, <1>5, <2>3, <2>4, Counts DEF TypeOK, SendSignal, Bit, FullLabels, EmptyLabels
  <2>7. InRole'  BY <1>0, <1>5, <2>3, <2>4 DEF TypeOK, InRole, SendSignal, Woke
  <2> QED  BY <2>5, <2>6, <2>7 DEF QueueInv
<1> QED  BY <1>1, <1>2, <1>3, <1>4, <1>5 DEF SendStep

\* The steps of a thread inside a receive operator.
LEMMA ReceiveInv ==
    ASSUME QueueInv, NEW t \in Threads, ReceiveStep(t)
    PROVE  QueueInv'
<1> USE QueueAssumption DEF Goto, Labels, SendLabels, ReceiveLabels
<1>0. TypeOK /\ WaitersCounted /\ InRole  BY DEF QueueInv
<1>1. ASSUME RcvPeek(t)  PROVE QueueInv'
  <2>1. TypeOK'  BY <1>0, <1>1 DEF TypeOK, RcvPeek
  <2>2. WaitersCounted'
    BY <1>0, <1>1, Counts DEF TypeOK, RcvPeek, Bit, FullLabels, EmptyLabels, Woke
  <2>3. InRole'  BY <1>0, <1>1 DEF TypeOK, InRole, RcvPeek
  <2> QED  BY <2>1, <2>2, <2>3 DEF QueueInv
<1>2. ASSUME RcvGet(t)  PROVE QueueInv'
  <2>1. TypeOK'  BY <1>0, <1>2 DEF TypeOK, RcvGet
  <2>2. WaitersCounted'
    BY <1>0, <1>2, Counts DEF TypeOK, RcvGet, Bit, FullLabels, EmptyLabels, Woke
  <2>3. InRole'  BY <1>0, <1>2 DEF TypeOK, InRole, RcvGet
  <2> QED  BY <2>1, <2>2, <2>3 DEF QueueInv
<1>3. ASSUME RcvLockedFail(t)  PROVE QueueInv'
  <2>1. TypeOK'  BY <1>0, <1>3 DEF TypeOK, RcvLockedFail
  <2>2. WaitersCounted'
    BY <1>0, <1>3, Counts DEF TypeOK, RcvLockedFail, Bit, FullLabels, EmptyLabels, Woke
  <2>3. InRole'  BY <1>0, <1>3 DEF TypeOK, InRole, RcvLockedFail
  <2> QED  BY <2>1, <2>2, <2>3 DEF QueueInv
<1>4. ASSUME RcvBkWait(t)  PROVE QueueInv'
  <2>1. PICK f \in SignalFull(pc) : pc' = [f EXCEPT ![t] = "rcvbk_wait"]  BY <1>4 DEF RcvBkWait
  <2>2. /\ f \in [Threads -> Labels]
        /\ \A u \in Threads : Woke(pc[u], f[u])
    BY <1>0, <2>1, SignalFullWakes DEF TypeOK
  <2>3. \A u \in Threads \ {t} : Woke(pc[u], pc'[u])  BY <2>1, <2>2
  <2>4. pc' \in [Threads -> Labels] /\ pc'[t] = "rcvbk_wait"  BY <2>1, <2>2
  <2>5. TypeOK'  BY <1>0, <1>4, <2>4 DEF TypeOK, RcvBkWait
  <2>6. WaitersCounted'
    BY <1>0, <1>4, <2>3, <2>4, Counts DEF TypeOK, RcvBkWait, Bit, FullLabels, EmptyLabels
  <2>7. InRole'  BY <1>0, <1>4, <2>3, <2>4 DEF TypeOK, InRole, RcvBkWait, Woke
  <2> QED  BY <2>5, <2>6, <2>7 DEF QueueInv
<1>5. ASSUME RcvTimedWait(t)  PROVE QueueInv'
  <2>1. TypeOK'  BY <1>0, <1>5 DEF TypeOK, RcvTimedWait
  <2>2. WaitersCounted'
    BY <1>0, <1>5, Counts DEF TypeOK, RcvTimedWait, Bit, FullLabels, EmptyLabels, Woke
  <2>3. InRole'  BY <1>0, <1>5 DEF TypeOK, InRole, RcvTimedWait
  <2> QED  BY <2>1, <2>2, <2>3 DEF QueueInv
<1>6. ASSUME RcvTimedFail(t)  PROVE QueueInv'
  <2>1. TypeOK'  BY <1>0, <1>6 DEF TypeOK, RcvTimedFail
  <2>2. WaitersCounted'
    BY <1>0, <1>6, Counts DEF TypeOK, RcvTimedFail, Bit, FullLabels, EmptyLabels, Woke
  <2>3. InRole'  BY <1>0, <1>6 DEF TypeOK, InRole, RcvTimedFail
  <2> QED  BY <2>1, <2>2, <2>3 DEF QueueInv
<1>7. ASSUME ReceiveSignal(t)  PROVE QueueInv'
  <2>1. PICK f : /\ f = pc \/ f \in SignalFull(pc)
                 /\ pc' = [f EXCEPT ![t] = "idle"]
    BY <1>7 DEF ReceiveSignal
  <2>2. /\ f \in [Threads -> Labels]
        /\ \A u \in Threads : Woke(pc[u], f[u])
    BY <1>0, <2>1, SignalFullWakes DEF TypeOK, Woke
  <2>3. \A u \in Threads \ {t} : Woke(pc[u], pc'[u])  BY <2>1, <2>2
  <2>4. pc' \in [Threads -> Labels] /\ pc'[t] = "idle"  BY <2>1, <2>2
  <2>5. TypeOK'  BY <1>0, <1>7, <2>4 DEF TypeOK, ReceiveSignal
  <2>6. WaitersCounted'
    BY <1>0, <1>7, <2>3, <2>4, Counts DEF TypeOK, ReceiveSignal, Bit, FullLabels, EmptyLabels
  <2>7. InRole'  BY <1>0, <1>7, <2>3, <2>4 DEF TypeOK, InRole, ReceiveSignal, Woke
  <2> QED  BY <2>5, <2>6, <2>7 DEF QueueInv
<1> QED  BY <1>1, <1>2, <1>3, <1>4, <1>5, <1>6, <1>7 DEF ReceiveStep

\* The steps that begin an operator or come from outside it.
LEMMA OtherInv ==
    ASSUME QueueInv, NEW t \in Threads,
           \/ t \in Senders /\ \E v \in Values : Send(t, v)
           \/ t \in Receivers /\ (Receive(t) \/ Timeout(t))
           \/ SpuriousWakeup(t)
           \/ \E x \in NewMax : SetMax(t, x)
    PROVE  QueueInv'
<1> USE QueueAssumption DEF Goto, Labels, SendLabels, ReceiveLabels
<1>0. TypeOK /\ WaitersCounted /\ InRole  BY DEF QueueInv
<1>1. ASSUME t \in Senders, NEW v \in Values, Send(t, v)  PROVE QueueInv'
  <2>1. TypeOK'  BY <1>0, <1>1 DEF TypeOK, Send
  <2>2. WaitersCounted'
    BY <1>0, <1>1, Counts DEF TypeOK, Send, Bit, FullLabels, EmptyLabels, Woke
  <2>3. InRole'  BY <1>0, <1>1 DEF TypeOK, InRole, Send
  <2> QED  BY <2>1, <2>2, <2>3 DEF QueueInv
<1>2. ASSUME t \in Receivers, Receive(t)  PROVE QueueInv'
  <2>1. TypeOK'  BY <1>0, <1>2 DEF TypeOK, Receive
  <2>2. WaitersCounted'
    BY <1>0, <1>2, Counts DEF TypeOK, Receive, Bit, FullLabels, EmptyLabels, Woke
  <2>3. InRole'  BY <1>0, <1>2 DEF TypeOK, InRole, Receive
  <2> QED  BY <2>1, <2>2, <2>3 DEF QueueInv
<1>3. ASSUME Timeout(t)  PROVE QueueInv'
  <2>1. TypeOK'  BY <1>0, <1>3 DEF TypeOK, Timeout
  <2>2. WaitersCounted'
    BY <1>0, <1>3, Counts DEF TypeOK, Timeout, Bit, FullLabels, EmptyLabels, Woke
  <2>3. InRole'  BY <1>0, <1>3 DEF TypeOK, InRole, Timeout
  <2> QED  BY <2>1, <2>2, <2>3 DEF QueueInv
<1>4. ASSUME SpuriousWakeup(t)  PROVE QueueInv'
  <2>1. TypeOK'  BY <1>0, <1>4 DEF TypeOK, SpuriousWakeup
  <2>2. WaitersCounted'
    BY <1>0, <1>4, Counts DEF TypeOK, SpuriousWakeup, Bit, FullLabels, EmptyLabels, Woke
  <2>3. InRole'  BY <1>0, <1>4 DEF TypeOK, InRole, SpuriousWakeup
  <2> QED  BY <2>1, <2>2, <2>3 DEF QueueInv
<1>5. ASSUME NEW x \in NewMax, SetMax(t, x)  PROVE QueueInv'
  <2>1. TypeOK'  BY <1>0, <1>5 DEF TypeOK, SetMax
  <2>2. WaitersCounted'  BY <1>0, <1>5 DEF WaitersCounted, SetMax, CountAt
  <2>3. InRole'  BY <1>0, <1>5 DEF InRole, SetMax
  <2> QED  BY <2>1, <2>2, <2>3 DEF QueueInv
<1> QED  BY <1>1, <1>2, <1>3, <1>4, <1>5

\* The initial state satisfies QueueInv.
LEMMA InitInv ==
    ASSUME Init
    PROVE  QueueInv
<1>1. TypeOK
  BY QueueAssumption DEF Init, TypeOK, Labels
<1>2. WaitersCounted
  <2>1. {t \in Threads : pc[t] \in FullLabels} = {}  BY DEF Init, FullLabels
  <2>2. {t \in Threads : pc[t] \in EmptyLabels} = {}  BY DEF Init, EmptyLabels
  <2> QED  BY <2>1, <2>2, FS_EmptySet DEF Init, WaitersCounted, CountAt
<1>3. InRole  BY DEF Init, InRole, SendLabels, ReceiveLabels
<1> QED  BY <1>1, <1>2, <1>3 DEF QueueInv

-----------------------------------------------------------------------------
(* Theorems *)

\* In every reachable state the variables have their types, full and empty are
\* the numbers of threads between the two changes of the counter that each wait
\* makes, and a thread that has yet to put holds its value.
THEOREM QueueInvariant == Spec => []QueueInv
<1>1. Init => QueueInv  BY InitInv
<1>2. QueueInv /\ [Next]_vars => QueueInv'
  <2>1. ASSUME QueueInv, UNCHANGED vars  PROVE QueueInv'
    BY <2>1 DEF vars, QueueInv, TypeOK, WaitersCounted, InRole, CountAt
  <2>2. ASSUME QueueInv, Next  PROVE QueueInv'
    BY <2>2, SendInv, ReceiveInv, OtherInv DEF Next, Threads
  <2> QED  BY <2>1, <2>2
<1> QED  BY <1>1, <1>2, PTL DEF Spec

-----------------------------------------------------------------------------
(* The senders and the receivers do not all wait *)

\* A sender that goes to wait while all receivers wait wakes one of them.
LEMMA SenderLeavesNoStandoff ==
    ASSUME QueueInv, NEW t \in Threads, SndBkWait(t)
    PROVE  NoStandoff'
<1> USE DEF Threads
<1>1. PICK f \in SignalEmpty(pc) : pc' = [f EXCEPT ![t] = "sndbk_wait"]
  BY DEF SndBkWait, Goto
<1>2. pc \in [Threads -> Labels]  BY DEF QueueInv, TypeOK
<1>3. pc[t] \in {"sndbk_lock", "sndbk_wake"}  BY DEF SndBkWait
<1>4. SUFFICES ASSUME Receivers # {}, \A u \in Receivers : pc'[u] = "rcvbk_wait"
               PROVE  FALSE
  BY DEF NoStandoff
<1>5. PICK r \in Receivers : TRUE  BY <1>4
<1>6. f \in [Threads -> Labels] /\ \A u \in Threads : Woke(pc[u], f[u])
  BY <1>1, <1>2, SignalEmptyWakes
<1>7. \A u \in Receivers : u # t /\ f[u] = "rcvbk_wait"  BY <1>1, <1>4, <1>6
<1>8. \A u \in Receivers : pc[u] = "rcvbk_wait"  BY <1>6, <1>7 DEF Woke
<1>9. empty # 0
  BY <1>5, <1>8, CountPositive DEF QueueInv, WaitersCounted, EmptyLabels
<1>10. PICK u \in Threads : /\ f[u] \in {"rcvbk_wake", "timed_wake"}
                            /\ pc[u] \in {"rcvbk_wait", "timed_wait"}
  BY <1>1, <1>2, <1>5, <1>8, <1>9, SignalEmptyWakes
<1>11. u \in Receivers
  BY <1>10 DEF QueueInv, InRole, ReceiveLabels
<1> QED  BY <1>7, <1>10, <1>11

\* A receiver that goes to wait while all senders wait wakes one of them.
LEMMA ReceiverLeavesNoStandoff ==
    ASSUME QueueInv, NEW t \in Threads, RcvBkWait(t)
    PROVE  NoStandoff'
<1> USE DEF Threads
<1>1. PICK f \in SignalFull(pc) : pc' = [f EXCEPT ![t] = "rcvbk_wait"]
  BY DEF RcvBkWait, Goto
<1>2. pc \in [Threads -> Labels]  BY DEF QueueInv, TypeOK
<1>3. SUFFICES ASSUME Senders # {}, \A u \in Senders : pc'[u] = "sndbk_wait"
               PROVE  FALSE
  BY DEF NoStandoff
<1>4. PICK s \in Senders : TRUE  BY <1>3
<1>5. f \in [Threads -> Labels] /\ \A u \in Threads : Woke(pc[u], f[u])
  BY <1>1, <1>2, SignalFullWakes
<1>6. \A u \in Senders : u # t /\ f[u] = "sndbk_wait"  BY <1>1, <1>3, <1>5
<1>7. \A u \in Senders : pc[u] = "sndbk_wait"  BY <1>5, <1>6 DEF Woke
<1>8. full # 0
  BY <1>4, <1>7, CountPositive DEF QueueInv, WaitersCounted, FullLabels
<1>9. PICK u \in Threads : f[u] = "sndbk_wake" /\ pc[u] = "sndbk_wait"
  BY <1>1, <1>2, <1>4, <1>7, <1>8, SignalFullWakes
<1>10. u \in Senders
  BY <1>9 DEF QueueInv, InRole, SendLabels
<1> QED  BY <1>6, <1>9, <1>10

\* Every other step lets no thread begin to wait for good.
Waits == {"sndbk_wait", "rcvbk_wait"}

LEMMA OthersBeginNoWait ==
    ASSUME QueueInv, Next,
           \A t \in Threads : ~ SndBkWait(t) /\ ~ RcvBkWait(t)
    PROVE  \A u \in Threads : pc'[u] \in Waits => pc'[u] = pc[u]
<1> USE DEF Goto, Waits, Labels, SendLabels, ReceiveLabels
<1>0. pc \in [Threads -> Labels]  BY DEF QueueInv, TypeOK
<1>1. ASSUME NEW t \in Threads, \E l \in Labels \ Waits : Goto(t, l)
      PROVE  \A u \in Threads : pc'[u] \in Waits => pc'[u] = pc[u]
  BY <1>0, <1>1
<1>2. ASSUME NEW t \in Threads, NEW f \in SignalEmpty(pc) \cup SignalFull(pc),
             pc' = [f EXCEPT ![t] = "idle"]
      PROVE  \A u \in Threads : pc'[u] \in Waits => pc'[u] = pc[u]
  <2>1. f \in [Threads -> Labels] /\ \A u \in Threads : Woke(pc[u], f[u])
    BY <1>0, SignalEmptyWakes, SignalFullWakes
  <2> QED  BY <1>2, <2>1 DEF Woke
<1>3. ASSUME NEW t \in Threads, SendStep(t)
      PROVE  \A u \in Threads : pc'[u] \in Waits => pc'[u] = pc[u]
  <2>1. CASE SendSignal(t)  BY <1>2, <2>1 DEF SendSignal
  <2>2. CASE SndPeek(t) \/ SndLocked(t) \/ SndBkPut(t)
    BY <1>1, <2>2 DEF SndPeek, SndLocked, SndBkPut
  <2> QED  BY <1>3, <2>1, <2>2 DEF SendStep
<1>4. ASSUME NEW t \in Threads, ReceiveStep(t)
      PROVE  \A u \in Threads : pc'[u] \in Waits => pc'[u] = pc[u]
  <2>1. CASE ReceiveSignal(t)  BY <1>1, <1>2, <2>1 DEF ReceiveSignal
  <2>2. CASE RcvPeek(t) \/ RcvGet(t) \/ RcvLockedFail(t) \/ RcvTimedWait(t) \/ RcvTimedFail(t)
    BY <1>1, <2>2 DEF RcvPeek, RcvGet, RcvLockedFail, RcvTimedWait, RcvTimedFail
  <2> QED  BY <1>4, <2>1, <2>2 DEF ReceiveStep
<1>5. ASSUME NEW t \in Threads,
             \/ \E v \in Values : Send(t, v)
             \/ Receive(t) \/ Timeout(t) \/ SpuriousWakeup(t)
      PROVE  \A u \in Threads : pc'[u] \in Waits => pc'[u] = pc[u]
  <2>1. CASE \E v \in Values : Send(t, v)  BY <1>1, <2>1 DEF Send
  <2>2. CASE Receive(t) \/ Timeout(t)  BY <1>1, <2>2 DEF Receive, Timeout
  <2>3. CASE SpuriousWakeup(t)  BY <1>1, <2>3 DEF SpuriousWakeup
  <2> QED  BY <1>5, <2>1, <2>2, <2>3
<1>6. ASSUME NEW t \in Threads, \E x \in NewMax : SetMax(t, x)
      PROVE  \A u \in Threads : pc'[u] \in Waits => pc'[u] = pc[u]
  BY <1>6 DEF SetMax
<1> QED  BY <1>3, <1>4, <1>5, <1>6 DEF Next, Threads

\* In no reachable state do all senders wait for room while all receivers wait
\* for a value.
THEOREM StandoffNever == Spec => []NoStandoff
<1>1. Init => NoStandoff  BY DEF Init, NoStandoff, Threads
<1>2. QueueInv /\ NoStandoff /\ [Next]_vars => NoStandoff'
  <2>1. ASSUME NoStandoff, UNCHANGED vars  PROVE NoStandoff'
    BY <2>1 DEF vars, NoStandoff
  <2>2. ASSUME QueueInv, NoStandoff, Next,
               \A t \in Threads : ~ SndBkWait(t) /\ ~ RcvBkWait(t)
        PROVE  NoStandoff'
    <3>1. \A u \in Threads : pc'[u] \in Waits => pc'[u] = pc[u]
      BY <2>2, OthersBeginNoWait
    <3> QED  BY <2>2, <3>1 DEF NoStandoff, Waits, Threads
  <2>3. ASSUME QueueInv, NEW t \in Threads, SndBkWait(t) \/ RcvBkWait(t)
        PROVE  NoStandoff'
    BY <2>3, SenderLeavesNoStandoff, ReceiverLeavesNoStandoff
  <2> QED  BY <2>1, <2>2, <2>3
<1> QED  BY <1>1, <1>2, QueueInvariant, PTL DEF Spec

-----------------------------------------------------------------------------
(* The queue is a bounded channel *)

\* Every step puts one value within the limit, takes the first value, sets the
\* limit, or leaves the channel alone.
LEMMA ChannelStep ==
    ASSUME QueueInv, Next
    PROVE  Channel!Next \/ UNCHANGED Channel!vars
<1> USE DEF Channel!Next, Channel!vars, Channel!Put, Channel!Get, Channel!SetMax
<1>1. ASSUME NEW t \in Threads, SndLocked(t) \/ SndBkPut(t)
      PROVE  Channel!Next \/ UNCHANGED Channel!vars
  <2>1. max \in Int /\ Len(q) \in Nat /\ max' = max
    BY <1>1, LenProperties DEF QueueInv, TypeOK, SndLocked, SndBkPut
  <2>2. val[t] \in Values  BY <1>1 DEF QueueInv, InRole, SendLabels, SndLocked, SndBkPut
  <2>3. q' = q \/ (Len(q) < max /\ q' = Append(q, val[t]))
    BY <1>1, <2>1 DEF SndLocked, SndBkPut
  <2> QED  BY <2>1, <2>2, <2>3
<1>2. ASSUME NEW t \in Threads, RcvGet(t)
      PROVE  Channel!Next
  BY <1>2 DEF RcvGet
<1>3. ASSUME NEW t \in Threads, NEW x \in NewMax, SetMax(t, x)
      PROVE  Channel!Next
  BY <1>3, QueueAssumption DEF SetMax
<1>4. ASSUME NEW t \in Threads,
             \/ SndPeek(t) \/ SndBkWait(t) \/ SendSignal(t) \/ \E v \in Values : Send(t, v)
             \/ RcvPeek(t) \/ RcvLockedFail(t) \/ RcvBkWait(t) \/ RcvTimedWait(t)
             \/ RcvTimedFail(t) \/ ReceiveSignal(t) \/ Receive(t) \/ Timeout(t)
             \/ SpuriousWakeup(t)
      PROVE  UNCHANGED Channel!vars
  BY <1>4 DEF SndPeek, SndBkWait, SendSignal, Send, RcvPeek, RcvLockedFail, RcvBkWait,
     RcvTimedWait, RcvTimedFail, ReceiveSignal, Receive, Timeout, SpuriousWakeup
<1> QED  BY <1>1, <1>2, <1>3, <1>4 DEF Next, SendStep, ReceiveStep, Threads

\* The queue implements the channel: no value is lost, put twice, put beyond
\* the limit or taken out of order, whatever threads use it and however their
\* unlocked looks at the size are overtaken.
THEOREM QueueIsChannel == Spec => ImplementsChannel
<1>1. Init => Channel!Init  BY QueueAssumption DEF Init, Channel!Init
<1>2. QueueInv /\ [Next]_vars => [Channel!Next]_(Channel!vars)
  BY ChannelStep DEF vars, Channel!vars
<1> QED  BY <1>1, <1>2, QueueInvariant, PTL DEF Spec, ImplementsChannel, Channel!Spec
=============================================================================
