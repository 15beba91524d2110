---------------------------- MODULE MessageQueue ----------------------------
(***************************************************************************)
(* A shared list used as a message queue by the operators of               *)
(* runtime/lmisc.r: x@>y (snd), x@>>y (sndbk), x<@y (rcv) and x<<@y        *)
(* (rcvbk).  The inbox and the outbox of a thread and any shared list are  *)
(* such queues; activate(), msg_send() and msg_receive() run the same code *)
(* on them.                                                                *)
(*                                                                         *)
(* The list has a mutex, the condition variables cvfull and cvempty, the   *)
(* numbers full and empty of threads that wait on them, and the limit max. *)
(* A signal is sent after the mutex is unlocked and only when the counter, *)
(* read without the mutex, is not zero.  Everything a thread does with the *)
(* mutex locked is one step; what it does before locking or after          *)
(* unlocking is a step of its own.  The DEC_NARTHREADS and                 *)
(* INC_NARTHREADS_CONTROLLED around a wait belong to ThreadControl.        *)
(***************************************************************************)
EXTENDS Integers, Sequences, FiniteSets

CONSTANTS
    Senders,     \* threads that send
    Receivers,   \* threads that receive
    Values,      \* what is sent
    Sends,       \* the values that the program of each sender sends
    InitMax,     \* the limit the queue starts with (1024 in CV_INITBLK)
    NewMax,      \* the arguments x # 0 of the "set" form of x<@y
    SpuriousWakeups,  \* TRUE iff a wait may return without a signal
    NoValue      \* a thread that is not sending

ASSUME QueueAssumption ==
    /\ IsFiniteSet(Senders) /\ IsFiniteSet(Receivers)
    /\ Sends \in [Senders -> SUBSET Values]
    /\ InitMax \in Nat \ {0}
    /\ NewMax \subseteq Int \ {0}
    /\ SpuriousWakeups \in BOOLEAN
    /\ NoValue \notin Values

VARIABLES
    q,        \* the elements of the list
    max,      \* hp->max
    full,     \* hp->full, senders that wait for room
    empty,    \* hp->empty, receivers that wait for a value
    val,      \* the value each sender sends
    pc        \* where each thread is; the "..wait" labels are the waiters

vars == <<q, max, full, empty, val, pc>>

Threads == Senders \cup Receivers

SendLabels ==
    {"snd", "snd_lock", "sndbk_lock", "sndbk_wait", "sndbk_wake", "sent", "snd_fail"}

ReceiveLabels ==
    {"rcv", "rcv_lock", "rcvbk_lock", "rcvbk_wait", "rcvbk_wake",
     "timed_lock", "timed_wait", "timed_wake", "timed_out",
     "received", "rcv_fail", "timed_fail"}

Labels == {"idle"} \cup SendLabels \cup ReceiveLabels

Init ==
    /\ q = <<>>
    /\ max = InitMax
    /\ full = 0
    /\ empty = 0
    /\ val = [t \in Threads |-> NoValue]
    /\ pc = [t \in Threads |-> "idle"]

\* A signal wakes one waiter, if there is one.
Woken(f, waiting, woken) ==
    IF \E u \in Threads : f[u] \in waiting
      THEN {[f EXCEPT ![u] = woken[f[u]]] : u \in {v \in Threads : f[v] \in waiting}}
      ELSE {f}

\* CV_SIGNAL_EMPTYBLK: a receiver is woken if empty is not zero.
SignalEmpty(f) ==
    IF empty = 0 THEN {f}
    ELSE Woken(f, {"rcvbk_wait", "timed_wait"},
               [l \in {"rcvbk_wait", "timed_wait"} |->
                  IF l = "rcvbk_wait" THEN "rcvbk_wake" ELSE "timed_wake"])

\* CV_SIGNAL_FULLBLK: a sender is woken if full is not zero.
SignalFull(f) ==
    IF full = 0 THEN {f}
    ELSE Woken(f, {"sndbk_wait"}, [l \in {"sndbk_wait"} |-> "sndbk_wake"])

Goto(t, l) == pc' = [pc EXCEPT ![t] = l]

\* The limit under which a receiver tells the senders that there is room.
\* The division of C truncates: a negative limit goes up.
LowWater == IF max >= 0 THEN max \div 50 + 1 ELSE 1 - (-max) \div 50

-----------------------------------------------------------------------------
(* Sending *)

\* x@>y begins; x@>>y begins.
Send(t, v) ==
    /\ pc[t] = "idle"
    /\ v \in Sends[t]
    /\ val' = [val EXCEPT ![t] = v]
    /\ Goto(t, "snd") \/ Goto(t, "sndbk_lock")
    /\ UNCHANGED <<q, max, full, empty>>

\* snd() looks at the size without the mutex: it signals and fails when full.
SndPeek(t) ==
    /\ pc[t] = "snd"
    /\ Goto(t, IF Len(q) >= max THEN "snd_fail" ELSE "snd_lock")
    /\ UNCHANGED <<q, max, full, empty, val>>

\* Mutant: snd() trusts the size it read without the mutex.
SndLockedUnchecked(t) ==
    /\ pc[t] = "snd_lock"
    /\ Goto(t, "sent") /\ q' = Append(q, val[t])
    /\ UNCHANGED <<max, full, empty, val>>

\* With the mutex locked snd() looks again, and puts the value.
SndLocked(t) ==
    /\ pc[t] = "snd_lock"
    /\ IF Len(q) >= max THEN Goto(t, "snd_fail") /\ UNCHANGED q
                        ELSE Goto(t, "sent") /\ q' = Append(q, val[t])
    /\ UNCHANGED <<max, full, empty, val>>

\* sndbk() finds room and puts the value, ...
SndBkPut(t) ==
    /\ pc[t] \in {"sndbk_lock", "sndbk_wake"}
    /\ Len(q) < max
    /\ q' = Append(q, val[t])
    /\ full' = IF pc[t] = "sndbk_wake" THEN full - 1 ELSE full
    /\ Goto(t, "sent")
    /\ UNCHANGED <<max, empty, val>>

\* ... or counts itself, signals the receivers and waits on cvfull, and does
\* so again when it is woken and finds no room.
SndBkWait(t) ==
    /\ pc[t] \in {"sndbk_lock", "sndbk_wake"}
    /\ Len(q) >= max
    /\ full' = IF pc[t] = "sndbk_lock" THEN full + 1 ELSE full
    /\ \E f \in SignalEmpty(pc) : pc' = [f EXCEPT ![t] = "sndbk_wait"]
    /\ UNCHANGED <<q, max, empty, val>>

\* Mutant: the operator ends without CV_SIGNAL_EMPTYBLK.
SendSignalMissing(t) ==
    /\ pc[t] \in {"sent", "snd_fail"}
    /\ Goto(t, "idle")
    /\ val' = [val EXCEPT ![t] = NoValue]
    /\ UNCHANGED <<q, max, full, empty>>

\* CV_SIGNAL_EMPTYBLK after the mutex is unlocked, and the end of the operator.
SendSignal(t) ==
    /\ pc[t] \in {"sent", "snd_fail"}
    /\ \E f \in SignalEmpty(pc) : pc' = [f EXCEPT ![t] = "idle"]
    /\ val' = [val EXCEPT ![t] = NoValue]
    /\ UNCHANGED <<q, max, full, empty>>

-----------------------------------------------------------------------------
(* Receiving *)

\* x<@y, and x<<@y with a zero timeout, begin; x<<@y without a timeout begins;
\* x<<@y with a timeout begins.
Receive(t) ==
    /\ pc[t] = "idle"
    /\ Goto(t, "rcv") \/ Goto(t, "rcvbk_lock") \/ Goto(t, "timed_lock")
    /\ UNCHANGED <<q, max, full, empty, val>>

\* rcv() looks at the size without the mutex: it signals and fails when empty.
RcvPeek(t) ==
    /\ pc[t] = "rcv"
    /\ Goto(t, IF q = <<>> THEN "rcv_fail" ELSE "rcv_lock")
    /\ UNCHANGED <<q, max, full, empty, val>>

\* With the mutex locked: there is a value, and it is taken.  A receiver that
\* was waiting takes itself out of empty.
RcvGet(t) ==
    /\ pc[t] \in {"rcv_lock", "rcvbk_lock", "rcvbk_wake", "timed_lock", "timed_wake", "timed_out"}
    /\ q # <<>>
    /\ q' = Tail(q)
    /\ empty' = IF pc[t] \in {"rcvbk_wake", "timed_wake", "timed_out"} THEN empty - 1 ELSE empty
    /\ Goto(t, "received")
    /\ UNCHANGED <<max, full, val>>

\* rcv() finds no value after all.
RcvLockedFail(t) ==
    /\ pc[t] = "rcv_lock"
    /\ q = <<>>
    /\ Goto(t, "rcv_fail")
    /\ UNCHANGED <<q, max, full, empty, val>>

\* Mutant: the wait of rcvbk() is not counted in empty.
RcvBkWaitUncounted(t) ==
    /\ pc[t] \in {"rcvbk_lock", "rcvbk_wake"}
    /\ q = <<>>
    /\ \E f \in SignalFull(pc) : pc' = [f EXCEPT ![t] = "rcvbk_wait"]
    /\ UNCHANGED <<q, max, full, empty, val>>

\* rcvbk() without a timeout: count, signal the senders and wait on cvempty,
\* again and again.
RcvBkWait(t) ==
    /\ pc[t] \in {"rcvbk_lock", "rcvbk_wake"}
    /\ q = <<>>
    /\ empty' = IF pc[t] = "rcvbk_lock" THEN empty + 1 ELSE empty
    /\ \E f \in SignalFull(pc) : pc' = [f EXCEPT ![t] = "rcvbk_wait"]
    /\ UNCHANGED <<q, max, full, val>>

\* rcvbk() with a timeout: count and wait once, without a signal.
RcvTimedWait(t) ==
    /\ pc[t] = "timed_lock"
    /\ q = <<>>
    /\ empty' = empty + 1
    /\ Goto(t, "timed_wait")
    /\ UNCHANGED <<q, max, full, val>>

\* The time given to pthread_cond_timedwait() is over.
Timeout(t) ==
    /\ pc[t] = "timed_wait"
    /\ Goto(t, "timed_out")
    /\ UNCHANGED <<q, max, full, empty, val>>

\* Mutant: the failing path after the timeout forgets empty--.
RcvTimedFailCounted(t) ==
    /\ pc[t] \in {"timed_wake", "timed_out"}
    /\ q = <<>>
    /\ Goto(t, "timed_fail")
    /\ UNCHANGED <<q, max, full, empty, val>>

\* rcvbk() with a timeout is back from its only wait, and there is no value.
RcvTimedFail(t) ==
    /\ pc[t] \in {"timed_wake", "timed_out"}
    /\ q = <<>>
    /\ empty' = empty - 1
    /\ Goto(t, "timed_fail")
    /\ UNCHANGED <<q, max, full, val>>

\* Mutant: a receiver never signals the senders after it unlocks.
ReceiveSignalMissing(t) ==
    /\ pc[t] \in {"received", "rcv_fail", "timed_fail"}
    /\ Goto(t, "idle")
    /\ UNCHANGED <<q, max, full, empty, val>>

\* After the mutex is unlocked: CV_SIGNAL_FULLBLK when the value taken leaves
\* few enough, by a size read without the mutex; always after a failure.
ReceiveSignal(t) ==
    /\ \/ /\ pc[t] = "received" /\ Len(q) > LowWater
          /\ Goto(t, "idle")
       \/ /\ \/ pc[t] = "received" /\ Len(q) <= LowWater
             \/ pc[t] \in {"rcv_fail", "timed_fail"}
          /\ \E f \in SignalFull(pc) : pc' = [f EXCEPT ![t] = "idle"]
    /\ UNCHANGED <<q, max, full, empty, val>>

\* The "set" form of x<@y: on a list the limit becomes x, whatever its sign;
\* no mutex is locked.
SetMax(t, x) ==
    /\ pc[t] = "idle"
    /\ max' = x
    /\ UNCHANGED <<q, full, empty, val, pc>>

\* A wait that ends without a signal: POSIX allows it, and coclean() of a
\* thread that ends signals the waiters of its boxes.
SpuriousWakeup(t) ==
    /\ SpuriousWakeups
    /\ \/ pc[t] = "sndbk_wait" /\ Goto(t, "sndbk_wake")
       \/ pc[t] = "rcvbk_wait" /\ Goto(t, "rcvbk_wake")
       \/ pc[t] = "timed_wait" /\ Goto(t, "timed_wake")
    /\ UNCHANGED <<q, max, full, empty, val>>

-----------------------------------------------------------------------------

SendStep(t) == SndPeek(t) \/ SndLocked(t) \/ SndBkPut(t) \/ SndBkWait(t) \/ SendSignal(t)

ReceiveStep(t) ==
    \/ RcvPeek(t) \/ RcvGet(t) \/ RcvLockedFail(t) \/ RcvBkWait(t)
    \/ RcvTimedWait(t) \/ RcvTimedFail(t) \/ ReceiveSignal(t)

Next ==
    \/ \E t \in Senders : SendStep(t) \/ \E v \in Values : Send(t, v)
    \/ \E t \in Receivers : ReceiveStep(t) \/ Receive(t) \/ Timeout(t)
    \/ \E t \in Threads : SpuriousWakeup(t) \/ \E x \in NewMax : SetMax(t, x)

Spec == Init /\ [][Next]_vars

\* A thread inside an operator goes on when it can; nobody is obliged to begin
\* one.  A mutex is held for one step, so weak fairness is enough.
FairSpec ==
    /\ Spec
    /\ \A t \in Senders : WF_vars(SendStep(t))
    /\ \A t \in Receivers : WF_vars(ReceiveStep(t)) /\ WF_vars(Timeout(t))

-----------------------------------------------------------------------------
(* Properties *)

CountAt(f, L) == Cardinality({t \in Threads : f[t] \in L})

\* Threads between the full++ (empty++) before their wait and the full--
\* (empty--) after it.
FullLabels == {"sndbk_wait", "sndbk_wake"}
EmptyLabels == {"rcvbk_wait", "rcvbk_wake", "timed_wait", "timed_wake", "timed_out"}

\* Every variable has its type, and only a sender inside an operator has a value.
TypeOK ==
    /\ q \in Seq(Values)
    /\ max \in Int
    /\ full \in Int
    /\ empty \in Int
    /\ val \in [Threads -> Values \cup {NoValue}]
    /\ pc \in [Threads -> Labels]

\* The counters that decide whether a signal is sent are the numbers of threads
\* that wait on cvfull and on cvempty, or were woken and have not looked yet:
\* no path through the wait loops, the timeout and the failures forgets one.
WaitersCounted ==
    /\ full = CountAt(pc, FullLabels)
    /\ empty = CountAt(pc, EmptyLabels)

\* A thread that has yet to put is a sender and holds the value it was given; a
\* thread inside a receive is a receiver.
InRole ==
    \A t \in Threads :
        /\ pc[t] \in SendLabels => t \in Senders
        /\ pc[t] \in ReceiveLabels => t \in Receivers
        /\ pc[t] \in SendLabels \ {"sent", "snd_fail"} => val[t] \in Values

\* The inductive invariant behind WaitersCounted, NoStandoff and the refinement.
QueueInv == TypeOK /\ WaitersCounted /\ InRole

\* The queue behaves as a bounded channel: a value is put at most once, never
\* beyond the limit (although snd() first looks without the mutex), and is
\* taken in order by one receiver only.
Channel == INSTANCE BoundedChannel WITH chan <- q
ImplementsChannel == Channel!Spec

\* The senders do not all wait for room while the receivers all wait for values:
\* the signals cross between unlock and signal, and are still enough.
NoStandoff ==
    ~ /\ Senders # {} /\ \A t \in Senders : pc[t] = "sndbk_wait"
      /\ Receivers # {} /\ \A t \in Receivers : pc[t] = "rcvbk_wait"

\* x<<@y "waits for a value to become available": a receiver does not go on
\* waiting beside a value that stays in the queue.
ReceiverServed ==
    \A t \in Receivers :
        (pc[t] = "rcvbk_wait" /\ q # <<>>) ~> (pc[t] # "rcvbk_wait" \/ q = <<>>)

\* A sender does not go on waiting beside a queue that stays drained to the
\* low-water mark with room in it, although the size that decides on the signal
\* is read after the unlock and several senders may wait for one signal.
DrainedServes ==
    \A t \in Senders :
        (pc[t] = "sndbk_wait" /\ Len(q) <= LowWater /\ Len(q) < max)
            ~> (pc[t] # "sndbk_wait" \/ Len(q) > LowWater \/ Len(q) >= max)

\* x@>>y will "wait until it can send": a sender does not go on waiting beside
\* any room that stays free.  No run checks it: TLC refutes it from a limit of
\* three, where there is room above the low-water mark (README, section 6).
SenderServed ==
    \A t \in Senders :
        (pc[t] = "sndbk_wait" /\ Len(q) < max) ~> (pc[t] # "sndbk_wait" \/ Len(q) >= max)

=============================================================================
