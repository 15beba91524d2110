--------------------------- MODULE BoundedChannel ---------------------------
(***************************************************************************)
(* What a message queue of Unicon promises to the threads that share it: a *)
(* first-in first-out channel with a limit.  A value enters at the tail    *)
(* while the channel holds fewer than max values and leaves at the head;   *)
(* nothing else changes the contents.  The limit itself may be set.        *)
(***************************************************************************)
EXTENDS Integers, Sequences

CONSTANT Values

VARIABLES chan, max

vars == <<chan, max>>

Init == chan = <<>> /\ max \in Int

Put(v) == Len(chan) < max /\ chan' = Append(chan, v) /\ UNCHANGED max

Get == chan # <<>> /\ chan' = Tail(chan) /\ UNCHANGED max

SetMax == max' \in Int /\ UNCHANGED chan

Next == (\E v \in Values : Put(v)) \/ Get \/ SetMax

Spec == Init /\ [][Next]_vars
=============================================================================
