---------------------------- MODULE StopChannel ----------------------------
(***************************************************************************)
(* What both thread-safe queues of server_pc promise their users: a FIFO   *)
(* channel of bounded capacity that can be closed.  Closing it refuses new *)
(* values but keeps the ones already accepted, so that the consumer can    *)
(* drain them; a closed channel may be thrown away with what it holds.     *)
(***************************************************************************)
EXTENDS Naturals, Sequences

CONSTANTS Values,     \* what travels through the channel
          Bound       \* how many values it holds at most

VARIABLES chan,       \* accepted and not yet received, oldest first
          closed      \* Stop was called

vars == <<chan, closed>>

Init == /\ chan = <<>>
        /\ closed = FALSE

\* Push returned 1: the channel was open and had room.
Send(v) == /\ ~closed
           /\ Len(chan) < Bound
           /\ chan' = Append(chan, v)
           /\ UNCHANGED closed

\* Pop returned 1: the oldest value leaves, also after the close.
Receive == /\ chan # <<>>
           /\ chan' = Tail(chan)
           /\ UNCHANGED closed

Close == /\ closed' = TRUE
         /\ UNCHANGED chan

\* Destroy: only a closed channel is thrown away.
Discard == /\ closed
           /\ chan' = <<>>
           /\ UNCHANGED closed

Next == \/ \E v \in Values : Send(v)
        \/ Receive
        \/ Close
        \/ Discard

Spec == Init /\ [][Next]_vars
=============================================================================
