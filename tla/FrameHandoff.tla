---------------------------- MODULE FrameHandoff ----------------------------
(***************************************************************************)
(* What the client's frame exchange promises: a buffer is handed to every  *)
(* worker, each processes it once, and only then is it withdrawn and the   *)
(* next one handed over.                                                   *)
(***************************************************************************)
CONSTANTS Workers, Buffers, NoBuffer

VARIABLES current,    \* the buffer on offer, or NoBuffer
          pending     \* the workers that have not processed it yet

vars == <<current, pending>>

Init == current = NoBuffer /\ pending = {}

Offer(b) == /\ current = NoBuffer
            /\ current' = b
            /\ pending' = Workers

Process(w) == /\ w \in pending
              /\ pending' = pending \ {w}
              /\ UNCHANGED current

Withdraw == /\ current # NoBuffer
            /\ pending = {}
            /\ current' = NoBuffer
            /\ UNCHANGED pending

Next == \/ \E b \in Buffers : Offer(b)
        \/ \E w \in Workers : Process(w)
        \/ Withdraw

Spec == Init /\ [][Next]_vars
=============================================================================
