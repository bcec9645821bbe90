------------------------------- MODULE LossyFifo ------------------------------
(***************************************************************************)
(* What a caller of the lifecycle emitter may rely on: a bounded queue of  *)
(* numbered events that leave in the order they came, each acknowledged at *)
(* most once and in order, or lost.  No drainer, no retries, no network.   *)
(***************************************************************************)
EXTENDS Naturals, Sequences

CONSTANT Cap    \* events the queue holds

VARIABLES
    pending,    \* the events waiting, oldest first
    accepted,   \* events handed in so far; the n-th is event n
    delivered   \* the events known to have reached the backend

fifo == <<pending, accepted, delivered>>

Init == pending = <<>> /\ accepted = 0 /\ delivered = {}

\* A full queue loses its oldest event.
Put ==
    /\ accepted' = accepted + 1
    /\ pending' = Append(IF Len(pending) >= Cap THEN Tail(pending) ELSE pending,
                         accepted + 1)
    /\ UNCHANGED delivered

\* The oldest event is lost.
Lose ==
    /\ pending # <<>>
    /\ pending' = Tail(pending)
    /\ UNCHANGED <<accepted, delivered>>

\* Event e, the oldest one or one lost to a full queue since its call began, is
\* acknowledged, and the oldest one leaves.
Deliver(e) ==
    /\ pending # <<>> /\ e <= Head(pending)
    /\ \A d \in delivered : d < e
    /\ delivered' = delivered \cup {e}
    /\ pending' = Tail(pending)
    /\ UNCHANGED accepted

\* The process ends, maybe on a last event, and the queue is gone.
Vanish ==
    /\ pending' = <<>>
    /\ accepted' \in {accepted, accepted + 1}
    /\ UNCHANGED delivered

Next == Put \/ Lose \/ Vanish \/ \E e \in 1..accepted : Deliver(e)

Spec == Init /\ [][Next]_fifo
=============================================================================
