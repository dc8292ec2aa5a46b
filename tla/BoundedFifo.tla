---------------------------- MODULE BoundedFifo ----------------------------
(***************************************************************************)
(* What every specialisation of Mashiro's RingBuffer promises its users:   *)
(* a queue of at most Capacity values, handed out in the order they were   *)
(* put in, each of them once.  `queue' holds the values that are in the    *)
(* ring, `handed' the value that left it last.                             *)
(***************************************************************************)
EXTENDS Naturals, Sequences

CONSTANTS Capacity,  \* the template parameter of RingBuffer
          Values     \* the payloads of type T

VARIABLES queue, handed

vars == <<queue, handed>>

Init == queue = << >> /\ handed = << >>

(* A push that succeeds. *)
Enqueue(v) ==
    /\ Len(queue) < Capacity
    /\ queue' = Append(queue, v)
    /\ UNCHANGED handed

(* A pop that succeeds; a drain is a run of these. *)
Dequeue ==
    /\ queue # << >>
    /\ handed' = <<Head(queue)>>
    /\ queue' = Tail(queue)

Next == Dequeue \/ \E v \in Values : Enqueue(v)

Spec == Init /\ [][Next]_vars
=============================================================================
