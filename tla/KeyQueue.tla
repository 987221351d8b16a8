------------------------------ MODULE KeyQueue ------------------------------
(***************************************************************************)
(* What the keyboard driver promises its readers: a bounded first-in       *)
(* first-out queue of key events.  An event that arrives when the queue    *)
(* holds Capacity others is dropped; every other event is delivered once,  *)
(* unchanged and in order.                                                 *)
(*                                                                         *)
(* parity makes every arrival visible: an event that is dropped changes it *)
(* too, so dropping one while there is room is no step of this queue.      *)
(***************************************************************************)
EXTENDS Naturals, Sequences

CONSTANTS Capacity, Event, NoEvent

VARIABLES
    q,             \* the events waiting
    last,          \* the event the reader was given last
    parity         \* how many events have arrived, modulo 2

Init == q = <<>> /\ last = NoEvent /\ parity = 0

Put(e) ==
    /\ parity' = 1 - parity
    /\ q' = IF Len(q) < Capacity THEN Append(q, e) ELSE q
    /\ UNCHANGED last

Get ==
    /\ q # <<>>
    /\ last' = Head(q)
    /\ q' = Tail(q)
    /\ UNCHANGED parity

Next == Get \/ \E e \in Event : Put(e)

Spec == Init /\ [][Next]_<<q, last, parity>>
=============================================================================
