---------------------------- MODULE BoundedQueue ----------------------------
(***************************************************************************)
(* A first-in, first-out queue of at most N values: what the ring buffer   *)
(* of pa3.c (190-280) is to its users.                                     *)
(***************************************************************************)
EXTENDS Integers, Sequences

CONSTANTS N, Values, NoValue

VARIABLES
    buf,    \* the values in the queue, oldest first
    last    \* the value taken last

vars == <<buf, last>>

Init == buf = <<>> /\ last = NoValue

Put(v) ==
    /\ Len(buf) < N
    /\ buf' = Append(buf, v)
    /\ last' = last

Get ==
    /\ buf # <<>>
    /\ last' = Head(buf)
    /\ buf' = Tail(buf)

Next == (\E v \in Values : Put(v)) \/ Get

Spec == Init /\ [][Next]_vars
=============================================================================
