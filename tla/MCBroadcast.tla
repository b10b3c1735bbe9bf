----------------------------- MODULE MCBroadcast -----------------------------
(* A broadcast to everyone, to a room, and to a room without its sender s1. *)
EXTENDS Broadcast

CONSTANTS s1, s2, room

TwoSockets == {s1, s2}
OneRoom == {room}
SomeOperators == {[rooms |-> {}, except |-> {}], [rooms |-> {room}, except |-> {s1}]}

=============================================================================
