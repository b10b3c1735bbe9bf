----------------------------- MODULE FifoStream -----------------------------
(***************************************************************************)
(* What every way of delivering to one socket promises (decision 0010): the *)
(* n-th message sent is the n-th delivered, once, and every message arrives. *)
(***************************************************************************)
EXTENDS Naturals

CONSTANT MaxSends                  \* bound: messages sent

VARIABLES sent, delivered          \* how many were; messages are numbered

vars == <<sent, delivered>>

Init == sent = 0 /\ delivered = 0

Send == sent < MaxSends /\ sent' = sent + 1 /\ UNCHANGED delivered

Deliver == delivered < sent /\ delivered' = delivered + 1 /\ UNCHANGED sent

Next == Send \/ Deliver

Spec == Init /\ [][Next]_vars
FairSpec == Spec /\ WF_vars(Deliver)

=============================================================================
