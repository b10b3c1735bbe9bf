--------------------------- MODULE PacketPipeline ---------------------------
(***************************************************************************)
(* What a server Socket promises about the packets of its client (decisions*)
(* 0010 and 0034): they are taken in the order they were sent and none is  *)
(* passed over; from then on each is on its own, and reaches its named     *)
(* listeners at most once for each time its middleware let it pass.  When  *)
(* the client leaves from inside a listener of the Socket, everything it   *)
(* had sent is still taken, and what was taken may still be dispatched;    *)
(* when the connection ends in any other way, nothing more is.             *)
(***************************************************************************)
EXTENDS Naturals

CONSTANT Packets    \* 1..n, in the order they are sent

VARIABLES
  sent, taken,      \* how many packets
  passed,           \* how often each packet may be dispatched
  named,            \* how often each packet was dispatched to its named listeners
  phase             \* "open", "draining", "drained" or "closed"

pipelineVars == <<sent, taken, passed, named, phase>>

Init ==
  /\ sent = 0 /\ taken = 0
  /\ passed = [p \in Packets |-> 0] /\ named = [p \in Packets |-> 0]
  /\ phase = "open"

Send ==
  /\ phase \in {"open", "closed"} /\ sent + 1 \in Packets
  /\ sent' = sent + 1
  /\ UNCHANGED <<taken, passed, named, phase>>

Take ==
  /\ phase \in {"open", "draining"} /\ taken < sent
  /\ taken' = taken + 1
  /\ UNCHANGED <<sent, passed, named, phase>>

Pass(p) ==
  /\ p <= taken
  /\ passed' = [passed EXCEPT ![p] = @ + 1]
  /\ UNCHANGED <<sent, taken, named, phase>>

Dispatch(p) ==
  /\ phase # "closed" /\ named[p] < passed[p]
  /\ named' = [named EXCEPT ![p] = @ + 1]
  /\ UNCHANGED <<sent, taken, passed, phase>>

\* Without middleware a packet goes straight from its catch-all listeners to the named
\* ones, and does so although those have just ended the connection.
PassDirectly(p) ==
  /\ p = taken
  /\ passed' = [passed EXCEPT ![p] = @ + 1]
  /\ named' = [named EXCEPT ![p] = @ + 1]
  /\ UNCHANGED <<sent, taken, phase>>

Drain == phase = "open" /\ phase' = "draining" /\ UNCHANGED <<sent, taken, passed, named>>

Drained ==
  /\ phase = "draining" /\ taken = sent
  /\ phase' = "drained"
  /\ UNCHANGED <<sent, taken, passed, named>>

Close == phase = "open" /\ phase' = "closed" /\ UNCHANGED <<sent, taken, passed, named>>

Next ==
  \/ Send \/ Take \/ Drain \/ Drained \/ Close
  \/ \E p \in Packets : Pass(p) \/ Dispatch(p) \/ PassDirectly(p)

Spec == Init /\ [][Next]_pipelineVars

=============================================================================
