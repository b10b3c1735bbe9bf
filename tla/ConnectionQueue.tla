-------------------------- MODULE ConnectionQueue --------------------------
(***************************************************************************)
(* What the direct connection API promises for each namespace name:        *)
(* admitted Sockets and observers pair first in, first out, whichever side *)
(* comes first; a Socket is offered once and given to at most one observer;*)
(* and once the Server is closed nothing is offered and nobody waits.      *)
(***************************************************************************)
EXTENDS Integers, Sequences

CONSTANTS Names, Observers, Sockets

VARIABLES
  ready,     \* per name, the Sockets offered and not claimed, oldest first
  waiting,   \* per name, the observers that wait, oldest first
  result,    \* what became of each observer: "new", "waiting", "refused", or its Socket
  offered,   \* the Sockets offered so far
  over       \* the Server is closed

queueVars == <<ready, waiting, result, offered, over>>

Init ==
  /\ ready = [n \in Names |-> <<>>]
  /\ waiting = [n \in Names |-> <<>>]
  /\ result = [o \in Observers |-> "new"]
  /\ offered = {}
  /\ over = FALSE

\* An admitted Socket goes to the oldest observer, or waits for one.
Offer(n, s) ==
  /\ ~over
  /\ s \notin offered
  /\ offered' = offered \cup {s}
  /\ IF waiting[n] = <<>>
     THEN ready' = [ready EXCEPT ![n] = Append(@, s)] /\ UNCHANGED <<waiting, result>>
     ELSE /\ result' = [result EXCEPT ![Head(waiting[n])] = s]
          /\ waiting' = [waiting EXCEPT ![n] = Tail(@)]
          /\ UNCHANGED ready
  /\ UNCHANGED over

\* An observer takes the oldest Socket, or waits for one.
Observe(n, o) ==
  /\ result[o] = "new"
  /\ IF over
     THEN result' = [result EXCEPT ![o] = "refused"] /\ UNCHANGED <<ready, waiting>>
     ELSE IF ready[n] # <<>>
     THEN /\ result' = [result EXCEPT ![o] = Head(ready[n])]
          /\ ready' = [ready EXCEPT ![n] = Tail(@)]
          /\ UNCHANGED waiting
     ELSE /\ result' = [result EXCEPT ![o] = "waiting"]
          /\ waiting' = [waiting EXCEPT ![n] = Append(@, o)]
          /\ UNCHANGED ready
  /\ UNCHANGED <<offered, over>>

\* A Socket that nobody claimed is withdrawn.
Withdraw(n, i) ==
  /\ ready' = [ready EXCEPT ![n] = SubSeq(@, 1, i - 1) \o SubSeq(@, i + 1, Len(@))]
  /\ UNCHANGED <<waiting, result, offered, over>>

\* Closing discards the unclaimed Sockets and refuses everybody who waits.
End ==
  /\ over' = TRUE
  /\ ready' = [n \in Names |-> <<>>]
  /\ waiting' = [n \in Names |-> <<>>]
  /\ result' = [o \in Observers |-> IF result[o] = "waiting" THEN "refused" ELSE result[o]]
  /\ UNCHANGED offered

Next ==
  \/ \E n \in Names : \/ \E s \in Sockets : Offer(n, s)
                      \/ \E i \in DOMAIN ready[n] : Withdraw(n, i)
                      \/ \E o \in Observers : Observe(n, o)
  \/ End

Spec == Init /\ [][Next]_queueVars

=============================================================================
