----------------------------- MODULE MCPairing -----------------------------
(***************************************************************************)
(* Pairing for TLC: one client, or two clients that share a Manager.       *)
(***************************************************************************)
EXTENDS Pairing, TLC

CONSTANTS c1, c2

OneClient == {c1}
TwoClients == {c1, c2}
SameManager == [c \in Clients |-> 1]

Symmetry == Permutations(Clients)

\* Bound of PairingTwo: three attempts of the two clients together, as many completions of
\* middleware chains as leave a total of five, and the third attempt only while no attempt
\* is completed twice.
FewAttempts ==
  LET attempts == begun[c1] + begun[c2]
      completions(c) == nexts[<<c, 1>>] + nexts[<<c, 2>>]
  IN /\ attempts <= 3 /\ attempts + completions(c1) + completions(c2) <= 5
     /\ attempts = 3 => \A c \in Clients, n \in 1..2 : nexts[<<c, n>>] <= 1
=============================================================================
