-------------------------- MODULE MCConnectionApi --------------------------
(* Two clients of a dynamic namespace, which one RegExp or any function may match. *)
EXTENDS ConnectionApi, TLC

CONSTANTS root, game, a1, a2, pattern, o1, o2, x1, x2

TwoNames == {root, game}
TwoAttempts == {a1, a2}
BothToGame == [a \in Attempts |-> game]
TwoObservers == {o1, o2}
TwoAdapters == {x1, x2}
MatchesGame == [r \in RegExps |-> {game}]

Symmetry == Permutations(Attempts) \cup Permutations(Observers) \cup Permutations(Adapters)
=============================================================================
