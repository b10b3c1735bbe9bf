----------------------------- MODULE MCRelease -----------------------------
(* Two commits that claim one version, and one whose client names another. *)
EXTENDS Release

CONSTANTS c1, c2, c3, one, two

ThreeCommits == {c1, c2, c3}
TwoVersions == {one, two}
Sources == [c \in Commits |-> [root |-> one, client |-> IF c = c3 THEN two ELSE one, peer |-> one]]
=============================================================================
