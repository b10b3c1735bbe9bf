--------------------------- MODULE ReleaseLedger ---------------------------
(***************************************************************************)
(* What a release promises of each version: `smocket` first, then the      *)
(* `smocket-client` built from the same commit, and only then the          *)
(* certification of the pair.  A commit releases its own version, with the *)
(* bytes its continuous integration has checked, and nothing is ever       *)
(* replaced or withdrawn.                                                  *)
(***************************************************************************)
CONSTANTS Commits, Versions, VersionOf, Nobody

VARIABLES
  passed,      \* the commits whose candidate passed every check
  root,        \* per version, the commit whose `smocket` was published
  client,      \* per version, the commit whose `smocket-client` was published
  certified    \* the commits whose release was certified

ledgerVars == <<passed, root, client, certified>>

Init ==
  /\ passed = {}
  /\ root = [v \in Versions |-> Nobody] /\ client = [v \in Versions |-> Nobody]
  /\ certified = {}

Pass(c) == passed' = passed \cup {c} /\ UNCHANGED <<root, client, certified>>

PublishRoot(c) ==
  /\ c \in passed /\ root[VersionOf[c]] = Nobody
  /\ root' = [root EXCEPT ![VersionOf[c]] = c]
  /\ UNCHANGED <<passed, client, certified>>

PublishClient(c) ==
  /\ root[VersionOf[c]] = c /\ client[VersionOf[c]] = Nobody
  /\ client' = [client EXCEPT ![VersionOf[c]] = c]
  /\ UNCHANGED <<passed, root, certified>>

Certify(c) ==
  /\ client[VersionOf[c]] = c
  /\ certified' = certified \cup {c}
  /\ UNCHANGED <<passed, root, client>>

Next ==
  \E c \in Commits : Pass(c) \/ PublishRoot(c) \/ PublishClient(c) \/ Certify(c)

Spec == Init /\ [][Next]_ledgerVars

=============================================================================
