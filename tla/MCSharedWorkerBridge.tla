------------------------ MODULE MCSharedWorkerBridge ------------------------
(* What the runs of SharedWorkerBridge let the application do wrong. *)
EXTENDS SharedWorkerBridge

NoFaults == {}
AllFaults == {"auth", "values", "refusal", "blank", "names"}

=============================================================================
