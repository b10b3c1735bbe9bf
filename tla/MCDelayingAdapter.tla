------------------------- MODULE MCDelayingAdapter -------------------------
(* A short and a long delay, and values that clear it. *)
EXTENDS DelayingAdapter

SomeDelays == {-1, 1, 3}

=============================================================================
