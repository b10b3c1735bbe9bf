------------------------- MODULE MCAcknowledgements -------------------------
(* Two connections and two or three emits; nothing to define. *)
EXTENDS Acknowledgements

=============================================================================
