-------------------------- MODULE MCPacketDispatch --------------------------
(* One catch-all listener, two named listeners and two of `error`. *)
EXTENDS PacketDispatch

FewListeners == [any |-> 1, packet |-> 1, error |-> 2]
=============================================================================
