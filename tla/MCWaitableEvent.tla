--------------------------- MODULE MCWaitableEvent ---------------------------
(* WaitableEvent.tla for TLC: the calls are model values. *)
EXTENDS WaitableEvent
=============================================================================
