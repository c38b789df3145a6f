---------------------------- MODULE MCBaseThread ----------------------------
(* BaseThread.tla for TLC: the tasks are model values. *)
EXTENDS BaseThread
=============================================================================
