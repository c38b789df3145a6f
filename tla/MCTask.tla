------------------------------- MODULE MCTask -------------------------------
(* Task.tla for TLC: the calls are model values. *)
EXTENDS Task
=============================================================================
