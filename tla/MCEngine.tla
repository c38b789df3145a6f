------------------------------ MODULE MCEngine ------------------------------
(* Engine.tla for TLC. *)
EXTENDS Engine
=============================================================================
