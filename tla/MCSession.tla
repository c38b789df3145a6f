----------------------------- MODULE MCSession ------------------------------
(* Session.tla for TLC. *)
EXTENDS Session
=============================================================================
