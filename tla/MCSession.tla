----------------------------- MODULE MCSession -----------------------------
(* Session and its properties for TLC: the constants are in MCSession.cfg. *)
EXTENDS SessionProperties
=============================================================================
