-------------------------- MODULE MCSessionServer --------------------------
(* Session with its server, for TLC.                                       *)
EXTENDS SessionServer, TLC

Symmetric == Permutations(Procs) \cup Permutations(Tokens)
=============================================================================
