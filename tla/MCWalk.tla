------------------------------- MODULE MCWalk -------------------------------
(* Walk for TLC: the links of the server may set the page to any value,    *)
(* back and forth, and the first query carries no page at all.             *)
EXTENDS Walk

MCStart == [k \in {} |-> 1]
=============================================================================
