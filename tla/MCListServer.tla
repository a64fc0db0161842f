---------------------------- MODULE MCListServer ----------------------------
(* ListServer for TLC: the walk starts with the filter and no page.        *)
EXTENDS ListServer

MCStart == [k \in {"emp_code"} |-> 0]
=============================================================================
