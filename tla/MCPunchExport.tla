--------------------------- MODULE MCPunchExport ---------------------------
(* PunchExport for TLC: a zone may set its clock forward or back by two    *)
(* units of time, or leave it alone.  A change by one unit would not do:   *)
(* what it hides is exactly the boundary, which is in both windows.        *)
EXTENDS PunchExport, TLC

MCOffsets == {-2, 0}

Symmetric == Permutations(Punches)
=============================================================================
