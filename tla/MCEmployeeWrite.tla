--------------------------- MODULE MCEmployeeWrite ---------------------------
(* EmployeeWrite for TLC: two of the three flags, which tell the first one  *)
(* from a later one, and requests that set none, either, or both of them.   *)
EXTENDS EmployeeWrite, TLC

MCOrder == <<"enable_att", "enable_overtime">>

MCWants == { <<>>, [enable_att |-> "on"], [enable_overtime |-> "on"],
             [enable_att |-> "on",  enable_overtime |-> "on"],
             [enable_att |-> "off", enable_overtime |-> "on"] }

Symmetric == Permutations(Writers)
=============================================================================
