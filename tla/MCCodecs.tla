------------------------------ MODULE MCCodecs ------------------------------
(* Codecs for TLC.  A float64 of three significant bits, an int64 of five  *)
(* and an int of four: as in the program, a float64 does not hold all the  *)
(* integers of an int64.  Zones on both sides of UTC, and their changes by *)
(* up to four hours, a whole day of the model.                             *)
EXTENDS Codecs

MCPowers == {2^k : k \in 0..8}

MCOffsets == {-2, -1, 0, 1, 2}
=============================================================================
