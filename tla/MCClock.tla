------------------------------ MODULE MCClock ------------------------------
(* Clock for TLC, in zones on one side of UTC.                             *)
EXTENDS ClockProperties

EasternOffsets == {1, 2}
WesternOffsets == {-2, -1}
=============================================================================
