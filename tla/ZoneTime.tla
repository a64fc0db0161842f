------------------------------ MODULE ZoneTime ------------------------------
(***************************************************************************)
(* Instants and the wall clocks a time zone shows for them.  Time is a     *)
(* count of hours; an instant counts them in UTC, a wall clock in the      *)
(* zone.  A zone changes its offset once, which is as many changes as one  *)
(* timestamp, or one window of an export, can be close to.                 *)
(***************************************************************************)
EXTENDS Integers

CONSTANTS
  Horizon,   \* bound: instants and wall clocks are 0..Horizon
  Offsets    \* the offsets from UTC a zone may have, before and after

ASSUME HorizonAssumption == Horizon \in Nat
ASSUME OffsetsAssumption == Offsets \subseteq Int

Hours == 0..Horizon
Zones == [at : Hours, before : Offsets, after : Offsets]

Offset(z, i) == IF i < z.at THEN z.before ELSE z.after

(* The wall clock of the zone at an instant.                               *)
Wall(z, i) == i + Offset(z, i)

(* The instants at which the zone shows a wall clock: none in the hour a   *)
(* transition skips, two in the hour it repeats.                           *)
Moments(z, w) == {i \in {w - z.before, w - z.after} : Wall(z, i) = w}

Gap(z) == z.after - z.before

(* time.Date: look up the offset as if the digits were UTC; keep it when   *)
(* the instant it gives is on the same side of the transition, and take    *)
(* the offset in force at that instant when it is not.                     *)
InZone(z, w) ==
  LET i == w - Offset(z, w) IN
  IF (i < z.at) = (w < z.at) THEN i ELSE w - Offset(z, i)
=============================================================================
