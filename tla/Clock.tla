-------------------------------- MODULE Clock --------------------------------
(***************************************************************************)
(* The wall-clock times of the server (types.go, client.go): a timestamp   *)
(* without a zone is read as digits and resolved in the client's zone, an  *)
(* instant is sent as the digits the zone shows for it, and what was read  *)
(* is written back.  Time is a count of hours, which stand for the seconds *)
(* of the program; an instant counts them in UTC, a wall clock in the zone *)
(* (module ZoneTime).  Beside the count there is a part of a unit, the     *)
(* fraction of a second, in which no zone has a transition.                *)
(***************************************************************************)
EXTENDS ZoneTime, Sequences

CONSTANTS
  Day,        \* hours in a day
  Fractions,  \* the parts of a unit a time may have beside it, 0 for none
  MaxTexts    \* bound: texts a member has held, one for each time it is sent

ASSUME DayAssumption       == Day \in Nat \ {0}
ASSUME FractionsAssumption == Fractions \subseteq Nat /\ 0 \in Fractions
ASSUME TextsAssumption     == MaxTexts \in Nat \ {0}

Types == {"DateTime", "Date"}

Midnight(w) == (w \div Day) * Day

-----------------------------------------------------------------------------
(* A text names a wall clock, a day, or with a zone of its own an instant; *)
(* a wall clock and an instant may come with a fraction.                   *)
Timestamps ==
  {t \in [form : {"wall", "day", "instant"}, n : Hours, frac : Fractions] :
     t.form = "day" => t.n * Day \in Hours /\ t.frac = 0}

(* A decoded value: an instant, or the digits of a naive wall clock        *)
(* labeled UTC until the service has resolved them.                        *)
Unmarshal(text) ==
  [time  |-> IF text.form = "day" THEN text.n * Day ELSE text.n,
   frac  |-> text.frac,
   naive |-> text.form # "instant"]

(* Mutant of Localize: the digits are taken for an instant.                *)
LocalizeConverts(z, v) == [v EXCEPT !.naive = FALSE]

(* Mutant of Localize: the mark is not cleared.                            *)
LocalizeKeepsMark(z, v) ==
  [v EXCEPT !.time = IF v.naive THEN InZone(z, v.time) ELSE v.time]

(* localize: naive digits gain the zone, an instant is converted; either   *)
(* keeps its fraction.                                                     *)
Localize(z, v) ==
  [v EXCEPT !.time  = IF v.naive THEN InZone(z, v.time) ELSE v.time,
            !.naive = FALSE]

(* Mutant of Marshal: the digits of UTC.                                   *)
MarshalUTC(z, t, v) ==
  IF t = "Date" THEN [form |-> "day",  n |-> v.time \div Day, frac |-> 0]
                ELSE [form |-> "wall", n |-> v.time, frac |-> 0]

(* String and MarshalJSON of a value in the client's zone: neither layout  *)
(* has a place for the fraction, and Format cuts it off.                   *)
Marshal(z, t, v) ==
  IF t = "Date" THEN [form |-> "day",  n |-> Wall(z, v.time) \div Day, frac |-> 0]
                ELSE [form |-> "wall", n |-> Wall(z, v.time), frac |-> 0]

(* The instants a caller has; one is a value that was never naive.         *)
Instants == [time : Hours, frac : Fractions, naive : {FALSE}]

(* Mutant of FromInstant: NewDateTime(t) for a t that is labeled UTC,      *)
(* without the conversion.                                                 *)
FromInstantAsIs(z, t, i) ==
  IF t = "Date" THEN [i EXCEPT !.time = InZone(z, Midnight(i.time)), !.frac = 0]
                ELSE [i EXCEPT !.time = InZone(z, i.time)]

(* Client.DateTime and Client.Date: t.In(c.loc), of which NewDate keeps    *)
(* the calendar date alone by naming its midnight.                         *)
FromInstant(z, t, i) ==
  IF t = "Date"
  THEN [i EXCEPT !.time = InZone(z, Midnight(Wall(z, i.time))), !.frac = 0]
  ELSE i

-----------------------------------------------------------------------------
None == [form |-> "none"]

VARIABLES
  zone,   \* the client's zone, which is the server's
  type,   \* the type of the member
  held,   \* the member as the client decoded it, or None
  texts,  \* the texts the member has had on the server, the first one first
  origin  \* history: the instants the first text was made from, one at most

clock == <<zone, type, held, texts, origin>>

Init ==
  /\ zone \in Zones
  /\ type \in Types
  /\ held = None
  /\ texts = <<>>
  /\ origin = {}

(* The server has the member from elsewhere, in any layout it uses.        *)
Record(text) ==
  /\ texts = <<>>
  /\ texts' = <<text>>
  /\ UNCHANGED <<zone, type, held, origin>>

(* A caller sends what the client makes of an instant.                     *)
SendInstant(i) ==
  /\ texts = <<>>
  /\ texts' = <<Marshal(zone, type, FromInstant(zone, type, i))>>
  /\ origin' = {i}
  /\ UNCHANGED <<zone, type, held>>

(* A service decodes the record: UnmarshalJSON, then localize.             *)
Read ==
  /\ texts # <<>>
  /\ held = None
  /\ held' = Localize(zone, Unmarshal(texts[Len(texts)]))
  /\ UNCHANGED <<zone, type, texts, origin>>

(* The caller sends the member back as it was read.                        *)
WriteBack ==
  /\ held # None
  /\ Len(texts) < MaxTexts
  /\ texts' = Append(texts, Marshal(zone, type, held))
  /\ held' = None
  /\ UNCHANGED <<zone, type, origin>>

Next ==
  \/ \E text \in Timestamps : Record(text)
  \/ \E i \in Instants : SendInstant(i)
  \/ Read \/ WriteBack

Spec == Init /\ [][Next]_clock
=============================================================================
