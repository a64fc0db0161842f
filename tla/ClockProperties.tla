--------------------------- MODULE ClockProperties ---------------------------
(***************************************************************************)
(* What the conversions of module Clock promise, and what the repository   *)
(* says of them that they do not do.                                       *)
(***************************************************************************)
EXTENDS Clock

AnyText  == [form : {"wall", "day", "instant"}, n : Int, frac : Nat]
AnyValue == [time : Int, frac : Nat, naive : BOOLEAN]

(* Every variable has its type; a member a service handed out is resolved: *)
(* it is an instant, and no longer the digits of a naive wall clock.       *)
CTypeOK ==
  /\ zone \in Zones
  /\ type \in Types
  /\ held = None \/ (held \in AnyValue /\ ~held.naive)
  /\ texts \in Seq(AnyText)
  /\ Len(texts) <= MaxTexts
  /\ origin \subseteq Instants

(* The digits a text names, in the zone.                                   *)
Digits(text) ==
  CASE text.form = "wall"    -> text.n
    [] text.form = "day"     -> text.n * Day
    [] text.form = "instant" -> Wall(zone, text.n)

(* A timestamp is read with the fraction of a second it came with.  When   *)
(* it is written back it keeps its digits down to the second, whatever the *)
(* layout it came in, if the zone has them, in either of the two hours a   *)
(* transition repeats as well; the digits the zone skips move by the       *)
(* length of the gap and no farther.  The fraction is cut off then, as     *)
(* DateTimeLayout has no place for it (comments of resolve and DateTime;   *)
(* README.md, Daylight saving).                                            *)
RoundTrip ==
  /\ type = "DateTime" /\ held # None /\ Len(texts) = 1 => held.frac = texts[1].frac
  /\ type = "DateTime" /\ Len(texts) >= 2 =>
       LET w == Digits(texts[1])
           v == texts[2].n
       IN  /\ texts[2].frac = 0
           /\ IF Moments(zone, w) # {} THEN v = w ELSE v - w \in {Gap(zone), -Gap(zone)}

(* Reading and writing back over and over does not let a member drift:     *)
(* what was written back once is written back the same ever after, however *)
(* the zone treats it (localize, MarshalJSON).  A date that came with a    *)
(* time of day is written back as a day first, and only then at rest; it   *)
(* is the same day ever after if the zone has the midnight of that day.    *)
NoDrift ==
  /\ texts # <<>> /\ (type = "DateTime" \/ texts[1].form = "day") =>
       \A k \in 3..Len(texts) : texts[k] = texts[2]
  /\ type = "Date" /\ Len(texts) >= 2 /\ Moments(zone, Digits(texts[1])) # {} =>
       texts[2].n = Digits(texts[1]) \div Day

(* An instant sent with Client.DateTime comes back as that instant cut off *)
(* to the second, except that one of the repeated hour may come back as    *)
(* its double, the length of the transition away (Client.DateTime, whose   *)
(* value encodes as the wall clock the server would record).               *)
SentComesBack ==
  \A i \in origin :
    type = "DateTime" /\ held # None /\ Len(texts) = 1 =>
      /\ held.frac = 0
      /\ \/ held.time = i.time
         \/ /\ Moments(zone, Wall(zone, i.time)) = {i.time, held.time}
            /\ held.time - i.time \in {Gap(zone), -Gap(zone)}

-----------------------------------------------------------------------------
(* types.go, resolve: a wall clock inside the hour a transition repeats    *)
(* exists twice, and resolves to the earlier of the two.                   *)
EarlierOfTheTwo ==
  type = "DateTime" /\ held # None /\ Len(texts) = 1 /\ texts[1].form = "wall" =>
    \A i \in Moments(zone, texts[1].n) : held.time <= i

(* client.go, Client.Date: it returns the calendar date of the instant in  *)
(* the server's zone, which is the date the server would record for it.    *)
DateOfTheInstant ==
  \A i \in origin :
    type = "Date" =>
      texts[1] = [form |-> "day", n |-> Wall(zone, i.time) \div Day, frac |-> 0]
=============================================================================
