----------------------------- MODULE ClockProofs -----------------------------
(***************************************************************************)
(* The conversions of module Clock for every zone with one transition,     *)
(* every offset, every wall clock and any number of round trips.           *)
(***************************************************************************)
EXTENDS ClockProperties, TLAPS

(* The text that reading and writing back makes of a text.                 *)
Again(text) == Marshal(zone, type, Localize(zone, Unmarshal(text)))

(* What the client holds comes from the last text, and each text after the *)
(* first one from the text before it; the first text is what was sent.     *)
Chain ==
  /\ held # None => /\ texts # <<>>
                    /\ held = Localize(zone, Unmarshal(texts[Len(texts)]))
  /\ \A k \in 1..(Len(texts) - 1) : texts[k + 1] = Again(texts[k])
  /\ \A i \in origin : /\ texts # <<>>
                     /\ texts[1] = Marshal(zone, type, FromInstant(zone, type, i))

CInv == CTypeOK /\ Chain

-----------------------------------------------------------------------------
(* A zone has whole offsets and a transition at some hour.                 *)
LEMMA ZoneType ==
  ASSUME NEW z \in Zones
  PROVE  /\ z.at \in Int /\ z.before \in Int /\ z.after \in Int
         /\ Gap(z) \in Int
<1>1. z.at \in Int
  BY HorizonAssumption DEF Zones, Hours
<1>2. z.before \in Offsets /\ z.after \in Offsets
  BY DEF Zones
<1>3. z.before \in Int /\ z.after \in Int
  BY <1>2, OffsetsAssumption
<1> QED
  BY <1>1, <1>3 DEF Gap

(* The wall clock of an instant and the instant of a wall clock are whole. *)
LEMMA WallType ==
  ASSUME NEW z \in Zones, NEW i \in Int
  PROVE  Wall(z, i) \in Int /\ InZone(z, i) \in Int
BY ZoneType DEF Wall, InZone, Offset

(* time.Date finds an instant of every wall clock the zone has, whichever  *)
(* side of UTC it is on.                                                   *)
LEMMA ExistingKept ==
  ASSUME NEW z \in Zones, NEW w \in Int, Moments(z, w) # {}
  PROVE  Wall(z, InZone(z, w)) = w
<1>1. PICK i \in {w - z.before, w - z.after} : i + Offset(z, i) = w
  BY DEF Moments, Wall
<1>2. i \in Int
  BY ZoneType
<1> QED
  BY <1>1, <1>2, ZoneType DEF Wall, InZone, Offset

(* A wall clock the zone skips moves by the length of the gap.             *)
LEMMA SkippedMoves ==
  ASSUME NEW z \in Zones, NEW w \in Int, Moments(z, w) = {}
  PROVE  Wall(z, InZone(z, w)) - w \in {Gap(z), -Gap(z)}
<1>1. \A i \in {w - z.before, w - z.after} : i + Offset(z, i) # w
  BY DEF Moments, Wall
<1> QED
  BY <1>1, ZoneType DEF Wall, InZone, Offset, Gap

(* An instant is among the moments of its own wall clock, and so is what   *)
(* time.Date makes of that wall clock.                                     *)
LEMMA OwnMoment ==
  ASSUME NEW z \in Zones, NEW i \in Int
  PROVE  i \in Moments(z, Wall(z, i)) /\ InZone(z, Wall(z, i)) \in Moments(z, Wall(z, i))
<1>1. i \in Moments(z, Wall(z, i))
  BY ZoneType DEF Moments, Wall, Offset
<1>2. Wall(z, InZone(z, Wall(z, i))) = Wall(z, i)
  BY <1>1, ExistingKept, WallType
<1>3. InZone(z, Wall(z, i)) \in {Wall(z, i) - z.before, Wall(z, i) - z.after}
  BY DEF InZone, Offset
<1> QED
  BY <1>1, <1>2, <1>3 DEF Moments

(* Two moments of one wall clock are the same or the gap apart, and then   *)
(* they are all of them.                                                   *)
LEMMA TwoMoments ==
  ASSUME NEW z \in Zones, NEW w \in Int,
         NEW i \in Moments(z, w), NEW j \in Moments(z, w), i # j
  PROVE  Moments(z, w) = {i, j} /\ j - i \in {Gap(z), -Gap(z)}
<1>1. i \in {w - z.before, w - z.after} /\ j \in {w - z.before, w - z.after}
  BY DEF Moments
<1>2. Moments(z, w) \subseteq {w - z.before, w - z.after}
  BY DEF Moments
<1>3. j - i \in {Gap(z), -Gap(z)}
  BY <1>1, ZoneType DEF Gap
<1> QED
  BY <1>1, <1>2, <1>3

-----------------------------------------------------------------------------
(* Decoding and encoding yield what the members are declared to hold.      *)
LEMMA TextTypes ==
  ASSUME NEW z \in Zones, NEW k \in Types
  PROVE  /\ \A text \in AnyText :
              /\ Localize(z, Unmarshal(text)) \in AnyValue
              /\ ~Localize(z, Unmarshal(text)).naive
              /\ Localize(z, Unmarshal(text)).frac = text.frac
         /\ \A v \in AnyValue : Marshal(z, k, v) \in AnyText
         /\ \A v \in AnyValue : FromInstant(z, k, v) \in AnyValue
<1>1. ASSUME NEW text \in AnyText
      PROVE  Unmarshal(text) \in AnyValue /\ Unmarshal(text).frac = text.frac
  BY DayAssumption DEF AnyText, AnyValue, Unmarshal
<1>2. ASSUME NEW text \in AnyText
      PROVE  /\ Localize(z, Unmarshal(text)) \in AnyValue
             /\ ~Localize(z, Unmarshal(text)).naive
             /\ Localize(z, Unmarshal(text)).frac = text.frac
  <2> DEFINE v == Unmarshal(text)
  <2>1. v \in AnyValue /\ v.frac = text.frac
    BY <1>1
  <2> HIDE DEF v
  <2>2. InZone(z, v.time) \in Int
    BY <2>1, WallType DEF AnyValue
  <2>3. /\ Localize(z, v) \in AnyValue
        /\ ~Localize(z, v).naive
        /\ Localize(z, v).frac = text.frac
    BY <2>1, <2>2 DEF AnyValue, Localize
  <2> QED
    BY <2>3 DEF v
<1>3. ASSUME NEW v \in AnyValue
      PROVE  Marshal(z, k, v) \in AnyText
  <2>1. Wall(z, v.time) \in Int /\ Wall(z, v.time) \div Day \in Int
    BY WallType, DayAssumption DEF AnyValue
  <2> QED
    BY <2>1 DEF Marshal, AnyText
<1>4. ASSUME NEW v \in AnyValue
      PROVE  FromInstant(z, k, v) \in AnyValue
  <2>1. Wall(z, v.time) \in Int /\ Midnight(Wall(z, v.time)) \in Int
    BY WallType, DayAssumption DEF Midnight, AnyValue
  <2>2. InZone(z, Midnight(Wall(z, v.time))) \in Int
    BY <2>1, WallType
  <2> QED
    BY <2>2 DEF FromInstant, AnyValue
<1> QED
  BY <1>1, <1>2, <1>3, <1>4

(* The server's texts are texts.                                           *)
LEMMA TextsAreTexts == Timestamps \subseteq AnyText
<1> SUFFICES ASSUME NEW t \in Timestamps PROVE t \in AnyText
  OBVIOUS
<1>1. t \in [form : {"wall", "day", "instant"}, n : Hours, frac : Fractions]
  BY DEF Timestamps
<1>2. t.n \in Hours /\ t.frac \in Fractions
  BY <1>1
<1>3. t.n \in Int
  BY <1>2, HorizonAssumption DEF Hours
<1>4. t.frac \in Nat
  BY <1>2, FractionsAssumption
<1> QED
  BY <1>1, <1>3, <1>4 DEF AnyText

(* The instants of a caller are values.                                    *)
LEMMA InstantsAreValues == Instants \subseteq AnyValue
<1> SUFFICES ASSUME NEW i \in Instants PROVE i \in AnyValue
  OBVIOUS
<1>1. i.time \in Hours /\ i.frac \in Fractions
  BY DEF Instants
<1>2. i.time \in Int
  BY <1>1, HorizonAssumption DEF Hours
<1>3. i.frac \in Nat
  BY <1>1, FractionsAssumption
<1> QED
  BY <1>2, <1>3 DEF Instants, AnyValue

(* No decoded value is taken for the absence of one.                       *)
LEMMA HeldIsNotNone ==
  ASSUME NEW v \in AnyValue
  PROVE  v # None
<1>1. DOMAIN v = {"time", "frac", "naive"}
  BY DEF AnyValue
<1>2. DOMAIN None = {"form"}
  BY DEF None
<1>3. "time" \notin {"form"}
  OBVIOUS
<1> QED
  BY <1>1, <1>2, <1>3

(* The initial states satisfy the invariant.                               *)
LEMMA CInvInit == Init => CInv
BY TextsAssumption DEF Init, CInv, CTypeOK, Chain, Again

(* Every step preserves the invariant.                                     *)
LEMMA CInvStep == CInv /\ [Next]_clock => CInv'
<1> SUFFICES ASSUME CInv, [Next]_clock
             PROVE  CInv'
  OBVIOUS
<1> USE DEF CInv
<1>1. ASSUME NEW text \in Timestamps, Record(text)
      PROVE  CInv'
  <2>1. CTypeOK'
    <3>1. text \in AnyText
      BY TextsAreTexts
    <3>2. <<text>> \in Seq(AnyText) /\ Len(<<text>>) = 1 /\ 1 <= MaxTexts
      BY <3>1, TextsAssumption
    <3> QED
      BY <1>1, <3>2 DEF CTypeOK, Record
  <2>2. origin = {} /\ held = None
    BY <1>1 DEF Record, CTypeOK, Chain
  <2>3. Chain'
    BY <1>1, <2>2 DEF Chain, Again, Record
  <2> QED
    BY <2>1, <2>3
<1>2. ASSUME NEW i \in Instants, SendInstant(i)
      PROVE  CInv'
  <2>1. i \in AnyValue /\ held = None
    BY <1>2, InstantsAreValues DEF SendInstant, CTypeOK, Chain
  <2>2. Marshal(zone, type, FromInstant(zone, type, i)) \in AnyText
    BY <2>1, TextTypes DEF CTypeOK
  <2> DEFINE text == Marshal(zone, type, FromInstant(zone, type, i))
  <2>3. CTypeOK'
    <3> HIDE DEF text
    <3>1. <<text>> \in Seq(AnyText) /\ Len(<<text>>) = 1 /\ 1 <= MaxTexts
      BY <2>2, TextsAssumption DEF text
    <3>2. texts' = <<text>> /\ origin' = {i} /\ UNCHANGED <<zone, type, held>>
      BY <1>2 DEF SendInstant, text
    <3> QED
      BY <3>1, <3>2 DEF CTypeOK
  <2>4. Chain'
    BY <1>2, <2>1 DEF Chain, Again, SendInstant
  <2> QED
    BY <2>3, <2>4
<1>3. CASE Read
  <2>1. Len(texts) \in 1..Len(texts) /\ texts[Len(texts)] \in AnyText
    BY <1>3 DEF Read, CTypeOK
  <2>2. held' \in AnyValue /\ ~held'.naive
    BY <1>3, <2>1, TextTypes DEF Read, CTypeOK
  <2>3. CTypeOK'
    BY <1>3, <2>2 DEF Read, CTypeOK
  <2>4. Chain'
    BY <1>3 DEF Chain, Again, Read
  <2> QED
    BY <2>3, <2>4
<1>4. CASE WriteBack
  <2> DEFINE text == Marshal(zone, type, held)
  <2>1. held \in AnyValue
    BY <1>4 DEF WriteBack, CTypeOK
  <2>2. text \in AnyText
    BY <2>1, TextTypes DEF CTypeOK
  <2>3. /\ texts # <<>> /\ Len(texts) \in Nat \ {0}
        /\ text = Again(texts[Len(texts)])
    BY <1>4 DEF WriteBack, Chain, Again, CTypeOK
  <2>4. texts' = Append(texts, text) /\ texts \in Seq(AnyText)
    BY <1>4 DEF WriteBack, CTypeOK
  <2> HIDE DEF text
  <2>5. /\ Len(texts') = Len(texts) + 1
        /\ \A k \in 1..Len(texts) : texts'[k] = texts[k]
        /\ texts'[Len(texts) + 1] = text
    BY <2>4, <2>2
  <2>6. CTypeOK'
    <3>1. texts' \in Seq(AnyText)
      BY <2>2, <2>4
    <3>2. Len(texts') <= MaxTexts
      BY <1>4, <2>3, <2>5, TextsAssumption DEF WriteBack
    <3> QED
      BY <1>4, <3>1, <3>2 DEF WriteBack, CTypeOK
  <2>7. \A k \in 1..(Len(texts') - 1) : texts'[k + 1] = Again(texts'[k])
    <3> TAKE k \in 1..(Len(texts') - 1)
    <3>1. k \in 1..Len(texts) /\ texts'[k] = texts[k]
      BY <2>3, <2>5
    <3>2. CASE k = Len(texts)
      BY <3>1, <3>2, <2>3, <2>5
    <3>3. CASE k # Len(texts)
      <4>1. k \in 1..(Len(texts) - 1) /\ k + 1 \in 1..Len(texts)
        BY <3>1, <3>3, <2>3
      <4> QED
        BY <4>1, <3>1, <2>5 DEF Chain
    <3> QED
      BY <3>2, <3>3
  <2>8. Chain'
    <3>1. zone' = zone /\ type' = type /\ origin' = origin /\ held' = None
      BY <1>4 DEF WriteBack
    <3>2. texts' # <<>> /\ texts'[1] = texts[1]
      BY <2>3, <2>5
    <3>3. \A i \in origin : texts[1] = Marshal(zone, type, FromInstant(zone, type, i))
      BY DEF Chain
    <3> QED
      BY <2>7, <3>1, <3>2, <3>3 DEF Chain, Again
  <2> QED
    BY <2>6, <2>8
<1>5. CASE UNCHANGED clock
  BY <1>5 DEF clock, CTypeOK, Chain, Again
<1> QED
  BY <1>1, <1>2, <1>3, <1>4, <1>5 DEF Next

(* Every value a service hands out is resolved, and what it holds comes    *)
(* from the last text the server had.                                      *)
THEOREM ClockInductive == Spec => []CInv
BY CInvInit, CInvStep, PTL DEF Spec

-----------------------------------------------------------------------------
(* What reading and writing back once makes of a timestamp.                *)
LEMMA AgainWall ==
  ASSUME CTypeOK, type = "DateTime", NEW text \in AnyText
  PROVE  /\ Digits(text) \in Int
         /\ Again(text).frac = 0
         /\ Again(text).n = IF text.form = "instant" THEN Digits(text)
                            ELSE Wall(zone, InZone(zone, Digits(text)))
<1>1. zone \in Zones /\ text.n \in Int /\ text.form \in {"wall", "day", "instant"}
  BY DEF CTypeOK, AnyText
<1>2. text.n * Day \in Int
  BY <1>1, DayAssumption
<1>3. Wall(zone, text.n) \in Int
  BY <1>1, WallType
<1>4. Digits(text) \in Int
  BY <1>1, <1>2, <1>3 DEF Digits
<1>5. /\ Again(text).n = Wall(zone, Localize(zone, Unmarshal(text)).time)
      /\ Again(text).frac = 0
  BY DEF Again, Marshal
<1>6. CASE text.form = "instant"
  BY <1>4, <1>5, <1>6 DEF Localize, Unmarshal, Digits
<1>7. CASE text.form = "wall"
  BY <1>4, <1>5, <1>7 DEF Localize, Unmarshal, Digits
<1>8. CASE text.form = "day"
  BY <1>4, <1>5, <1>8 DEF Localize, Unmarshal, Digits
<1> QED
  BY <1>1, <1>5, <1>6, <1>7, <1>8

(* What a timestamp has become when it was written back.                   *)
LEMMA CInvWritten ==
  ASSUME CInv, Len(texts) >= 2, type = "DateTime"
  PROVE  LET w == Digits(texts[1])
             v == texts[2].n
         IN  /\ texts[2].frac = 0
             /\ IF Moments(zone, w) # {} THEN v = w
                ELSE v - w \in {Gap(zone), -Gap(zone)}
<1>1. /\ texts \in Seq(AnyText) /\ Len(texts) \in Nat
      /\ texts[1] \in AnyText /\ zone \in Zones /\ CTypeOK
  <2>1. texts \in Seq(AnyText) /\ zone \in Zones /\ CTypeOK
    BY DEF CInv, CTypeOK
  <2>2. Len(texts) \in Nat
    BY <2>1
  <2>3. texts[1] \in AnyText
    BY <2>1, <2>2
  <2> QED
    BY <2>1, <2>2, <2>3
<1>2. texts[2] = Again(texts[1])
  <2>1. 1 \in 1..(Len(texts) - 1)
    BY <1>1
  <2>2. texts[1 + 1] = Again(texts[1])
    BY <2>1 DEF CInv, Chain
  <2> QED
    BY <2>2
<1> DEFINE w == Digits(texts[1])
<1>3. w \in Int
  BY <1>1, AgainWall
<1>4. /\ texts[2].n = IF texts[1].form = "instant" THEN w ELSE Wall(zone, InZone(zone, w))
      /\ texts[2].frac = 0
  BY <1>1, <1>2, AgainWall
<1>5. texts[1].form = "instant" => w \in Int /\ Moments(zone, w) # {}
  <2>1. texts[1].n \in Int
    BY <1>1 DEF AnyText
  <2> QED
    BY <2>1, <1>1, OwnMoment, WallType DEF Digits
<1> HIDE DEF w
<1>6. CASE Moments(zone, w) # {}
  BY <1>1, <1>3, <1>4, <1>6, ExistingKept DEF w
<1>7. CASE Moments(zone, w) = {}
  BY <1>1, <1>3, <1>4, <1>5, <1>7, SkippedMoves DEF w
<1> QED
  BY <1>4, <1>6, <1>7 DEF w

(* Reading cuts nothing off, and writing no more than the fraction.        *)
LEMMA CInvRoundTrip == CInv => RoundTrip
<1> SUFFICES ASSUME CInv
             PROVE  held # None /\ Len(texts) = 1 => held.frac = texts[1].frac
  BY CInvWritten DEF RoundTrip
<1> SUFFICES ASSUME held # None, Len(texts) = 1
             PROVE  held.frac = texts[1].frac
  OBVIOUS
<1>1. texts[1] \in AnyText /\ zone \in Zones /\ type \in Types
  BY DEF CInv, CTypeOK
<1>2. held = Localize(zone, Unmarshal(texts[1]))
  BY DEF CInv, Chain
<1> QED
  BY <1>1, <1>2, TextTypes

(* The invariant accounts for an instant that comes back.                  *)
LEMMA CInvSent == CInv => SentComesBack
<1> SUFFICES ASSUME CInv, NEW i \in origin,
                    type = "DateTime", held # None, Len(texts) = 1
             PROVE  /\ held.frac = 0
                    /\ \/ held.time = i.time
                       \/ /\ Moments(zone, Wall(zone, i.time)) = {i.time, held.time}
                          /\ held.time - i.time \in {Gap(zone), -Gap(zone)}
  BY DEF SentComesBack
<1> DEFINE w == Wall(zone, i.time)
<1>1. zone \in Zones /\ i.time \in Int /\ w \in Int
  BY InstantsAreValues, WallType DEF CInv, CTypeOK, AnyValue
<1>2. texts[1] = [form |-> "wall", n |-> w, frac |-> 0]
  BY DEF CInv, Chain, Marshal, FromInstant
<1> HIDE DEF w
<1>3. held.time = InZone(zone, w) /\ held.frac = 0
  <2>1. held = Localize(zone, Unmarshal(texts[1]))
    BY DEF CInv, Chain
  <2>2. Unmarshal(texts[1]) = [time |-> w, frac |-> 0, naive |-> TRUE]
    <3>1. texts[1].form = "wall" /\ texts[1].n = w /\ texts[1].frac = 0
      BY <1>2
    <3>2. texts[1].form # "day" /\ texts[1].form # "instant"
      BY <3>1
    <3> QED
      BY <3>1, <3>2, Zenon DEF Unmarshal
  <2> QED
    BY <2>1, <2>2 DEF Localize
<1>4. i.time \in Moments(zone, w) /\ held.time \in Moments(zone, w)
  BY <1>1, <1>3, OwnMoment DEF w
<1>5. held.time = i.time \/ (/\ Moments(zone, w) = {i.time, held.time}
                            /\ held.time - i.time \in {Gap(zone), -Gap(zone)})
  BY <1>1, <1>4, TwoMoments
<1> QED
  BY <1>3, <1>5 DEF w

-----------------------------------------------------------------------------
(* The wall clocks a zone skips, and where time.Date moves them.           *)
LEMMA Skipped ==
  ASSUME NEW z \in Zones, NEW w \in Int, Moments(z, w) = {}
  PROVE  /\ z.at + z.before <= w /\ w < z.at + z.after
         /\ Wall(z, InZone(z, w)) = IF w < z.at THEN w - Gap(z) ELSE w + Gap(z)
<1>1. \A i \in {w - z.before, w - z.after} : i + Offset(z, i) # w
  BY DEF Moments, Wall
<1>2. w - z.before >= z.at /\ w - z.after < z.at
  BY <1>1, ZoneType DEF Offset
<1> QED
  BY <1>2, ZoneType DEF Wall, InZone, Offset, Gap

(* A day is a whole number of days, and the day of a time is the last one  *)
(* that began.                                                             *)
LEMMA WholeDays ==
  ASSUME NEW n \in Int
  PROVE  /\ (n * Day) \div Day = n /\ n * Day \in Int
         /\ n \div Day \in Int /\ (n \div Day) * Day <= n
         /\ n < (n \div Day) * Day + Day
BY DayAssumption

(* A day that is read and written back is at rest after the first time, if *)
(* the zone skips no more than a day.                                      *)
LEMMA DayTwice ==
  ASSUME NEW z \in Zones, Gap(z) <= Day, NEW d \in Int
  PROVE  LET e == Wall(z, InZone(z, d * Day)) \div Day
         IN  Wall(z, InZone(z, e * Day)) \div Day = e
<1> DEFINE w == d * Day
           v == Wall(z, InZone(z, w))
           e == v \div Day
           u == e * Day
<1>1. w \in Int /\ v \in Int /\ e \in Int /\ u \in Int /\ w \div Day = d /\ u <= v
      /\ u \div Day = e
  <2>1. w \in Int /\ w \div Day = d
    BY WholeDays
  <2>2. v \in Int
    BY <2>1, WallType
  <2> HIDE DEF v
  <2> QED
    BY <2>1, <2>2, WholeDays
<1>2. CASE Moments(z, u) # {}
  <2>1. Wall(z, InZone(z, u)) = u
    BY <1>1, <1>2, ExistingKept
  <2> QED
    BY <1>1, <2>1
<1>3. CASE u = w
  BY <1>3
<1>4. ASSUME Moments(z, u) = {}, u # w PROVE FALSE
  <2>1. Moments(z, w) = {}
    <3> SUFFICES ASSUME Moments(z, w) # {} PROVE FALSE
      OBVIOUS
    <3>1. v = w
      BY <1>1, ExistingKept
    <3> QED
      BY <1>1, <1>4, <3>1
  <2>2. /\ z.at + z.before <= w /\ w < z.at + z.after
        /\ v = IF w < z.at THEN w - Gap(z) ELSE w + Gap(z)
    BY <1>1, <2>1, Skipped
  <2>3. z.at + z.before <= u /\ u < z.at + z.after
    BY <1>1, <1>4, Skipped
  <2> HIDE DEF v, e, u, w
  <2>4. w >= z.at /\ v = w + Gap(z)
    BY <1>1, <2>2, <2>3, ZoneType DEF Gap
  <2>5. v < u + Day
    BY <1>1, WholeDays DEF u, e
  <2>6. d <= e
    <3> SUFFICES ASSUME e + 1 <= d PROVE FALSE
      BY <1>1
    <3>1. (e + 1) * Day <= d * Day
      BY <1>1, DayAssumption
    <3>2. u + Day <= w
      BY <1>1, <3>1, DayAssumption DEF u, w
    <3> QED
      BY <1>1, <2>2, <2>4, <2>5, <3>2, ZoneType, DayAssumption DEF Gap
  <2>7. w + Day <= u
    <3>1. d # e
      BY <1>4 DEF u, w
    <3>2. (d + 1) * Day <= e * Day
      BY <1>1, <2>6, <3>1, DayAssumption
    <3> QED
      BY <1>1, <3>2, DayAssumption DEF u, w
  <2> QED
    BY <1>1, <2>2, <2>3, <2>4, <2>7, ZoneType, DayAssumption DEF Gap
<1> QED
  BY <1>2, <1>3, <1>4

(* What was written back once is written back the same again: any          *)
(* timestamp, and a date that came as a day.                               *)
LEMMA AgainTwice ==
  ASSUME CTypeOK, Gap(zone) <= Day, NEW text \in AnyText,
         type = "DateTime" \/ text.form = "day"
  PROVE  Again(Again(text)) = Again(text)
<1>1. zone \in Zones /\ type \in {"DateTime", "Date"}
  BY DEF CTypeOK, Types
<1>2. CASE type = "DateTime"
  <2>1. PICK i \in Int : Again(text) = [form |-> "wall", n |-> Wall(zone, i), frac |-> 0]
    <3>1. Localize(zone, Unmarshal(text)).time \in Int
      BY <1>1, TextTypes DEF Types, AnyValue
    <3> QED
      BY <1>2, <3>1 DEF Again, Marshal
  <2>2. Wall(zone, InZone(zone, Wall(zone, i))) = Wall(zone, i)
    BY <1>1, OwnMoment, WallType, ExistingKept
  <2>3. Again([form |-> "wall", n |-> Wall(zone, i), frac |-> 0])
          = [form |-> "wall", n |-> Wall(zone, InZone(zone, Wall(zone, i))), frac |-> 0]
    BY <1>2 DEF Again, Marshal, Localize, Unmarshal
  <2> QED
    BY <2>1, <2>2, <2>3
<1>3. CASE type = "Date" /\ text.form = "day"
  <2> DEFINE Next1(d) == Wall(zone, InZone(zone, d * Day)) \div Day
  <2>1. ASSUME NEW t, t.form = "day"
        PROVE  Again(t) = [form |-> "day", n |-> Next1(t.n), frac |-> 0]
    BY <1>3, <2>1 DEF Again, Marshal, Localize, Unmarshal
  <2>2. Again(text) = [form |-> "day", n |-> Next1(text.n), frac |-> 0]
    BY <1>3, <2>1
  <2>3. Again(Again(text)) = [form |-> "day", n |-> Next1(Next1(text.n)), frac |-> 0]
    BY <2>1, <2>2
  <2>4. text.n \in Int
    BY DEF AnyText
  <2>5. Next1(Next1(text.n)) = Next1(text.n)
    BY <1>1, <2>4, DayTwice
  <2> QED
    BY <2>2, <2>3, <2>5
<1> QED
  BY <1>1, <1>2, <1>3

(* From the second text on nothing changes any more.                       *)
Rest ==
  texts # <<>> /\ (type = "DateTime" \/ texts[1].form = "day") =>
    \A k \in 3..Len(texts) : texts[k] = texts[2]

(* From the third on, the texts of a member stay what the second was.      *)
LEMMA RestStep ==
  ASSUME CInv, Rest, Gap(zone) <= Day, [Next]_clock
  PROVE  Rest'
<1>1. CTypeOK /\ Chain /\ texts \in Seq(AnyText) /\ Len(texts) \in Nat
  <2>1. CTypeOK /\ Chain /\ texts \in Seq(AnyText)
    BY DEF CInv, CTypeOK
  <2> QED
    BY <2>1
<1>2. \A n \in Nat : n >= 2 /\ n # 2 => n \in 3..n
  OBVIOUS
<1>3. CASE texts' = texts /\ type' = type
  BY <1>3 DEF Rest
<1>4. ASSUME NEW text, texts' = <<text>> PROVE Rest'
  BY <1>4 DEF Rest
<1>5. CASE WriteBack
  <2> DEFINE text == Marshal(zone, type, held)
  <2>1. /\ texts' = Append(texts, text) /\ type' = type /\ texts # <<>>
        /\ text = Again(texts[Len(texts)])
    BY <1>1, <1>5 DEF WriteBack, Chain, Again
  <2>2. text \in AnyText
    BY <1>1, <1>5, TextTypes DEF WriteBack, CTypeOK
  <2> HIDE DEF text
  <2>3. /\ Len(texts') = Len(texts) + 1 /\ Len(texts) >= 1
        /\ \A k \in 1..Len(texts) : texts'[k] = texts[k]
        /\ texts'[Len(texts) + 1] = text
    BY <1>1, <2>1, <2>2
  <2> SUFFICES ASSUME type = "DateTime" \/ texts[1].form = "day",
                      NEW k \in 3..Len(texts')
               PROVE  texts'[k] = texts'[2]
    BY <2>1, <2>3 DEF Rest
  <2>4. texts'[2] = texts[2]
    BY <1>1, <2>3
  <2>5. CASE k <= Len(texts)
    BY <1>1, <2>1, <2>3, <2>4, <2>5 DEF Rest
  <2>6. CASE k > Len(texts)
    <3>1. Len(texts) >= 2 /\ texts'[k] = text /\ 1 \in 1..(Len(texts) - 1)
      BY <1>1, <2>3, <2>6
    <3>2. texts[1] \in AnyText
      BY <1>1, <3>1
    <3>3. texts[1 + 1] = Again(texts[1])
      BY <1>1, <3>1 DEF Chain
    <3>4. texts[Len(texts)] = texts[2]
      <4>1. CASE Len(texts) = 2
        BY <4>1
      <4>2. CASE Len(texts) # 2
        <5>1. Len(texts) \in Nat /\ Len(texts) >= 2
          BY <1>1, <3>1
        <5>2. Len(texts) \in 3..Len(texts)
          BY <1>2, <4>2, <5>1
        <5> QED
          BY <2>1, <5>2 DEF Rest
      <4> QED
        BY <4>1, <4>2
    <3>5. Again(texts[2]) = texts[2]
      BY <1>1, <3>2, <3>3, AgainTwice
    <3> QED
      BY <2>1, <2>4, <3>1, <3>4, <3>5
  <2> QED
    BY <1>1, <2>3, <2>5, <2>6
<1> QED
  BY <1>3, <1>4, <1>5 DEF Next, Record, SendInstant, Read, clock

(* A timestamp that is read and written back keeps its digits down to the  *)
(* second, or moves by the gap when the zone skips them (resolve, String). *)
THEOREM RoundTripKept == Spec => []RoundTrip
BY ClockInductive, CInvRoundTrip, PTL

(* Nothing drifts, in every zone that never skips more than a day.         *)
THEOREM NothingDrifts ==
  ASSUME \A z \in Zones : Gap(z) <= Day
  PROVE  Spec => []NoDrift
<1>1. Init => Rest
  BY DEF Init, Rest
<1>2. CInv => Gap(zone) <= Day
  BY DEF CInv, CTypeOK
<1>3. CInv /\ Rest /\ [Next]_clock => Rest'
  BY <1>2, RestStep
<1>4. CInv /\ Rest => NoDrift
  <2> SUFFICES ASSUME CInv, Rest, type = "Date", Len(texts) >= 2,
                      Moments(zone, Digits(texts[1])) # {}
               PROVE  texts[2].n = Digits(texts[1]) \div Day
    BY DEF NoDrift, Rest
  <2>1. zone \in Zones /\ texts \in Seq(AnyText) /\ Chain
    BY DEF CInv, CTypeOK
  <2>2. texts[1] \in AnyText /\ texts[1 + 1] = Again(texts[1])
    <3>1. 1 \in 1..(Len(texts) - 1) /\ 1 \in 1..Len(texts)
      BY <2>1
    <3> QED
      BY <2>1, <3>1 DEF Chain
  <2> DEFINE t == texts[1]
  <2>3. Again(t).n = Wall(zone, Localize(zone, Unmarshal(t)).time) \div Day
    BY DEF Again, Marshal
  <2>4. Wall(zone, Localize(zone, Unmarshal(t)).time) = Digits(t)
    <3>1. t.n \in Int /\ t.n * Day \in Int /\ t.form \in {"wall", "day", "instant"}
      BY <2>2, DayAssumption DEF AnyText
    <3>2. CASE t.form = "instant"
      BY <3>2 DEF Localize, Unmarshal, Digits
    <3>3. CASE t.form = "wall"
      <4>1. Digits(t) = t.n /\ Localize(zone, Unmarshal(t)).time = InZone(zone, t.n)
        BY <3>3 DEF Localize, Unmarshal, Digits
      <4> QED
        BY <2>1, <3>1, <4>1, ExistingKept
    <3>4. CASE t.form = "day"
      <4>1. Digits(t) = t.n * Day /\ Localize(zone, Unmarshal(t)).time = InZone(zone, t.n * Day)
        BY <3>4 DEF Localize, Unmarshal, Digits
      <4> QED
        BY <2>1, <3>1, <4>1, ExistingKept
    <3> QED
      BY <3>1, <3>2, <3>3, <3>4
  <2> QED
    BY <2>2, <2>3, <2>4
<1> QED
  BY <1>1, <1>3, <1>4, ClockInductive, PTL DEF Spec

(* An instant sent with Client.DateTime comes back, cut off to the second, *)
(* as itself or as its double of the repeated hour.                        *)
THEOREM SentReturned == Spec => []SentComesBack
BY ClockInductive, CInvSent, PTL

(* Every variable keeps its type, and no naive wall clock leaves a service.*)
THEOREM ClockTypes == Spec => []CTypeOK
<1>1. CInv => CTypeOK
  BY DEF CInv
<1> QED
  BY <1>1, ClockInductive, PTL
=============================================================================
