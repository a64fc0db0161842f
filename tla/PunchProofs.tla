----------------------------- MODULE PunchProofs -----------------------------
(***************************************************************************)
(* The windows of an export for every zone with one transition, any number *)
(* of punches, any delay and any margin: no punch is left behind, and none *)
(* is handed out again but at a seam.  A walk over pages of any size is a  *)
(* run over such a window, provided the margin is large enough.            *)
(***************************************************************************)
EXTENDS PunchExport, FiniteSetTheorems, TLAPS

(* EndTime lies farther back than a terminal's delay and the hour the zone *)
(* repeats.                                                                *)
Far == Margin > Delay + Repeated(zone)

(* Both ends of a window lie in the past, and it is not empty.             *)
Ends ==
  /\ till # NoTime => till + Margin <= now
  /\ from # NoTime => from + Margin <= now
  /\ from # NoTime /\ till # NoTime => from < till

(* What was in the window when the run began is all there will ever be.    *)
DueIsAll ==
  Far /\ till # NoTime =>
    \A p \in DOMAIN taken : Within(p, from, till) => p \in due

(* What the run has handed out so far is in its window.                    *)
Inside == till # NoTime => \A p \in out : PunchTime(p) <= Wall(zone, till)

(* What was exported was in some window up to the last one.                *)
Earlier == \A p \in exported :
            /\ from # NoTime
            /\ \E t \in Hours : t <= from /\ PunchTime(p) <= Wall(zone, t)

PInv == PTypeOK /\ Ends /\ DueIsAll /\ Inside /\ Earlier /\ ExportIsLossless

-----------------------------------------------------------------------------
(* A zone has whole offsets, and hours are whole.                          *)
LEMMA ZoneTypes ==
  ASSUME NEW z \in Zones
  PROVE  /\ z.at \in Int /\ z.before \in Int /\ z.after \in Int
         /\ Repeated(z) \in Nat
         /\ \A i \in Int : Offset(z, i) \in Int /\ Wall(z, i) \in Int
<1>1. z.at \in Int
  BY HorizonAssumption DEF Zones, Hours
<1>2. z.before \in Int /\ z.after \in Int
  BY OffsetsAssumption DEF Zones
<1> QED
  BY <1>1, <1>2 DEF Repeated, Gap, Offset, Wall

(* A wall clock that is not later than another one was shown at most the   *)
(* repeated time later.                                                    *)
LEMMA WallOrder ==
  ASSUME NEW z \in Zones, NEW i \in Int, NEW t \in Int, Wall(z, i) <= Wall(z, t)
  PROVE  i <= t + Repeated(z)
BY ZoneTypes DEF Wall, Offset, Repeated, Gap

(* A wall clock shown at an instant, at the latest, and passed before, is  *)
(* one the zone shows twice.                                               *)
LEMMA ShownTwice ==
  ASSUME NEW z \in Zones, NEW s \in Int, NEW t \in Int, NEW w \in Int,
         t <= s, Wall(z, s) < w, w <= Wall(z, t)
  PROVE  \E i, j \in Moments(z, w) : i # j
<1> DEFINE i == w - z.before
           j == w - z.after
<1>1. i \in Int /\ j \in Int /\ i # j /\ i < z.at /\ ~(j < z.at)
  BY ZoneTypes DEF Wall, Offset
<1>2. Wall(z, i) = w /\ Wall(z, j) = w
  BY <1>1, ZoneTypes DEF Wall, Offset
<1>3. i \in Moments(z, w) /\ j \in Moments(z, w)
  BY <1>2 DEF Moments
<1> QED
  BY <1>1, <1>3

(* What the types say of the numbers.                                      *)
LEMMA NumberTypes ==
  ASSUME PTypeOK
  PROVE  /\ now \in Int
         /\ till # NoTime => till \in Int
         /\ from # NoTime => from \in Int
         /\ \A p \in DOMAIN taken : taken[p] \in Int /\ taken[p] <= now
                                    /\ PunchTime(p) \in Int
<1>1. Hours \subseteq Int
  BY HorizonAssumption DEF Hours
<1>2. \A p \in DOMAIN taken : taken[p] \in Int /\ taken[p] <= now
  BY <1>1 DEF PTypeOK
<1> QED
  BY <1>1, <1>2, ZoneTypes DEF PTypeOK, Times, PunchTime

(* A punch that an end far enough in the past does not exclude has been    *)
(* uploaded, and was made before the present.                              *)
LEMMA Settled ==
  ASSUME PTypeOK, Far, NEW t \in Int, t + Margin <= now,
         NEW p \in DOMAIN taken, PunchTime(p) <= Wall(zone, t)
  PROVE  p \in arrived /\ taken[p] < now
<1>1. taken[p] \in Int /\ now \in Int
  BY NumberTypes
<1>2. taken[p] <= t + Repeated(zone)
  BY <1>1, WallOrder DEF PunchTime, PTypeOK
<1>3. Repeated(zone) \in Nat
  BY ZoneTypes DEF PTypeOK
<1>4. taken[p] + Delay < now
  BY <1>1, <1>2, <1>3, DelayAssumption, MarginAssumption DEF Far
<1>5. p \in arrived
  BY <1>1, <1>4, DelayAssumption DEF PTypeOK
<1> QED
  BY <1>1, <1>4, <1>5, DelayAssumption

-----------------------------------------------------------------------------
(* Before the first run nothing is due.                                    *)
LEMMA InitPInv == PInit => PInv
<1> SUFFICES ASSUME PInit PROVE PInv
  OBVIOUS
<1>1. PTypeOK
  BY HorizonAssumption DEF PInit, PTypeOK, Hours, Times
<1>2. Ends /\ DueIsAll /\ Inside /\ Earlier /\ ExportIsLossless
  BY DEF PInit, Ends, DueIsAll, Inside, Earlier, ExportIsLossless
<1> QED
  BY <1>1, <1>2 DEF PInv

(* Terminals and the clock: what the run and the caller hold stays.        *)
LEMMA StepPunch ==
  ASSUME PInv, NEW p \in Punches, Punch(p)
  PROVE  PInv'
<1> USE DEF PInv
<1> DEFINE T == DOMAIN taken
<1>1. /\ p \notin T /\ DOMAIN taken' = T \cup {p} /\ taken'[p] = now
      /\ \A q \in T : taken'[q] = taken[q]
      /\ UNCHANGED <<zone, now, arrived, from, till, due, out, exported>>
  BY DEF Punch, run
<1>2. now \in Nat
  BY HorizonAssumption DEF PTypeOK, Hours
<1>3. PTypeOK'
  <2>1. taken' \in [DOMAIN taken' -> 0..now']
    BY <1>1, <1>2 DEF Punch, PTypeOK
  <2>2. DOMAIN taken' \subseteq Punches
    BY <1>1 DEF PTypeOK
  <2>3. \A q \in DOMAIN taken' \ arrived' : now' <= taken'[q] + Delay
    BY <1>1, <1>2, DelayAssumption DEF PTypeOK
  <2> QED
    BY <1>1, <2>1, <2>2, <2>3 DEF PTypeOK
<1>4. \A q \in T : (PunchTime(q))' = PunchTime(q)
  BY <1>1 DEF PunchTime
<1>5. \A t \in Int : Far /\ t + Margin <= now => ~((PunchTime(p))' <= Wall(zone, t))
  <2> SUFFICES ASSUME NEW t \in Int, Far, t + Margin <= now, Wall(zone, now) <= Wall(zone, t)
               PROVE  FALSE
    BY <1>1 DEF PunchTime
  <2>1. now <= t + Repeated(zone) /\ Repeated(zone) \in Nat
    BY <1>2, WallOrder, ZoneTypes DEF PTypeOK
  <2> QED
    BY <2>1, <1>2, DelayAssumption, MarginAssumption DEF Far
<1>6. Ends' /\ Far' = Far
  BY <1>1 DEF Ends, Far
<1>7. DueIsAll'
  <2> SUFFICES ASSUME Far, till # NoTime, NEW q \in DOMAIN taken', Within(q, from, till)'
               PROVE  q \in due
    BY <1>1, <1>6 DEF DueIsAll
  <2>1. q # p
    BY <1>1, <1>5, NumberTypes DEF Within, Ends
  <2>2. Within(q, from, till)
    BY <1>1, <1>4, <2>1 DEF Within
  <2> QED
    BY <1>1, <2>1, <2>2 DEF DueIsAll
<1>8. Inside' /\ Earlier'
  BY <1>1, <1>4 DEF Inside, Earlier, PTypeOK
<1>9. ExportIsLossless'
  <2> SUFFICES ASSUME Far, from # NoTime, NEW q \in DOMAIN taken',
                      (PunchTime(q))' <= Wall(zone, from)
               PROVE  q \in exported
    BY <1>1 DEF ExportIsLossless, Far
  <2>1. q # p
    BY <1>5, NumberTypes DEF Ends
  <2> QED
    BY <1>1, <1>4, <2>1 DEF ExportIsLossless, Far
<1> QED
  BY <1>3, <1>6, <1>7, <1>8, <1>9

(* An upload changes what is on the server, and of no window that is due.  *)
LEMMA StepUpload ==
  ASSUME PInv, NEW p \in Punches, Upload(p)
  PROVE  PInv'
<1> USE DEF PInv
<1>1. /\ p \in DOMAIN taken /\ arrived' = arrived \cup {p}
      /\ UNCHANGED <<zone, now, taken, from, till, due, out, exported>>
  BY DEF Upload, run
<1>2. PTypeOK'
  BY <1>1 DEF PTypeOK
<1>3. Ends' /\ DueIsAll' /\ Inside' /\ Earlier' /\ ExportIsLossless'
  BY <1>1 DEF Ends, DueIsAll, Inside, Earlier, ExportIsLossless, Far, Within, PunchTime
<1> QED
  BY <1>2, <1>3

(* Time passes, and no punch outstays its delay on a terminal.             *)
LEMMA StepTick ==
  ASSUME PInv, Tick
  PROVE  PInv'
<1> USE DEF PInv
<1>1. /\ now' = now + 1 /\ now < Horizon
      /\ \A p \in DOMAIN taken \ arrived : now < taken[p] + Delay
      /\ UNCHANGED <<zone, taken, arrived, from, till, due, out, exported>>
  BY DEF Tick, run
<1>2. PTypeOK'
  <2>1. now \in Nat /\ now' \in Hours
    BY <1>1, HorizonAssumption DEF PTypeOK, Hours
  <2>2. taken' \in [DOMAIN taken' -> 0..now']
    BY <1>1, <2>1 DEF PTypeOK
  <2>3. \A p \in DOMAIN taken' \ arrived' : now' <= taken'[p] + Delay
    BY <1>1, <2>1, NumberTypes, DelayAssumption
  <2> QED
    BY <1>1, <2>1, <2>2, <2>3 DEF PTypeOK
<1>3. Ends'
  BY <1>1, NumberTypes, MarginAssumption DEF Ends
<1>4. DueIsAll' /\ Inside' /\ Earlier' /\ ExportIsLossless'
  BY <1>1 DEF DueIsAll, Inside, Earlier, ExportIsLossless, Far, Within, PunchTime
<1> QED
  BY <1>2, <1>3, <1>4

-----------------------------------------------------------------------------
(* The run.                                                                *)
LEMMA StepBegin ==
  ASSUME PInv, Begin
  PROVE  PInv'
<1> USE DEF PInv
<1>1. /\ till' = now - Margin /\ till' \in Hours
      /\ from # NoTime => from < till'
      /\ due' = {p \in arrived : Within(p, from, till')}
      /\ out' = {}
      /\ UNCHANGED <<zone, now, taken, arrived, from, exported>>
  BY DEF Begin, terminals
<1>2. till' \in Int /\ till' + Margin = now
  BY <1>1, NumberTypes, MarginAssumption
<1>3. PTypeOK'
  BY <1>1 DEF PTypeOK, Times
<1>4. Ends'
  BY <1>1, <1>2, NumberTypes DEF Ends
<1>5. DueIsAll'
  <2> SUFFICES ASSUME Far, NEW p \in DOMAIN taken, Within(p, from, till')
               PROVE  p \in due'
    BY <1>1 DEF DueIsAll, Far, Within, PunchTime
  <2>1. p \in arrived
    BY <1>2, NumberTypes, Settled DEF Within
  <2> QED
    BY <1>1, <2>1
<1>6. Inside' /\ Earlier' /\ ExportIsLossless'
  BY <1>1 DEF Inside, Earlier, ExportIsLossless, PunchTime
<1> QED
  BY <1>3, <1>4, <1>5, <1>6

(* What a run hands over lies in its window.                               *)
LEMMA StepDeliver ==
  ASSUME PInv, NEW S \in SUBSET Punches, Deliver(S)
  PROVE  PInv'
<1> USE DEF PInv
<1>1. /\ till # NoTime /\ S \subseteq Window /\ out' = out \cup S
      /\ UNCHANGED <<zone, now, taken, arrived, from, till, due, exported>>
  BY DEF Deliver, terminals
<1>2. \A p \in S : p \in arrived /\ PunchTime(p) <= Wall(zone, till)
  BY <1>1 DEF Window, Within
<1>3. PTypeOK'
  BY <1>1, <1>2 DEF PTypeOK
<1>4. Inside'
  BY <1>1, <1>2 DEF Inside, PunchTime
<1>5. Ends' /\ DueIsAll' /\ Earlier' /\ ExportIsLossless'
  BY <1>1 DEF Ends, DueIsAll, Earlier, ExportIsLossless, Far, Within, PunchTime
<1> QED
  BY <1>3, <1>4, <1>5

(* A complete run has handed over all that was due, and that is all.       *)
LEMMA StepComplete ==
  ASSUME PInv, Complete
  PROVE  PInv'
<1> USE DEF PInv
<1>1. /\ due \subseteq out /\ till # NoTime /\ from' = till /\ till' = NoTime
      /\ due' = {} /\ out' = {} /\ exported' = exported \cup out
      /\ UNCHANGED <<zone, now, taken, arrived>>
  BY DEF Complete, Close, Finish, terminals
<1>2. PTypeOK'
  BY <1>1 DEF PTypeOK, Times
<1>3. Ends' /\ DueIsAll' /\ Inside'
  BY <1>1 DEF Ends, DueIsAll, Inside
<1>4. till \in Hours
  BY <1>1 DEF PTypeOK, Times
<1>5. Earlier'
  <2> SUFFICES ASSUME NEW p \in exported'
               PROVE  \E t \in Hours : t <= till /\ PunchTime(p) <= Wall(zone, t)
    BY <1>1 DEF Earlier, PunchTime
  <2>1. CASE p \in out
    BY <1>1, <1>4, <2>1, NumberTypes DEF Inside
  <2>2. CASE p \in exported
    <3>1. PICK t \in Hours : t <= from /\ PunchTime(p) <= Wall(zone, t)
      BY <2>2 DEF Earlier
    <3>2. from \in Int /\ till \in Int /\ from < till /\ t \in Int
      BY <1>1, <2>2, NumberTypes, HorizonAssumption DEF Earlier, Ends, Hours
    <3> QED
      BY <3>1, <3>2
  <2> QED
    BY <1>1, <2>1, <2>2
<1>6. ExportIsLossless'
  <2> SUFFICES ASSUME Far, NEW p \in DOMAIN taken, PunchTime(p) <= Wall(zone, till)
               PROVE  p \in exported \cup out
    BY <1>1 DEF ExportIsLossless, Far, PunchTime
  <2>1. CASE Within(p, from, till)
    BY <1>1, <2>1 DEF DueIsAll
  <2>2. CASE ~Within(p, from, till)
    <3>1. from # NoTime /\ ~(Wall(zone, from) <= PunchTime(p))
      BY <2>2 DEF Within
    <3>2. PunchTime(p) <= Wall(zone, from)
      BY <3>1, NumberTypes, ZoneTypes DEF PTypeOK
    <3> QED
      BY <3>1, <3>2 DEF ExportIsLossless, Far
  <2> QED
    BY <2>1, <2>2
<1> QED
  BY <1>2, <1>3, <1>5, <1>6

(* A failed run leaves the StartTime where it was.                         *)
LEMMA StepAbandon ==
  ASSUME PInv, Abandon
  PROVE  PInv'
<1> USE DEF PInv
<1>1. /\ till' = NoTime /\ due' = {} /\ out' = {} /\ exported' = exported
      /\ UNCHANGED <<zone, now, taken, arrived, from>>
  BY DEF Abandon, Finish, terminals
<1>2. PTypeOK'
  BY <1>1 DEF PTypeOK, Times
<1>3. Ends' /\ DueIsAll' /\ Inside' /\ Earlier' /\ ExportIsLossless'
  BY <1>1 DEF Ends, DueIsAll, Inside, Earlier, ExportIsLossless, PunchTime
<1> QED
  BY <1>2, <1>3

-----------------------------------------------------------------------------
(* Every step of the export preserves the account.                         *)
LEMMA NextPInv ==
  ASSUME PInv, [PNext]_pvars
  PROVE  PInv'
<1>1. CASE UNCHANGED pvars
  BY <1>1 DEF PInv, PTypeOK, Ends, DueIsAll, Inside, Earlier, ExportIsLossless,
              Far, Within, PunchTime, pvars, terminals, run
<1>2. CASE PNext
  BY <1>2, StepPunch, StepUpload, StepTick, StepBegin, StepDeliver, StepComplete,
     StepAbandon DEF PNext
<1> QED
  BY <1>1, <1>2

(* The ends of the windows, what is due, and what was exported account for *)
(* every punch (TransactionFilter, and the recipe of README.md).           *)
THEOREM PunchInductive == PSpec => []PInv
<1> QED
  BY InitPInv, NextPInv, PTL DEF PSpec

(* Every variable of the export keeps its type.                            *)
THEOREM PunchTypes == PSpec => []PTypeOK
<1>1. PInv => PTypeOK
  BY DEF PInv
<1> QED
  BY <1>1, PunchInductive, PTL

(* No punch is left behind, for any zone, delay and margin beyond the      *)
(* delay and the hour the zone repeats (TransactionFilter: set EndTime in  *)
(* the past, continue from there).                                         *)
THEOREM NothingLeftBehind == PSpec => []ExportIsLossless
<1>1. PInv => ExportIsLossless
  BY DEF PInv
<1> QED
  BY <1>1, PunchInductive, PTL

(* A punch of a complete run is handed out again only at a seam (StartTime *)
(* and EndTime are inclusive).                                             *)
THEOREM RepeatedAtTheSeam == PSpec => AgainOnlyAtTheSeam
<1> DEFINE Seam(p) == \/ PunchTime(p) = Wall(zone, from)
                      \/ \E i, j \in Moments(zone, PunchTime(p)) : i # j
<1>1. PInv /\ [PNext]_pvars => [\A p \in (out' \ out) \cap exported : Seam(p)]_pvars
  <2> SUFFICES ASSUME PInv, PNext, NEW p \in (out' \ out) \cap exported
               PROVE  Seam(p)
    OBVIOUS
  <2> USE DEF PInv
  <2>1. PICK S \in SUBSET Punches : Deliver(S)
    BY DEF PNext, Punch, Upload, Tick, Begin, Complete, Close, Abandon, Finish, run
  <2>2. p \in DOMAIN taken /\ Within(p, from, till)
    BY <2>1 DEF Deliver, Window, PTypeOK
  <2>3. PICK t \in Hours : t <= from /\ PunchTime(p) <= Wall(zone, t)
    BY DEF Earlier
  <2>4. /\ from \in Int /\ t \in Int /\ PunchTime(p) \in Int
        /\ from # NoTime /\ zone \in Zones
    BY <2>2, NumberTypes, HorizonAssumption DEF Earlier, Hours, PTypeOK
  <2>5. Wall(zone, from) <= PunchTime(p)
    BY <2>2, <2>4 DEF Within
  <2>6. CASE Wall(zone, from) < PunchTime(p)
    BY <2>3, <2>4, <2>6, ShownTwice
  <2> QED
    BY <2>4, <2>5, <2>6, ZoneTypes
<1> QED
  BY <1>1, PunchInductive, PTL DEF PSpec, AgainOnlyAtTheSeam

-----------------------------------------------------------------------------
(* EndTime lies far enough back for every zone the server may be in.       *)
Safe == \A z \in Zones : Margin > Delay + Repeated(z)

(* What a walk has handed over is what the pages up to its own hold: the   *)
(* window is settled, so that a page is the same rows whenever it is read. *)
Walked ==
  /\ IsFiniteSet(arrived)
  /\ id \in [arrived -> Nat]
  /\ till # NoTime => due = Window
  /\ page \in Nat
  /\ page > 0 => till # NoTime /\ out = {p \in due : Rank(p) < (page - 1) * PageSize}
  /\ page = 0 /\ till # NoTime => out = due

XInv == PInv /\ Walked

(* A row has a rank below the number of rows.                              *)
LEMMA RankBound ==
  ASSUME PTypeOK, IsFiniteSet(arrived), id \in [arrived -> Nat], NEW p \in Window
  PROVE  Rank(p) \in Nat /\ Cardinality(Window) \in Nat /\ Rank(p) < Cardinality(Window)
<1> DEFINE earlier == {q \in Window : Before(q, p)}
<1>1. IsFiniteSet(Window) /\ Cardinality(Window) \in Nat
  BY FS_Subset, FS_CardinalityType DEF Window
<1>2. IsFiniteSet(earlier) /\ Cardinality(earlier) \in Nat
      /\ Cardinality(earlier) <= Cardinality(Window)
  BY <1>1, FS_Subset, FS_CardinalityType
<1>3. p \notin earlier
  <2>1. PunchTime(p) \in Int /\ id[p] \in Nat
    BY NumberTypes DEF Window, PTypeOK
  <2> QED
    BY <2>1 DEF Before
<1>4. Cardinality(earlier) # Cardinality(Window)
  BY <1>1, <1>3, FS_Subset
<1> QED
  BY <1>1, <1>2, <1>4 DEF Rank

(* Ranks stay while the rows of the window do.                             *)
LEMMA RankStays ==
  ASSUME Window' = Window,
         \A p \in Window : (PunchTime(p))' = PunchTime(p) /\ id'[p] = id[p]
  PROVE  \A p \in Window : (Rank(p))' = Rank(p)
<1> SUFFICES ASSUME NEW p \in Window PROVE (Rank(p))' = Rank(p)
  OBVIOUS
<1>1. \A q \in Window : (Before(q, p))' <=> Before(q, p)
  BY DEF Before
<1>2. {q \in Window : Before(q, p)}' = {q \in Window : Before(q, p)}
  BY <1>1
<1> QED
  BY <1>2 DEF Rank

(* While a run goes on its window is settled: what comes up later is not   *)
(* in it, so that rows and ranks stay as they are.                         *)
LEMMA WindowStays ==
  ASSUME Safe, XInv, till # NoTime, PTypeOK', UNCHANGED <<zone, from, till>>,
         arrived \subseteq arrived',
         \A p \in arrived' \ arrived : p \in DOMAIN taken,
         \A p \in DOMAIN taken : (PunchTime(p))' = PunchTime(p),
         \A p \in arrived : id'[p] = id[p]
  PROVE  Window' = Window /\ \A p \in Window : (Rank(p))' = Rank(p)
<1> USE DEF XInv, PInv
<1>1. \A p \in DOMAIN taken : Within(p, from, till)' <=> Within(p, from, till)
  BY DEF Within
<1>2. \A p \in DOMAIN taken : Within(p, from, till) => p \in arrived
  BY DEF Safe, Far, DueIsAll, PTypeOK
<1>3. arrived \subseteq DOMAIN taken /\ arrived' \subseteq DOMAIN taken
  BY DEF PTypeOK
<1>4. Window' = Window
  BY <1>1, <1>2, <1>3 DEF Window
<1>5. \A p \in Window : (PunchTime(p))' = PunchTime(p) /\ id'[p] = id[p]
  BY <1>3 DEF Window
<1> QED
  BY <1>4, <1>5, RankStays

(* Before the first run no page has been fetched.                          *)
LEMMA InitXInv == XInit => XInv
<1> SUFFICES ASSUME XInit PROVE XInv
  OBVIOUS
<1>1. Walked
  BY FS_EmptySet DEF XInit, PInit, Walked
<1> QED
  BY <1>1, InitPInv DEF XInit, XInv

(* Every step of a walk is a step of a run, or none.                       *)
LEMMA WalkIsARun ==
  ASSUME Safe, XInv, [XNext]_xvars
  PROVE  [PNext]_pvars
<1> USE DEF XInv
<1>1. CASE FetchPage
  <2>1. PageRows(page) \in SUBSET Punches
    BY DEF PageRows, Window, PInv, PTypeOK
  <2> QED
    BY <1>1, <2>1 DEF FetchPage, PNext
<1>2. CASE XClose
  <2>1. due \subseteq out
    BY <1>2 DEF XClose, Close, Finish, Walked
  <2> QED
    BY <1>2, <2>1 DEF XClose, Complete, PNext
<1> QED
  BY <1>1, <1>2 DEF XNext, XUpload, XBegin, XAbandon, PNext, xvars

(* A run has handed over every punch of its window that sorts before the   *)
(* page under way; an upload cannot get in between.                        *)
LEMMA StepWalked ==
  ASSUME Safe, XInv, [XNext]_xvars
  PROVE  Walked'
<1> USE DEF XInv
<1>0. PInv'
  BY WalkIsARun, NextPInv
<1>1. ASSUME NEW p \in Punches, XUpload(p) PROVE Walked'
  <2>1. /\ p \in DOMAIN taken \ arrived /\ arrived' = arrived \cup {p}
        /\ id' = [q \in arrived' |-> IF q = p THEN Cardinality(arrived') ELSE id[q]]
        /\ UNCHANGED <<zone, now, taken, from, till, due, out, exported, page>>
    BY <1>1 DEF XUpload, Upload, run
  <2>2. IsFiniteSet(arrived') /\ Cardinality(arrived') \in Nat
    BY <2>1, FS_AddElement, FS_CardinalityType DEF Walked
  <2>3. id' \in [arrived' -> Nat]
    BY <2>1, <2>2 DEF Walked
  <2>4. CASE till # NoTime
    <3>1. Window' = Window /\ \A q \in Window : (Rank(q))' = Rank(q)
      BY <1>0, <2>1, <2>4, WindowStays DEF PInv, PunchTime, Walked
    <3> QED
      BY <2>1, <2>2, <2>3, <2>4, <3>1 DEF Walked
  <2>5. CASE till = NoTime
    BY <2>1, <2>2, <2>3, <2>5 DEF Walked
  <2> QED
    BY <2>4, <2>5
<1>2. ASSUME NEW p \in Punches, Punch(p), UNCHANGED <<id, page>> PROVE Walked'
  <2>1. /\ \A q \in DOMAIN taken : (PunchTime(q))' = PunchTime(q)
        /\ UNCHANGED <<zone, now, arrived, from, till, due, out, exported>>
    BY <1>2 DEF Punch, run, PunchTime
  <2>2. CASE till # NoTime
    <3>1. Window' = Window /\ \A q \in Window : (Rank(q))' = Rank(q)
      BY <1>0, <1>2, <2>1, <2>2, WindowStays DEF PInv
    <3> QED
      BY <1>2, <2>1, <2>2, <3>1 DEF Walked
  <2>3. CASE till = NoTime
    BY <1>2, <2>1, <2>3 DEF Walked
  <2> QED
    BY <2>2, <2>3
<1>3. ASSUME Tick \/ UNCHANGED pvars, UNCHANGED <<id, page>> PROVE Walked'
  <2>1. UNCHANGED <<zone, taken, arrived, from, till, due, out, exported>>
    BY <1>3 DEF Tick, run, pvars, terminals
  <2>2. Window' = Window /\ \A q \in Window : (Rank(q))' = Rank(q)
    <3>1. Window' = Window
      BY <2>1 DEF Window, Within, PunchTime
    <3> QED
      BY <1>3, <2>1, <3>1, RankStays DEF PunchTime
  <2> QED
    BY <1>3, <2>1, <2>2 DEF Walked
<1>4. CASE XBegin
  <2>1. /\ till' # NoTime /\ due' = {p \in arrived : Within(p, from, till')}
        /\ out' = {} /\ page' = 1
        /\ UNCHANGED <<zone, taken, arrived, from, id>>
    BY <1>4, HorizonAssumption, NoTimeAssumption
       DEF XBegin, Begin, terminals, Hours
  <2>2. due' = Window'
    BY <2>1 DEF Window, Within, PunchTime
  <2>3. \A p \in Window' : (Rank(p))' \in Nat
    <3> SUFFICES ASSUME NEW p \in Window' PROVE (Rank(p))' \in Nat
      OBVIOUS
    <3> DEFINE earlier == {q \in Window' : (Before(q, p))'}
    <3>1. earlier \in SUBSET arrived /\ (Rank(p))' = Cardinality(earlier)
      BY <2>1 DEF Window, Rank
    <3> HIDE DEF earlier
    <3> QED
      BY <3>1, FS_Subset, FS_CardinalityType DEF Walked
  <2>4. {p \in due' : (Rank(p))' < (page' - 1) * PageSize} = {}
    BY <2>1, <2>2, <2>3, PageSizeAssumption
  <2> QED
    BY <2>1, <2>2, <2>4 DEF Walked
<1>5. CASE FetchPage
  <2>1. /\ page > 0 /\ till # NoTime /\ out' = out \cup PageRows(page)
        /\ page' = IF page * PageSize < Cardinality(Window) THEN page + 1 ELSE 0
        /\ UNCHANGED <<zone, now, taken, arrived, from, till, due, exported, id>>
    BY <1>5 DEF FetchPage, Deliver, terminals
  <2>2. Window' = Window
    BY <2>1 DEF Window, Within, PunchTime
  <2>3. \A p \in due : (Rank(p))' = Rank(p)
    BY <2>1, <2>2, RankStays DEF Walked, PunchTime
  <2>4. page \in Nat /\ (page - 1) * PageSize \in Int /\ page * PageSize \in Nat
        /\ (page - 1) * PageSize <= page * PageSize
    BY PageSizeAssumption DEF Walked
  <2>5. out' = {p \in due : Rank(p) < page * PageSize}
    <3>1. \A p \in due : Rank(p) \in Nat
      BY <2>1, RankBound DEF Walked, PInv
    <3> QED
      BY <2>1, <2>4, <3>1 DEF Walked, PageRows
  <2>6. CASE page * PageSize < Cardinality(Window)
    <3>1. page' = page + 1 /\ page' \in Nat /\ page' > 0 /\ page' - 1 = page
      BY <2>1, <2>4, <2>6
    <3> QED
      BY <2>1, <2>2, <2>3, <2>5, <3>1 DEF Walked
  <2>7. CASE ~(page * PageSize < Cardinality(Window))
    <3>1. \A p \in due : Rank(p) < page * PageSize
      BY <2>1, <2>4, <2>7, RankBound DEF Walked, PInv
    <3>2. out' = due /\ page' = 0
      BY <2>1, <2>5, <2>7, <3>1
    <3> QED
      BY <2>1, <2>2, <3>2 DEF Walked
  <2> QED
    BY <2>6, <2>7
<1>6. CASE XClose \/ XAbandon
  BY <1>6 DEF XClose, Close, XAbandon, Abandon, Finish, terminals, Walked
<1> QED
  BY <1>1, <1>2, <1>3, <1>4, <1>5, <1>6 DEF XNext, xvars

(* The walks of an export are runs over its windows: they hand over rows   *)
(* of the window alone and, without an error, all that were due            *)
(* (TransactionService.All, for any page size and number of punches).      *)
THEOREM WalksAreRuns == ASSUME Safe PROVE XSpec => WindowsSpec
<1>1. XInit => PInit
  BY DEF XInit
<1>2. XInv /\ [XNext]_xvars => XInv' /\ [PNext]_pvars
  BY WalkIsARun, StepWalked, NextPInv DEF XInv
<1> QED
  BY <1>1, <1>2, InitXInv, PTL DEF XSpec, WindowsSpec, PSpec

(* No page shows a row again that an earlier page of its walk had          *)
(* (README.md, Exporting punches).                                         *)
THEOREM PagesAreStill == ASSUME Safe PROVE XSpec => PagesStandStill
<1> DEFINE Still == page > 0 /\ page' # page /\ till' # NoTime =>
                      PageRows(page) \cap out = {}
<1>1. XInv /\ [XNext]_xvars => XInv'
  BY WalkIsARun, StepWalked, NextPInv DEF XInv
<1>2. XInv => [Still]_xvars
  <2> SUFFICES ASSUME XInv, page > 0, NEW p \in PageRows(page), p \in out
               PROVE  FALSE
    OBVIOUS
  <2>1. (page - 1) * PageSize <= Rank(p) /\ Rank(p) < (page - 1) * PageSize /\ p \in Window
    BY DEF XInv, Walked, PageRows
  <2>2. Rank(p) \in Nat
    BY <2>1, RankBound DEF XInv, PInv, Walked
  <2>3. (page - 1) * PageSize \in Int
    BY PageSizeAssumption DEF XInv, Walked
  <2> QED
    BY <2>1, <2>2, <2>3
<1> QED
  BY <1>1, <1>2, InitXInv, PTL DEF XSpec, PagesStandStill

(* An export by walks over pages leaves no punch behind.                   *)
THEOREM PagesAreLossless == ASSUME Safe PROVE XSpec => []ExportIsLossless
<1> QED
  BY WalksAreRuns, NothingLeftBehind, PTL DEF WindowsSpec

(* It repeats a punch of a complete walk at a seam alone.                  *)
THEOREM PagesRepeatAtTheSeam == ASSUME Safe PROVE XSpec => AgainOnlyAtTheSeam
<1> QED
  BY WalksAreRuns, RepeatedAtTheSeam, PTL DEF WindowsSpec
=============================================================================
