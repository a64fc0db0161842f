---------------------------- MODULE PunchWindows ----------------------------
(***************************************************************************)
(* What an incremental export of punches promises (comment of              *)
(* TransactionFilter, transactions.go).  The caller runs it again and      *)
(* again; each run asks for the punches between the EndTime of the last    *)
(* run that was complete and an EndTime that lies Margin in the past.      *)
(* Both ends are instants, and q.time sends the wall clock the zone shows  *)
(* for them; the server compares it with the wall clock of each punch.  A  *)
(* terminal uploads a punch up to Delay after it was made.                 *)
(*                                                                         *)
(* A run is abstract here: it may be handed any punches of its window, and *)
(* is complete when it has all that were there when it began.  Terminals,  *)
(* server and caller have the same time.                                   *)
(***************************************************************************)
EXTENDS ZoneTime

CONSTANTS
  Punches,   \* the punches that will be made
  Delay,     \* the longest time a terminal keeps a punch to itself
  Margin,    \* how far in the past EndTime is
  NoTime     \* the zero time.Time: no bound

ASSUME DelayAssumption  == Delay \in Nat
ASSUME MarginAssumption == Margin \in Nat
ASSUME NoTimeAssumption == NoTime \notin Int

VARIABLES
  zone,      \* the zone of the server, which the client was given
  now,
  taken,     \* the instant of each punch made so far
  arrived,   \* the punches on the server
  from,      \* StartTime of the current or next run, or NoTime
  till,      \* EndTime of the current run; NoTime between runs
  due,       \* history: what was in the window when the run began
  out,       \* the punches the current run has handed to the caller
  exported   \* the punches of the complete runs

terminals == <<zone, now, taken, arrived>>
run       == <<from, till, due, out, exported>>
pvars     == <<terminals, run>>

(* The wall clock of a punch, its punch_time.                              *)
PunchTime(p) == Wall(zone, taken[p])

(* Mutant of Within: StartTime is not sent.                                *)
WithinNoStart(p, start, end) == PunchTime(p) <= Wall(zone, end)

(* The server's filter: both ends are inclusive, and the zero time is not  *)
(* sent.                                                                   *)
Within(p, start, end) ==
  /\ start # NoTime => Wall(zone, start) <= PunchTime(p)
  /\ PunchTime(p) <= Wall(zone, end)

Window == {p \in arrived : Within(p, from, till)}

PInit ==
  /\ zone \in Zones
  /\ now = 0
  /\ taken = [p \in {} |-> 0]
  /\ arrived = {}
  /\ from = NoTime
  /\ till = NoTime
  /\ due = {}
  /\ out = {}
  /\ exported = {}

-----------------------------------------------------------------------------
Punch(p) ==
  /\ p \notin DOMAIN taken
  /\ taken' = [q \in DOMAIN taken \cup {p} |-> IF q = p THEN now ELSE taken[q]]
  /\ UNCHANGED <<zone, now, arrived, run>>

Upload(p) ==
  /\ p \in DOMAIN taken \ arrived
  /\ arrived' = arrived \cup {p}
  /\ UNCHANGED <<zone, now, taken, run>>

(* Time passes, but not past the moment a punch has to be uploaded.        *)
Tick ==
  /\ now < Horizon
  /\ \A p \in DOMAIN taken \ arrived : now < taken[p] + Delay
  /\ now' = now + 1
  /\ UNCHANGED <<zone, taken, arrived, run>>

(* Mutant of Begin: the window is open to the present.                     *)
BeginAtOnce ==
  /\ till = NoTime
  /\ from # NoTime => from < now
  /\ till' = now
  /\ due' = {p \in arrived : Within(p, from, till')}
  /\ out' = {}
  /\ UNCHANGED <<terminals, from, exported>>

(* A run begins, with a window later than the last one.                    *)
Begin ==
  /\ till = NoTime
  /\ now - Margin \in Hours
  /\ from # NoTime => from < now - Margin
  /\ till' = now - Margin
  /\ due' = {p \in arrived : Within(p, from, till')}
  /\ out' = {}
  /\ UNCHANGED <<terminals, from, exported>>

Deliver(S) ==
  /\ till # NoTime
  /\ S \subseteq Window
  /\ out' = out \cup S
  /\ UNCHANGED <<terminals, from, till, due, exported>>

(* The run is over, and the next one continues from start.                 *)
Finish(start, S) ==
  /\ till # NoTime
  /\ from' = start
  /\ till' = NoTime
  /\ due' = {}
  /\ out' = {}
  /\ exported' = exported \cup S
  /\ UNCHANGED terminals

(* A walk that ended without an error.                                     *)
Close == Finish(till, out)

(* The walk ended with an error, or the caller stopped it.                 *)
Abandon == Finish(from, {})

Complete == due \subseteq out /\ Close

PNext ==
  \/ \E p \in Punches : Punch(p) \/ Upload(p)
  \/ Tick
  \/ Begin \/ Complete \/ Abandon
  \/ \E S \in SUBSET Punches : Deliver(S)

PSpec == PInit /\ [][PNext]_pvars

-----------------------------------------------------------------------------
(* How far the zone sets its clocks back.                                  *)
Repeated(z) == IF Gap(z) < 0 THEN -Gap(z) ELSE 0

Times == Hours \cup {NoTime}

(* Every variable has its type, and a punch is uploaded before its delay   *)
(* is over.                                                                *)
PTypeOK ==
  /\ zone \in Zones
  /\ now \in Hours
  /\ DOMAIN taken \subseteq Punches
  /\ taken \in [DOMAIN taken -> 0..now]
  /\ arrived \subseteq DOMAIN taken
  /\ from \in Times
  /\ till \in Times
  /\ due \subseteq arrived
  /\ out \subseteq arrived
  /\ exported \subseteq arrived
  /\ \A p \in DOMAIN taken \ arrived : now <= taken[p] + Delay

(* No punch is left behind: once a run is complete, every punch whose time *)
(* is not past its EndTime has been exported, late uploads, failed runs    *)
(* and clock changes notwithstanding, provided that EndTime lies farther   *)
(* back than the delay of a terminal and the hour the zone may repeat      *)
(* (TransactionFilter: set EndTime in the past, continue from there).      *)
ExportIsLossless ==
  Margin > Delay + Repeated(zone) /\ from # NoTime =>
    \A p \in DOMAIN taken : PunchTime(p) <= Wall(zone, from) => p \in exported

(* A punch of a complete run is handed out once more only at a seam: its   *)
(* time is the StartTime of the run, or lies in the hour the zone repeats  *)
(* (StartTime and EndTime are inclusive; README.md, dedupe on ID).         *)
AgainOnlyAtTheSeam ==
  [][\A p \in (out' \ out) \cap exported :
       \/ PunchTime(p) = Wall(zone, from)
       \/ \E i, j \in Moments(zone, PunchTime(p)) : i # j]_pvars
=============================================================================
