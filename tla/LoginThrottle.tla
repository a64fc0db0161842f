--------------------------- MODULE LoginThrottle ---------------------------
(***************************************************************************)
(* What a caller may rely on about the logins the client makes by itself,  *)
(* whatever the server answers and however many goroutines share it: they  *)
(* are made one at a time, none within Backoff ticks of a suspension, and  *)
(* no more than MaxFresh are granted in a row while the tokens they bring  *)
(* are of no use.                                                          *)
(***************************************************************************)
EXTENDS Naturals

CONSTANTS MaxFresh, Backoff

VARIABLES
  pending,   \* an automatic login is at the server
  spent,     \* tokens granted in a row without one being of use
  quiet      \* ticks for which no automatic login may be made

tvars == <<pending, spent, quiet>>

Init == ~pending /\ spent = 0 /\ quiet = 0

Ask ==
  /\ ~pending
  /\ quiet = 0
  /\ spent < MaxFresh
  /\ pending'
  /\ UNCHANGED <<spent, quiet>>

Granted ==
  /\ pending
  /\ ~pending'
  /\ spent' = spent + 1
  /\ UNCHANGED quiet

(* The server rejected the credentials, or a run of tokens it granted.     *)
Suspend ==
  /\ ~pending'
  /\ spent' = 0
  /\ quiet' = Backoff

NoVerdict ==
  /\ pending
  /\ ~pending'
  /\ UNCHANGED <<spent, quiet>>

(* A caller supplies a token or logs in by itself.                         *)
Lift ==
  /\ UNCHANGED pending
  /\ spent' = 0
  /\ quiet' = 0

(* A request was accepted with the token in use.                           *)
Useful ==
  /\ UNCHANGED <<pending, quiet>>
  /\ spent' = 0

Pass ==
  /\ quiet > 0
  /\ quiet' = quiet - 1
  /\ UNCHANGED <<pending, spent>>

Next == Ask \/ Granted \/ Suspend \/ NoVerdict \/ Lift \/ Useful \/ Pass

Spec == Init /\ [][Next]_tvars
=============================================================================
