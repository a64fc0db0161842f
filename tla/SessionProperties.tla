------------------------- MODULE SessionProperties -------------------------
(***************************************************************************)
(* What the authentication session promises, stated about module Session.  *)
(***************************************************************************)
EXTENDS Session

(* Every variable of the session has its type, and the count of refused    *)
(* fresh tokens stays within maxFreshRejections.                           *)
TypeOK ==
  /\ creds \in BOOLEAN
  /\ token \in Tokens \cup {NoToken}
  /\ unproven \in BOOLEAN
  /\ freshRejections \in 0..MaxFresh
  /\ gate \in 0..Backoff
  /\ loginMu \in Procs \cup {Free}
  /\ pc \in [Procs -> Where]
  /\ tok \in [Procs -> Tokens \cup {NoToken}]
  /\ fresh \in [Procs -> BOOLEAN]
  /\ remain \in [Procs -> 0..Backoff]
  /\ spent \in Nat
  /\ quiet \in 0..Backoff

(* loginMu serializes the automatic logins: a process is between the lock  *)
(* and the end of Login exactly when it holds the mutex.                   *)
LoginExclusive == \A p \in Procs : pc[p] \in Holding <=> loginMu = p

(* A server that refuses every token it issues is not asked for a new one  *)
(* per request: whatever it answers and however the requests interleave,   *)
(* at most maxFreshRejections tokens are obtained automatically before one *)
(* is accepted, somebody stores one on purpose, or the login is suspended  *)
(* (client.go, maxFreshRejections and refreshToken).                       *)
LoginBudget == spent <= MaxFresh

(* Why the budget holds: a token somebody vouched for has cost nothing,    *)
(* every other token in a row has a strike except the last one, and a      *)
(* login that is being made is one the count still has room for.           *)
Count ==
  /\ unproven => token # NoToken
  /\ ~unproven => spent = 0
  /\ spent <= freshRejections + 1
  /\ spent <= MaxFresh
  /\ \A p \in Procs : pc[p] \in {"gate", "judge"} /\ ~fresh[p] => spent = 0
  /\ \A p \in Procs : pc[p] = "login" => /\ spent <= freshRejections
                                         /\ spent < MaxFresh

(* Once an automatic login was rejected, or the tokens it obtained were    *)
(* refused too often, no request of any goroutine sends credentials again  *)
(* for loginBackoff unless the suspension is lifted: not even one that was *)
(* already waiting for loginMu (client.go, loginBackoff).                  *)
NoLoginInWindow == \A p \in Procs : pc[p] = "login" => quiet = 0

(* Why the window is quiet: the suspension in force lasts at least as long *)
(* as the one the automatic login earned by itself, and the holder of      *)
(* loginMu has seen it.                                                    *)
Window ==
  /\ quiet <= gate
  /\ \A p \in Procs : pc[p] = "judge" => quiet <= remain[p]
  /\ \A p \in Procs : pc[p] \in {"strike", "drop", "login"} => quiet = 0

(* The inductive invariant behind the safety of the session: all of the    *)
(* above together with the exclusion loginMu provides.                     *)
IInv == TypeOK /\ LoginExclusive /\ Count /\ Window

(* An automatic login is at the server.                                    *)
Pending == \E p \in Procs : pc[p] = "login"

(* The session implements the throttle that the documentation of Login     *)
(* promises: see module LoginThrottle.                                     *)
Throttle == INSTANCE LoginThrottle WITH pending <- Pending

ThrottleSpec == Throttle!Spec

(* No call is lost on the mutex or on the server: every request and every  *)
(* explicit Login returns, whoever else logs in, fails or is suspended.    *)
EveryCallReturns == \A p \in Procs : (pc[p] # "idle") ~> (pc[p] = "idle")
=============================================================================
