------------------------------ MODULE Session ------------------------------
(***************************************************************************)
(* The authentication session of a biotime Client (client.go): the token   *)
(* cell that every request reads, the automatic login that concurrent      *)
(* requests share, and the suspension that keeps a fleet of workers from   *)
(* retrying a bad password.  Each process of Procs is a goroutine that     *)
(* runs one call at a time: an authenticated request (exchange) or an      *)
(* explicit Client.Login.  Client.SetToken may come at any moment.         *)
(*                                                                         *)
(* The server is external and answers anything: a step that consumes an    *)
(* answer exists for every answer the code tells apart.  Module            *)
(* SessionServer composes this module with a server that keeps tokens.     *)
(*                                                                         *)
(* Grain.  Every critical section of tokenMu is one step.  Acquiring       *)
(* loginMu is one step with the token read that follows it, and releasing  *)
(* it is one step with the last write before it: no other process can tell *)
(* the difference, because acquiring only moves later and releasing only   *)
(* moves earlier in any interleaving.                                      *)
(***************************************************************************)
EXTENDS Naturals

CONSTANTS
  Procs,      \* the goroutines that share the client
  Tokens,     \* the access tokens a login may return or a caller may supply
  NoToken,    \* the empty string
  Free,       \* loginMu is not held
  MaxFresh,   \* maxFreshRejections
  Backoff     \* loginBackoff, in ticks of the clock behind it

ASSUME ProcsAssumption   == Free \notin Procs
ASSUME TokensAssumption  == NoToken \notin Tokens
ASSUME FreshAssumption   == MaxFresh \in Nat \ {0}
ASSUME BackoffAssumption == Backoff \in Nat \ {0}

VARIABLES
  creds,            \* whether New was given WithCredentials
  token,            \* Client.token
  unproven,         \* Client.unproven
  freshRejections,  \* Client.freshRejections, counted up to MaxFresh: the
                    \* code only asks whether it is 0 and below MaxFresh
  gate,             \* ticks for which the recorded rejection (loginErr,
                    \* loginFailed) still suspends the automatic login; 0
                    \* stands for no rejection and for one that has aged out
  loginMu,          \* the holder of Client.loginMu, or Free
  pc,               \* where each call is
  tok,              \* the token the call carries, or had refused
  fresh,            \* refreshToken's snapshot: t == rejected && unproven
  remain,           \* recentLoginFailure's snapshot of the suspension
  spent,            \* history: tokens obtained by the automatic login since
                    \* a token was accepted, a caller or a login stored one
                    \* on request, or the automatic login was suspended
  quiet             \* history: ticks until Backoff has passed since the
                    \* automatic login itself was last suspended; 0 once lifted

cell    == <<token, unproven, freshRejections, gate>>
local   == <<pc, tok, fresh, remain>>
history == <<spent, quiet>>
vars    == <<creds, cell, loginMu, local, history>>

(* Where a call can be.  Between "gate" and "login" it holds loginMu.      *)
Holding == {"gate", "judge", "strike", "drop", "login"}
Where   == Holding \cup {"idle", "ensure", "sent", "refresh", "resent",
                         "mark", "accept", "explicit"}

(* The call moves to w carrying t; what it had snapshotted is forgotten.   *)
Become(p, w, t) ==
  /\ pc'     = [pc     EXCEPT ![p] = w]
  /\ tok'    = [tok    EXCEPT ![p] = t]
  /\ fresh'  = [fresh  EXCEPT ![p] = FALSE]
  /\ remain' = [remain EXCEPT ![p] = 0]

Return(p) == Become(p, "idle", NoToken)

Goto(p, w) ==
  /\ pc' = [pc EXCEPT ![p] = w]
  /\ UNCHANGED <<tok, fresh, remain>>

Decr(n) == IF n = 0 THEN 0 ELSE n - 1

-----------------------------------------------------------------------------
(* The writes to the token cell, each one critical section of tokenMu.     *)

(* Mutant of StoreToken: every new token starts the count afresh.          *)
StoreTokenForgivesAll(t, isNew) ==
  /\ token'    = t
  /\ unproven' = isNew
  /\ freshRejections' = 0
  /\ gate'     = 0

StoreToken(t, isNew) ==
  /\ token'    = t
  /\ unproven' = isNew
  /\ freshRejections' = IF isNew THEN freshRejections ELSE 0
  /\ gate'     = 0

(* Mutant of RecordLoginFailure: the mark outlives the dropped token.      *)
RecordLoginFailureKeepsMark(dropToken) ==
  /\ token' = IF token = dropToken THEN NoToken ELSE token
  /\ gate'  = Backoff
  /\ UNCHANGED <<unproven, freshRejections>>

RecordLoginFailure(dropToken) ==
  LET dropped == dropToken # NoToken /\ token = dropToken IN
  /\ token'    = IF dropped THEN NoToken ELSE token
  /\ unproven' = (unproven /\ ~dropped)
  /\ gate'     = Backoff
  /\ UNCHANGED freshRejections

-----------------------------------------------------------------------------
Init ==
  /\ creds \in BOOLEAN
  /\ token \in Tokens \cup {NoToken}
  /\ unproven = FALSE
  /\ freshRejections = 0
  /\ gate = 0
  /\ loginMu = Free
  /\ pc     = [p \in Procs |-> "idle"]
  /\ tok    = [p \in Procs |-> NoToken]
  /\ fresh  = [p \in Procs |-> FALSE]
  /\ remain = [p \in Procs |-> 0]
  /\ spent = 0
  /\ quiet = 0

-----------------------------------------------------------------------------
(* ensureToken: use the token in the cell, or log in under loginMu.        *)

Begin(p) ==
  /\ pc[p] = "idle"
  /\ IF token # NoToken THEN Become(p, "sent", token)
                        ELSE Become(p, "ensure", NoToken)
  /\ UNCHANGED <<creds, cell, loginMu, history>>

(* Mutant of LockEnsure: logs in without taking loginMu.                   *)
LockEnsureUnlocked(p) ==
  /\ pc[p] = "ensure"
  /\ IF token # NoToken THEN Become(p, "sent", token) ELSE Goto(p, "gate")
  /\ UNCHANGED <<creds, cell, loginMu, history>>

LockEnsure(p) ==
  /\ pc[p] = "ensure"
  /\ loginMu = Free
  /\ IF token # NoToken
     THEN Become(p, "sent", token) /\ UNCHANGED loginMu
     ELSE Goto(p, "gate") /\ loginMu' = p
  /\ UNCHANGED <<creds, cell, history>>

(* Mutant of LockRefresh: a token replaced meanwhile is not made use of.   *)
LockRefreshAgain(p) ==
  /\ pc[p] = "refresh"
  /\ loginMu = Free
  /\ pc'    = [pc    EXCEPT ![p] = "gate"]
  /\ fresh' = [fresh EXCEPT ![p] = (token = tok[p]) /\ unproven]
  /\ loginMu' = p
  /\ UNCHANGED <<creds, cell, tok, remain, history>>

(* Mutant of LockRefresh: resends with the token that was refused.         *)
LockRefreshOldToken(p) ==
  /\ pc[p] = "refresh"
  /\ loginMu = Free
  /\ IF token # NoToken /\ token # tok[p]
     THEN Become(p, "resent", tok[p]) /\ UNCHANGED loginMu
     ELSE /\ pc'    = [pc    EXCEPT ![p] = "gate"]
          /\ fresh' = [fresh EXCEPT ![p] = (token = tok[p]) /\ unproven]
          /\ loginMu' = p
          /\ UNCHANGED <<tok, remain>>
  /\ UNCHANGED <<creds, cell, history>>

(* refreshToken, from the lock to the decision: a replaced token is used   *)
(* as it is; otherwise whether the refused one was ever accepted decides.  *)
LockRefresh(p) ==
  /\ pc[p] = "refresh"
  /\ loginMu = Free
  /\ IF token # NoToken /\ token # tok[p]
     THEN Become(p, "resent", token) /\ UNCHANGED loginMu
     ELSE /\ pc'    = [pc    EXCEPT ![p] = "gate"]
          /\ fresh' = [fresh EXCEPT ![p] = (token = tok[p]) /\ unproven]
          /\ loginMu' = p
          /\ UNCHANGED <<tok, remain>>
  /\ UNCHANGED <<creds, cell, history>>

(* recentLoginFailure copies the rejection under tokenMu, then compares it *)
(* with the clock outside of it.                                           *)
ReadGate(p) ==
  /\ pc[p] = "gate"
  /\ pc'     = [pc     EXCEPT ![p] = "judge"]
  /\ remain' = [remain EXCEPT ![p] = gate]
  /\ UNCHANGED <<creds, cell, loginMu, tok, fresh, history>>

Refuse(p) ==
  /\ pc[p] = "judge"
  /\ remain[p] > 0 \/ ~creds     \* suspended, or Login: ErrNoCredentials
  /\ Return(p)
  /\ loginMu' = Free
  /\ UNCHANGED <<creds, cell, history>>

Admit(p) ==
  /\ pc[p] = "judge"
  /\ remain[p] = 0
  /\ creds
  /\ Goto(p, IF fresh[p] THEN "strike" ELSE "login")
  /\ UNCHANGED <<creds, cell, loginMu, history>>

(* Mutants of Strike: one too high a limit, one too low a limit.           *)
StrikeLate(p) ==
  LET below == freshRejections < MaxFresh IN
  /\ pc[p] = "strike"
  /\ freshRejections' = IF below THEN freshRejections + 1 ELSE MaxFresh
  /\ Goto(p, IF below THEN "login" ELSE "drop")
  /\ UNCHANGED <<creds, token, unproven, gate, loginMu, history>>

StrikeEarly(p) ==
  /\ pc[p] = "strike"
  /\ freshRejections' = MaxFresh
  /\ Goto(p, "drop")
  /\ UNCHANGED <<creds, token, unproven, gate, loginMu, history>>

(* A refused token that no request was accepted with: below the limit the  *)
(* call logs in once more, at the limit it goes on to suspend the login.   *)
Strike(p) ==
  LET below == freshRejections + 1 < MaxFresh IN
  /\ pc[p] = "strike"
  /\ freshRejections' = IF below THEN freshRejections + 1 ELSE MaxFresh
  /\ Goto(p, IF below THEN "login" ELSE "drop")
  /\ UNCHANGED <<creds, token, unproven, gate, loginMu, history>>

Drop(p) ==
  /\ pc[p] = "drop"
  /\ RecordLoginFailure(tok[p])
  /\ Return(p)
  /\ loginMu' = Free
  /\ spent' = 0
  /\ quiet' = Backoff
  /\ UNCHANGED creds

-----------------------------------------------------------------------------
(* What Login does with the server's answer, under loginMu.  Refused is a  *)
(* 401, 403 or field-error 400 that carries the server's own JSON verdict; *)
(* failed is everything else: a bare refusal, a 5xx, a transport failure,  *)
(* a timeout, an answer that carries no token.                             *)

LoginGranted(p, t) ==
  /\ pc[p] = "login"
  /\ StoreToken(t, TRUE)
  /\ Become(p, IF tok[p] = NoToken THEN "sent" ELSE "resent", t)
  /\ loginMu' = Free
  /\ spent' = spent + 1
  /\ quiet' = 0
  /\ UNCHANGED creds

LoginRefused(p) ==
  /\ pc[p] = "login"
  /\ RecordLoginFailure(NoToken)
  /\ Return(p)
  /\ loginMu' = Free
  /\ spent' = 0
  /\ quiet' = Backoff
  /\ UNCHANGED creds

(* Mutant of LoginFailed: the mutex is not released.                       *)
LoginFailedHolds(p) ==
  /\ pc[p] = "login"
  /\ Return(p)
  /\ UNCHANGED <<creds, cell, loginMu, history>>

LoginFailed(p) ==
  /\ pc[p] = "login"
  /\ Return(p)
  /\ loginMu' = Free
  /\ UNCHANGED <<creds, cell, history>>

(* Client.Login called by the application: no loginMu, no suspension.      *)

CallLogin(p) ==
  /\ pc[p] = "idle"
  /\ creds
  /\ Goto(p, "explicit")
  /\ UNCHANGED <<creds, cell, loginMu, history>>

ExplicitGranted(p, t) ==
  /\ pc[p] = "explicit"
  /\ StoreToken(t, TRUE)
  /\ Return(p)
  /\ spent' = 0
  /\ quiet' = 0
  /\ UNCHANGED <<creds, loginMu>>

ExplicitRefused(p) ==
  /\ pc[p] = "explicit"
  /\ RecordLoginFailure(NoToken)
  /\ Return(p)
  /\ UNCHANGED <<creds, loginMu, history>>

ExplicitFailed(p) ==
  /\ pc[p] = "explicit"
  /\ Return(p)
  /\ UNCHANGED <<creds, cell, loginMu, history>>

SetToken(t) ==
  /\ StoreToken(t, FALSE)
  /\ spent' = 0
  /\ quiet' = 0
  /\ UNCHANGED <<creds, loginMu, local>>

-----------------------------------------------------------------------------
(* exchange, from the answer on.  Accepted is any status that proves the   *)
(* token, a 2xx or an application error; a gateway status, a 407 and a     *)
(* transport failure end the call and prove nothing; a 401 leads to one    *)
(* refresh when there are credentials, and never to a second.              *)

Accepted(p) ==
  /\ pc[p] \in {"sent", "resent"}
  /\ Goto(p, "mark")
  /\ UNCHANGED <<creds, cell, loginMu, history>>

Unanswered(p) ==
  /\ pc[p] \in {"sent", "resent"}
  /\ Return(p)
  /\ UNCHANGED <<creds, cell, loginMu, history>>

Unauthorized(p) ==
  /\ pc[p] \in {"sent", "resent"}
  /\ IF pc[p] = "sent" /\ creds THEN Goto(p, "refresh") ELSE Return(p)
  /\ UNCHANGED <<creds, cell, loginMu, history>>

(* markAccepted looks under the read lock and writes under the other.      *)
MarkRead(p) ==
  /\ pc[p] = "mark"
  /\ IF (unproven \/ freshRejections > 0) /\ token = tok[p]
     THEN Goto(p, "accept")
     ELSE Return(p)
  /\ UNCHANGED <<creds, cell, loginMu, history>>

MarkWrite(p) ==
  LET current == token = tok[p] IN
  /\ pc[p] = "accept"
  /\ unproven'        = (unproven /\ ~current)
  /\ freshRejections' = IF current THEN 0 ELSE freshRejections
  /\ spent'           = IF current THEN 0 ELSE spent
  /\ Return(p)
  /\ UNCHANGED <<creds, token, gate, loginMu, quiet>>

-----------------------------------------------------------------------------
Tick ==
  /\ gate > 0 \/ \E p \in Procs : remain[p] > 0
  /\ gate'   = Decr(gate)
  /\ quiet'  = Decr(quiet)
  /\ remain' = [p \in Procs |-> Decr(remain[p])]
  /\ UNCHANGED <<creds, token, unproven, freshRejections, loginMu,
                 pc, tok, fresh, spent>>

(* The steps of the code itself between two calls on the outside.          *)
Compute(p) ==
  \/ ReadGate(p) \/ Refuse(p) \/ Admit(p) \/ Strike(p) \/ Drop(p)
  \/ MarkRead(p) \/ MarkWrite(p)

Lock(p) == LockEnsure(p) \/ LockRefresh(p)

(* The steps that consume an answer of the server, or its absence.         *)
Receive(p) ==
  \/ \E t \in Tokens : LoginGranted(p, t)
  \/ LoginRefused(p) \/ LoginFailed(p)
  \/ \E t \in Tokens : ExplicitGranted(p, t)
  \/ ExplicitRefused(p) \/ ExplicitFailed(p)
  \/ Accepted(p) \/ Unanswered(p) \/ Unauthorized(p)

Next ==
  \/ \E p \in Procs : Begin(p) \/ CallLogin(p) \/ Lock(p) \/ Compute(p)
                      \/ Receive(p)
  \/ \E t \in Tokens \cup {NoToken} : SetToken(t)
  \/ Tick

Spec == Init /\ [][Next]_vars

(* A goroutine that can run is run; an answer is awaited no longer than    *)
(* the client's timeout; sync.Mutex lets no waiter starve.                 *)
Fairness == \A p \in Procs : /\ WF_vars(Compute(p))
                             /\ WF_vars(Receive(p))
                             /\ SF_vars(Lock(p))

FairSpec == Spec /\ Fairness
=============================================================================
