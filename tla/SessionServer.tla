--------------------------- MODULE SessionServer ---------------------------
(***************************************************************************)
(* Session composed with a server that keeps tokens: a login issues a      *)
(* token nobody had before, a request is refused exactly when its token is *)
(* not alive, and a token may expire at any moment.  An answer travels: it *)
(* is decided at the server in one step and consumed by the client in      *)
(* another, and it may be lost in between.  The credentials are right and  *)
(* nobody calls Login, but the application may supply a token it got       *)
(* elsewhere (SetToken).                                                   *)
(***************************************************************************)
EXTENDS SessionProperties, FiniteSets

CONSTANTS
  MaxExpired,  \* bound: tokens that expire in a behaviour
  MaxLost,     \* bound: answers that are lost in a behaviour
  MaxSupplied  \* bound: tokens the application supplies

ASSUME ServerAssumption == /\ IsFiniteSet(Tokens)
                           /\ {MaxExpired, MaxLost, MaxSupplied} \subseteq Nat
                           /\ MaxExpired + MaxLost + MaxSupplied < Cardinality(Tokens)

VARIABLES
  issued,      \* tokens the server ever issued
  alive,       \* the issued tokens it still honors
  lost,        \* how many answers were lost
  reply,       \* the answer on its way to each call
  supplied,    \* history: the tokens the application supplied
  racing       \* history: who held loginMu when one was, and still does

server == <<issued, alive, lost, supplied, racing>>
svars  == <<vars, server, reply>>

None    == "none"
Replies == {None, "ok", "unauthorized", "lost"}

ASSUME RepliesAssumption == Tokens \cap Replies = {}

SInit ==
  /\ Init
  /\ creds
  /\ token = NoToken
  /\ issued = {}
  /\ alive = {}
  /\ lost = 0
  /\ reply = [p \in Procs |-> None]
  /\ supplied = {}
  /\ racing = Free

Waiting(p) == pc[p] \in {"sent", "resent", "login"} /\ reply[p] = None

Answer(p, a) == reply' = [reply EXCEPT ![p] = a]

ServeRequest(p) ==
  /\ Waiting(p)
  /\ pc[p] # "login"
  /\ Answer(p, IF tok[p] \in alive THEN "ok" ELSE "unauthorized")
  /\ UNCHANGED <<vars, server>>

ServeLogin(p, t) ==
  /\ Waiting(p)
  /\ pc[p] = "login"
  /\ t \notin issued
  /\ issued' = issued \cup {t}
  /\ alive'  = alive \cup {t}
  /\ Answer(p, t)
  /\ UNCHANGED <<vars, lost, supplied, racing>>

(* A connection is reset or a timeout strikes, before the server saw the   *)
(* request or after it answered.                                           *)
Lose(p) ==
  /\ lost < MaxLost
  /\ Waiting(p) \/ reply[p] \notin {None, "lost"}
  /\ lost' = lost + 1
  /\ Answer(p, "lost")
  /\ UNCHANGED <<vars, issued, alive, supplied, racing>>

Expire(t) ==
  /\ t \in alive
  /\ Cardinality(issued \ alive) < MaxExpired
  /\ alive' = alive \ {t}
  /\ UNCHANGED <<vars, issued, lost, reply, supplied, racing>>

(* The application gets a token and hands it to the client.                *)
Supply(t) ==
  /\ Cardinality(supplied) < MaxSupplied
  /\ t \notin issued
  /\ issued'   = issued \cup {t}
  /\ alive'    = alive \cup {t}
  /\ supplied' = supplied \cup {t}
  /\ racing'   = loginMu
  /\ SetToken(t)
  /\ UNCHANGED <<lost, reply>>

Race == racing' = IF loginMu' = racing THEN racing ELSE Free

(* The client consumes the answer that arrived.                            *)
Arrive(p) ==
  /\ \/ reply[p] = "ok" /\ Accepted(p)
     \/ reply[p] = "unauthorized" /\ Unauthorized(p)
     \/ reply[p] \in Tokens /\ LoginGranted(p, reply[p])
     \/ reply[p] = "lost" /\ (Unanswered(p) \/ LoginFailed(p))
  /\ Answer(p, None)
  /\ Race
  /\ UNCHANGED <<issued, alive, lost, supplied>>

ClientStep ==
  /\ \/ \E p \in Procs : Begin(p) \/ Lock(p) \/ Compute(p)
     \/ Tick
  /\ Race
  /\ UNCHANGED <<issued, alive, lost, supplied, reply>>

SNext ==
  \/ ClientStep
  \/ \E p \in Procs : ServeRequest(p) \/ Lose(p) \/ Arrive(p)
  \/ \E p \in Procs, t \in Tokens : ServeLogin(p, t)
  \/ \E t \in Tokens : Expire(t) \/ Supply(t)

SSpec == SInit /\ [][SNext]_svars

-----------------------------------------------------------------------------
expired == issued \ alive

(* Concurrent requests share one login: over any interleaving the server   *)
(* is asked for one token at the start and one more for each that expired  *)
(* or whose answer was lost, however many goroutines had the same token    *)
(* refused (client.go, loginMu and refreshToken).                          *)
OneLoginPerExpiry ==
  Cardinality(issued \ supplied) <= 1 + Cardinality(expired) + lost

(* Expiry is invisible to callers: as long as no answer is lost, a call    *)
(* fails only after a second token expired (client.go, exchange: one       *)
(* refresh and one resend make up for one expired token).                  *)
ExpiryIsInvisible ==
  [][\A p \in Procs :
       pc[p] \notin {"idle", "mark", "accept"} /\ pc'[p] = "idle"
         => lost > 0 \/ Cardinality(expired) > 1]_svars

(* The suspension is for a server that refuses tokens in a row (comments   *)
(* of Login and of maxFreshRejections): it never begins before             *)
(* maxFreshRejections different tokens were refused.                       *)
SuspensionNeedsTwoTokens == gate > 0 => Cardinality(expired) >= MaxFresh

(* A client that holds credentials is suspended only by tokens that really *)
(* were refused: with one expired token and no lost answer the automatic   *)
(* login stays open (client.go, maxFreshRejections).                       *)
NoFalseSuspension == gate > 0 => lost > 0 \/ Cardinality(expired) > 1

(* A token the application supplied stays in use while the server honors   *)
(* it: it is replaced only by the automatic login that was already being   *)
(* made when it was supplied, never by one that begins later, and no       *)
(* refusal of an older token drops it (SetToken, refreshToken).            *)
SuppliedStays ==
  [][\A t \in supplied \cap alive :
       token = t /\ token' # t => racing # Free \/ supplied' # supplied]_svars
=============================================================================
