------------------------ MODULE SessionServerProofs ------------------------
(***************************************************************************)
(* A session and its server, for any number of goroutines and tokens and   *)
(* any bounds on what expires, is lost or is supplied: concurrent requests *)
(* share one login, an expired token goes unnoticed, and the automatic     *)
(* login is suspended only by tokens that were refused.                    *)
(***************************************************************************)
EXTENDS SessionServer, SessionProofs, FiniteSetTheorems

(* What the server keeps is about tokens, and the token in the cell is one *)
(* the server issued.                                                      *)
ServerOK ==
  /\ creds
  /\ issued \subseteq Tokens /\ alive \subseteq issued /\ supplied \subseteq issued
  /\ token \in issued \cup {NoToken}
  /\ lost \in Nat
  /\ reply \in [Procs -> Tokens \cup Replies]

(* What a call knows of the token it carries, from the answers it got: one *)
(* that was refused has expired, a request is sent again with another one  *)
(* than the first, and the token on its way is new.                        *)
Told(p) ==
  /\ tok[p] \in issued \cup {NoToken}
  /\ pc[p] \in {"sent", "resent"} => tok[p] \in issued
  /\ pc[p] = "ensure" => tok[p] = NoToken
  /\ pc[p] = "resent" => expired \ {tok[p]} # {}
  /\ pc[p] = "refresh" => tok[p] \in expired
  /\ pc[p] \in Holding => tok[p] \in expired \cup {NoToken}
  /\ fresh[p] => pc[p] \in Holding /\ tok[p] \in expired
  /\ pc[p] \in {"strike", "drop"} => fresh[p]
  /\ pc[p] # "explicit"
  /\ reply[p] \in Tokens => pc[p] = "login" /\ reply[p] \in issued \ {tok[p]}
  /\ reply[p] \in {"ok", "unauthorized"} => pc[p] \in {"sent", "resent"}
  /\ reply[p] = "unauthorized" => tok[p] \in expired
  /\ reply[p] = "lost" => pc[p] \in {"sent", "resent", "login"} /\ lost > 0

Logins == Cardinality(issued \ supplied)
Known  == \A p \in Procs : Told(p)

(* Every login is paid for: by the start, an expired token or a lost       *)
(* answer.  The holder of loginMu has one payment more at its disposal, as *)
(* it came with a token that expired or with none, and it spends that when *)
(* the server issues a token.                                              *)
Paid ==
  /\ loginMu = Free =>
       Logins <= Cardinality(expired \ {token}) + lost
                   + (IF token = NoToken THEN 0 ELSE 1)
  /\ \A p \in Procs : loginMu = p =>
       /\ reply[p] \notin Tokens => Logins <= Cardinality(expired) + lost
       /\ reply[p] \in Tokens => Logins <= 1 + Cardinality(expired \ {reply[p]}) + lost

(* While no answer is lost, every count of a refused fresh token is for a  *)
(* token of its own, and so is a suspension for MaxFresh of them.          *)
BlamedBy(p) ==
  /\ remain[p] > 0 => Cardinality(expired) >= MaxFresh
  /\ pc[p] \in {"gate", "judge", "strike"} =>
       /\ freshRejections <= Cardinality(expired \ {token})
       /\ fresh[p] => token = tok[p] \/ freshRejections = 0
  /\ pc[p] = "drop" =>
       /\ Cardinality(expired) >= MaxFresh
       /\ freshRejections <= Cardinality(expired)
       /\ token # tok[p] => freshRejections <= Cardinality(expired \ {token})
  /\ pc[p] = "login" => freshRejections <= Cardinality(expired \ {reply[p]})

Blamed ==
  lost = 0 =>
    /\ gate > 0 => Cardinality(expired) >= MaxFresh
    /\ loginMu = Free => freshRejections <= Cardinality(expired \ {token})
    /\ \A p \in Procs : BlamedBy(p)

(* Whoever holds loginMu while a good token is in the cell held it when    *)
(* the application supplied that token.                                    *)
Owned == loginMu # Free /\ token \in alive => racing = loginMu

Sharing == ServerOK /\ Known /\ Paid /\ Blamed /\ Owned

SInv == IInv /\ Sharing

-----------------------------------------------------------------------------
(* Every step of the composition is a step of the session, or none.        *)
LEMMA StepOfSession ==
  ASSUME [SNext]_svars
  PROVE  [Next]_vars
<1>1. CASE ClientStep
  BY <1>1 DEF ClientStep, Next
<1>2. ASSUME NEW p \in Procs, ServeRequest(p) \/ Lose(p) PROVE UNCHANGED vars
  BY <1>2 DEF ServeRequest, Lose
<1>3. ASSUME NEW p \in Procs, Arrive(p) PROVE Next
  BY <1>3 DEF Arrive, Next, Receive
<1>4. ASSUME NEW p \in Procs, NEW t \in Tokens, ServeLogin(p, t) PROVE UNCHANGED vars
  BY <1>4 DEF ServeLogin
<1>5. ASSUME NEW t \in Tokens, Expire(t) PROVE UNCHANGED vars
  BY <1>5 DEF Expire
<1>6. ASSUME NEW t \in Tokens, Supply(t) PROVE Next
  BY <1>6 DEF Supply, Next
<1> QED
  BY <1>1, <1>2, <1>3, <1>4, <1>5, <1>6 DEF SNext, svars

(* The invariant of the session is kept by every step of the session.      *)
LEMMA StepIInv ==
  ASSUME IInv, [Next]_vars
  PROVE  IInv'
BY TypeStep, ExclusiveStep, CountStep, WindowStep DEF IInv

(* How many tokens were issued and have expired, with one less or not.     *)
LEMMA Counts ==
  ASSUME ServerOK
  PROVE  /\ Logins \in Nat /\ Cardinality(expired) \in Nat /\ lost \in Nat
         /\ \A x : /\ Cardinality(expired \ {x}) \in Nat
                   /\ x \in expired =>
                        Cardinality(expired) = Cardinality(expired \ {x}) + 1
                   /\ x \notin expired =>
                        Cardinality(expired \ {x}) = Cardinality(expired)
<1>1. IsFiniteSet(expired) /\ IsFiniteSet(issued \ supplied)
  BY ServerAssumption, FS_Subset DEF ServerOK, expired
<1>2. ASSUME NEW x
      PROVE  /\ Cardinality(expired \ {x}) \in Nat
             /\ Cardinality(expired \ {x}) =
                  IF x \in expired THEN Cardinality(expired) - 1 ELSE Cardinality(expired)
  BY <1>1, FS_RemoveElement, FS_CardinalityType
<1>3. Logins \in Nat /\ Cardinality(expired) \in Nat /\ lost \in Nat
  BY <1>1, FS_CardinalityType DEF Logins, ServerOK
<1> QED
  BY <1>2, <1>3

(* A call that takes no step keeps what it knows: tokens are never         *)
(* withdrawn, and none that expired comes back.                            *)
Bystanding(q) ==
  /\ pc'[q] = pc[q] /\ tok'[q] = tok[q] /\ fresh'[q] = fresh[q] /\ reply'[q] = reply[q]

(* What a call was told stays true of the tokens as more are issued and    *)
(* expire.                                                                 *)
LEMMA ToldStays ==
  ASSUME NEW q \in Procs, Told(q), Bystanding(q), ServerOK,
         issued \subseteq issued', expired \subseteq expired',
         lost' \in Nat, lost <= lost'
  PROVE  Told(q)'
BY DEF Told, Bystanding, ServerOK

Others(p) == \A q \in Procs \ {p} : Bystanding(q) /\ remain'[q] = remain[q]

(* A step of one call that leaves the cell, the lock and the server alone, *)
(* but for clearing the count.                                             *)
LEMMA QuietStep ==
  ASSUME SInv, IInv', NEW p \in Procs, Others(p),
         UNCHANGED <<creds, token, gate, loginMu, issued, alive, lost, supplied>>,
         freshRejections' \in {freshRejections, 0},
         racing' = racing \/ Race,
         reply[p] \notin Tokens, reply'[p] \notin Tokens,
         reply' \in [Procs -> Tokens \cup Replies],
         Told(p)', lost = 0 => BlamedBy(p)'
  PROVE  Sharing'
<1> USE DEF SInv, Sharing
<1>1. expired' = expired /\ Logins' = Logins
  BY DEF expired, Logins
<1>2. ServerOK'
  BY DEF ServerOK
<1>3. Known'
  BY <1>1, ToldStays DEF Known, Others, ServerOK
<1>4. Paid'
  <2>1. \A q \in Procs : reply'[q] = reply[q] \/ q = p
    BY DEF Others, Bystanding
  <2> QED
    BY <1>1, <2>1 DEF Paid
<1>5. Blamed'
  <2> SUFFICES ASSUME lost = 0 PROVE Blamed'
    BY DEF Blamed
  <2>1. freshRejections' <= freshRejections /\ freshRejections' \in Nat
    BY DEF IInv, TypeOK
  <2>2. \A q \in Procs : Cardinality(expired \ {reply[q]}) \in Nat
                         /\ Cardinality(expired \ {token}) \in Nat
                         /\ Cardinality(expired) \in Nat /\ freshRejections \in Nat
    <3>1. freshRejections \in Nat
      BY DEF IInv, TypeOK
    <3>2. Cardinality(expired) \in Nat /\ \A x : Cardinality(expired \ {x}) \in Nat
      BY Counts
    <3> HIDE DEF SInv, Sharing
    <3> QED
      BY <3>1, <3>2
  <2>3. ASSUME NEW q \in Procs \ {p} PROVE BlamedBy(q)'
    <3>1. BlamedBy(q)
      BY DEF Blamed
    <3>2. /\ pc'[q] = pc[q] /\ tok'[q] = tok[q] /\ fresh'[q] = fresh[q]
          /\ reply'[q] = reply[q] /\ remain'[q] = remain[q]
      BY DEF Others, Bystanding
    <3> HIDE DEF SInv, Sharing
    <3> QED
      BY <1>1, <2>1, <2>2, <3>1, <3>2 DEF BlamedBy
  <2>4. /\ gate' > 0 => Cardinality(expired') >= MaxFresh
        /\ loginMu' = Free => freshRejections' <= Cardinality(expired' \ {token'})
    <3>1. /\ gate > 0 => Cardinality(expired) >= MaxFresh
          /\ loginMu = Free => freshRejections <= Cardinality(expired \ {token})
      BY DEF Blamed
    <3>2. /\ Cardinality(expired \ {token}) \in Nat
          /\ freshRejections \in Nat
      BY Counts DEF IInv, TypeOK
    <3> HIDE DEF SInv, Sharing
    <3> QED
      BY <1>1, <2>1, <3>1, <3>2
  <2>5. BlamedBy(p)'
    OBVIOUS
  <2> QED
    BY <2>3, <2>4, <2>5 DEF Blamed
<1>6. Owned'
  BY DEF Owned, Race
<1> QED
  BY <1>2, <1>3, <1>4, <1>5, <1>6

-----------------------------------------------------------------------------
(* Where a step of one call leaves it, and that it leaves the others.      *)
LEMMA BecomeAt ==
  ASSUME TypeOK, NEW p \in Procs, NEW w, NEW t, Become(p, w, t)
  PROVE  /\ pc'[p] = w /\ tok'[p] = t /\ fresh'[p] = FALSE /\ remain'[p] = 0
         /\ \A q \in Procs \ {p} : /\ pc'[q] = pc[q] /\ tok'[q] = tok[q]
                                   /\ fresh'[q] = fresh[q] /\ remain'[q] = remain[q]
BY DEF TypeOK, Become

(* A goroutine that moves on leaves all others where they are.             *)
LEMMA GotoAt ==
  ASSUME TypeOK, NEW p \in Procs, NEW w, Goto(p, w)
  PROVE  /\ pc'[p] = w /\ tok'[p] = tok[p] /\ fresh'[p] = fresh[p]
         /\ remain'[p] = remain[p]
         /\ \A q \in Procs \ {p} : /\ pc'[q] = pc[q] /\ tok'[q] = tok[q]
                                   /\ fresh'[q] = fresh[q] /\ remain'[q] = remain[q]
BY DEF TypeOK, Goto

-----------------------------------------------------------------------------
(* The steps of the client.                                                *)
LEMMA StepBegin ==
  ASSUME SInv, IInv', NEW p \in Procs, Begin(p), Race,
         UNCHANGED <<issued, alive, lost, supplied, reply>>
  PROVE  Sharing'
<1> USE DEF SInv, Sharing, IInv
<1>1. /\ pc[p] = "idle" /\ remain'[p] = 0 /\ fresh'[p] = FALSE
      /\ \/ token # NoToken /\ pc'[p] = "sent" /\ tok'[p] = token
         \/ pc'[p] = "ensure" /\ tok'[p] = NoToken
      /\ UNCHANGED <<creds, token, unproven, freshRejections, gate, loginMu>>
  BY SMT DEF Begin, Become, TypeOK, cell
<1>2. Others(p)
  BY SMT DEF Begin, Become, TypeOK, Others, Bystanding
<1>3. reply[p] \notin Tokens /\ Told(p)
  BY <1>1 DEF Known, Told
<1>4. Told(p)'
  BY <1>1, <1>3 DEF Told, ServerOK, Holding, expired
<1>5. BlamedBy(p)'
  BY <1>1 DEF BlamedBy
<1> QED
  BY <1>1, <1>2, <1>3, <1>4, <1>5, QuietStep DEF ServerOK

(* The token in the cell is used as it is, for the first request or for    *)
(* the second.                                                             *)
LEMMA StepUse ==
  ASSUME SInv, IInv', NEW p \in Procs, LockEnsure(p) \/ LockRefresh(p), Race,
         token # NoToken, pc[p] = "refresh" => token # tok[p],
         UNCHANGED <<issued, alive, lost, supplied, reply>>
  PROVE  Sharing'
<1> USE DEF SInv, Sharing, IInv
<1>1. /\ pc[p] \in {"ensure", "refresh"} /\ remain'[p] = 0 /\ fresh'[p] = FALSE
      /\ tok'[p] = token
      /\ pc'[p] = IF pc[p] = "ensure" THEN "sent" ELSE "resent"
      /\ UNCHANGED <<creds, token, unproven, freshRejections, gate, loginMu>>
  BY SMT DEF LockEnsure, LockRefresh, Become, TypeOK, cell
<1>2. Others(p)
  BY SMT DEF LockEnsure, LockRefresh, Become, TypeOK, Others, Bystanding
<1>3. reply[p] \notin Tokens /\ Told(p)
  BY <1>1 DEF Known, Told
<1>4. Told(p)'
  <2>1. pc[p] = "refresh" => tok[p] \in expired \ {token}
    BY <1>3 DEF Told
  <2> QED
    BY <1>1, <1>3, <2>1 DEF Told, ServerOK, Holding, expired
<1>5. BlamedBy(p)'
  BY <1>1 DEF BlamedBy
<1> QED
  BY <1>1, <1>2, <1>3, <1>4, <1>5, QuietStep DEF ServerOK

(* The suspension is copied under the lock.                                *)
LEMMA StepReadGate ==
  ASSUME SInv, IInv', NEW p \in Procs, ReadGate(p), Race,
         UNCHANGED <<issued, alive, lost, supplied, reply>>
  PROVE  Sharing'
<1> USE DEF SInv, Sharing, IInv
<1>1. /\ pc[p] = "gate" /\ pc'[p] = "judge" /\ remain'[p] = gate
      /\ tok'[p] = tok[p] /\ fresh'[p] = fresh[p]
      /\ UNCHANGED <<creds, token, unproven, freshRejections, gate, loginMu>>
  BY SMT DEF ReadGate, TypeOK, cell
<1>2. Others(p)
  BY SMT DEF ReadGate, TypeOK, Others, Bystanding
<1>3. reply[p] \notin Tokens /\ Told(p)
  BY <1>1 DEF Known, Told
<1>4. Told(p)'
  BY <1>1, <1>3 DEF Told, Holding, expired
<1>5. lost = 0 => BlamedBy(p)'
  BY <1>1 DEF Blamed, BlamedBy, expired
<1> QED
  BY <1>1, <1>2, <1>3, <1>4, <1>5, QuietStep DEF ServerOK

(* With no suspension in the copy, the goroutine goes on to the login.     *)
LEMMA StepAdmit ==
  ASSUME SInv, IInv', NEW p \in Procs, Admit(p), Race,
         UNCHANGED <<issued, alive, lost, supplied, reply>>
  PROVE  Sharing'
<1> USE DEF SInv, Sharing, IInv
<1>1. /\ pc[p] = "judge" /\ pc'[p] = (IF fresh[p] THEN "strike" ELSE "login")
      /\ tok'[p] = tok[p] /\ fresh'[p] = fresh[p] /\ remain'[p] = 0
      /\ UNCHANGED <<creds, token, unproven, freshRejections, gate, loginMu>>
  BY SMT DEF Admit, Goto, TypeOK, cell
<1>2. Others(p)
  BY SMT DEF Admit, Goto, TypeOK, Others, Bystanding
<1>3. reply[p] \notin Tokens /\ Told(p)
  BY <1>1 DEF Known, Told
<1>4. Told(p)'
  BY <1>1, <1>3 DEF Told, Holding, expired
<1>5. ASSUME lost = 0 PROVE BlamedBy(p)'
  <2>1. /\ freshRejections <= Cardinality(expired \ {token})
        /\ fresh[p] => token = tok[p] \/ freshRejections = 0
    BY <1>1, <1>5 DEF Blamed, BlamedBy
  <2>2. reply[p] \notin expired
    BY <1>3 DEF ServerOK, expired
  <2>3. freshRejections <= Cardinality(expired \ {reply[p]})
    BY <2>1, <2>2, Counts DEF TypeOK
  <2> QED
    BY <1>1, <2>1, <2>3 DEF BlamedBy, expired
<1> QED
  BY <1>1, <1>2, <1>3, <1>4, <1>5, QuietStep DEF ServerOK

(* A call ends, or goes on to mark its token as accepted.                  *)
Leaves(p) ==
  /\ pc'[p] \in {"idle", "mark", "accept"} /\ tok'[p] \in {tok[p], NoToken}
  /\ fresh'[p] = fresh[p] \/ fresh'[p] = FALSE
  /\ remain'[p] = remain[p] \/ remain'[p] = 0

(* A step of a goroutine that holds no lock, and may reset the count.      *)
LEMMA StepAway ==
  ASSUME SInv, IInv', NEW p \in Procs, Others(p), Leaves(p),
         pc[p] \notin Holding, reply[p] \notin Tokens, reply'[p] = None,
         reply' \in [Procs -> Tokens \cup Replies],
         freshRejections' \in {freshRejections, 0}, Race,
         UNCHANGED <<creds, token, gate, loginMu, issued, alive, lost, supplied>>
  PROVE  Sharing'
<1> USE DEF SInv, Sharing, IInv
<1>1. Told(p)
  BY DEF Known
<1>2. None \notin Tokens
  BY RepliesAssumption DEF Replies
<1>3. Told(p)'
  BY <1>1, <1>2 DEF Told, Leaves, Holding, expired, None
<1>4. ASSUME lost = 0 PROVE BlamedBy(p)'
  <2>1. remain[p] > 0 => Cardinality(expired) >= MaxFresh
    BY <1>4 DEF Blamed, BlamedBy
  <2>2. pc'[p] \notin {"gate", "judge", "strike", "drop", "login"}
    BY DEF Leaves
  <2>3. remain'[p] > 0 => Cardinality(expired)' >= MaxFresh
    BY <2>1 DEF Leaves, expired
  <2> HIDE DEF SInv, Sharing, IInv
  <2> QED
    BY <2>2, <2>3 DEF BlamedBy
<1> QED
  BY <1>2, <1>3, <1>4, QuietStep

(* markAccepted resets the count, if it does.                              *)
LEMMA StepMark ==
  ASSUME SInv, IInv', NEW p \in Procs, MarkRead(p) \/ MarkWrite(p), Race,
         UNCHANGED <<issued, alive, lost, supplied, reply>>
  PROVE  Sharing'
<1> USE DEF SInv, Sharing, IInv
<1>1. /\ pc[p] \in {"mark", "accept"} /\ freshRejections' \in {freshRejections, 0}
      /\ UNCHANGED <<creds, token, gate, loginMu>>
  BY DEF MarkRead, MarkWrite, cell
<1>2. Goto(p, "accept") \/ Become(p, "idle", NoToken)
  BY DEF MarkRead, MarkWrite, Return
<1>3. Leaves(p) /\ Others(p)
  BY <1>2, BecomeAt, GotoAt DEF Leaves, Others, Bystanding
<1>4. reply[p] = None /\ None \notin Tokens
  BY <1>1, RepliesAssumption DEF Known, Told, ServerOK, Replies
<1> QED
  BY <1>1, <1>3, <1>4, StepAway DEF Holding, ServerOK

(* The answer to a request arrives.                                        *)
LEMMA StepAnswer ==
  ASSUME SInv, IInv', NEW p \in Procs,
         \/ reply[p] = "ok" /\ Accepted(p)
         \/ reply[p] = "unauthorized" /\ Unauthorized(p)
         \/ reply[p] = "lost" /\ Unanswered(p),
         Answer(p, None), Race, UNCHANGED <<issued, alive, lost, supplied>>
  PROVE  Sharing'
<1> USE DEF SInv, Sharing, IInv
<1>1. /\ pc[p] \in {"sent", "resent"}
      /\ UNCHANGED <<creds, token, unproven, freshRejections, gate, loginMu>>
  BY DEF Accepted, Unauthorized, Unanswered, cell
<1>2. \/ Goto(p, "mark") \/ Become(p, "idle", NoToken)
      \/ reply[p] = "unauthorized" /\ Goto(p, "refresh")
  BY DEF Accepted, Unauthorized, Unanswered, Return
<1>3. Others(p)
  BY <1>2, BecomeAt, GotoAt DEF Answer, ServerOK, Others, Bystanding
<1>4. /\ reply'[p] = None /\ reply[p] \notin Tokens /\ None \notin Tokens
      /\ reply' \in [Procs -> Tokens \cup Replies]
  BY <1>1, RepliesAssumption DEF Answer, ServerOK, Known, Told, Replies
<1>5. CASE Goto(p, "mark") \/ Become(p, "idle", NoToken)
  <2>1. Leaves(p)
    BY <1>5, BecomeAt, GotoAt DEF Leaves
  <2> QED
    BY <1>1, <1>3, <1>4, <2>1, StepAway DEF Holding
<1>6. CASE reply[p] = "unauthorized" /\ Goto(p, "refresh")
  <2>1. /\ pc'[p] = "refresh" /\ tok'[p] = tok[p] /\ fresh'[p] = fresh[p]
        /\ remain'[p] = remain[p]
    BY <1>6, GotoAt
  <2>2. Told(p)
    BY DEF Known
  <2>3. Told(p)'
    BY <1>1, <1>4, <1>6, <2>1, <2>2 DEF Told, Holding, expired, None
  <2>4. lost = 0 => BlamedBy(p)'
    BY <2>1 DEF Blamed, BlamedBy, expired
  <2> QED
    BY <1>1, <1>3, <1>4, <2>3, <2>4, QuietStep
<1> QED
  BY <1>2, <1>5, <1>6
-----------------------------------------------------------------------------
(* The steps under loginMu: the calls without it only stand by.            *)
LEMMA OthersStay ==
  ASSUME SInv, IInv', NEW p \in Procs, loginMu \in {p, Free}, Others(p),
         ServerOK', expired' = expired, issued \subseteq issued', lost' = lost
  PROVE  \A q \in Procs \ {p} : Told(q)' /\ (lost = 0 => BlamedBy(q)')
<1> USE DEF SInv, Sharing
<1> SUFFICES ASSUME NEW q \in Procs \ {p}
             PROVE  Told(q)' /\ (lost = 0 => BlamedBy(q)')
  OBVIOUS
<1>1. Bystanding(q) /\ remain'[q] = remain[q]
  BY DEF Others
<1>2. Told(q)'
  BY <1>1, ToldStays DEF Known, ServerOK
<1>3. pc'[q] \notin Holding
  BY <1>1, ProcsAssumption DEF IInv, LoginExclusive, Bystanding
<1>4. lost = 0 => (remain'[q] > 0 => Cardinality(expired') >= MaxFresh)
  BY <1>1 DEF Blamed, BlamedBy
<1> QED
  BY <1>2, <1>3, <1>4 DEF BlamedBy, Holding

(* A step of the holder of loginMu that keeps it: the account of the       *)
(* logins is as it was.                                                    *)
LEMMA HoldStep ==
  ASSUME SInv, IInv', NEW p \in Procs, loginMu \in {p, Free}, loginMu' = p, Others(p),
         UNCHANGED <<creds, token, gate, issued, alive, lost, supplied, reply>>,
         reply[p] \notin Tokens, Logins <= Cardinality(expired) + lost,
         Told(p)', lost = 0 => BlamedBy(p)', Race,
         loginMu = Free => token \notin alive
  PROVE  Sharing'
<1> USE DEF SInv, Sharing
<1>1. expired' = expired /\ Logins' = Logins /\ p # Free
  BY ProcsAssumption DEF expired, Logins
<1>2. ServerOK'
  BY DEF ServerOK
<1>3. Known' /\ (lost = 0 => \A q \in Procs : BlamedBy(q)')
  BY <1>1, <1>2, OthersStay DEF Known
<1>4. Paid'
  BY <1>1 DEF Paid
<1>5. Blamed'
  BY <1>1, <1>3 DEF Blamed
<1>6. Owned'
  BY <1>1 DEF Owned, Race
<1> QED
  BY <1>2, <1>3, <1>4, <1>5, <1>6

(* A step that gives loginMu back has settled the account of the logins.   *)
LEMMA ReleaseStep ==
  ASSUME SInv, IInv', NEW p \in Procs, loginMu = p, loginMu' = Free, Others(p),
         UNCHANGED <<issued, alive, lost, supplied>>, ServerOK', Told(p)',
         Logins <= Cardinality(expired \ {token'}) + lost
                     + (IF token' = NoToken THEN 0 ELSE 1),
         lost = 0 => /\ gate' > 0 => Cardinality(expired) >= MaxFresh
                     /\ freshRejections' <= Cardinality(expired \ {token'})
                     /\ BlamedBy(p)'
  PROVE  Sharing'
<1> USE DEF SInv, Sharing
<1>1. expired' = expired /\ Logins' = Logins
  BY DEF expired, Logins
<1>2. Known' /\ (lost = 0 => \A q \in Procs : BlamedBy(q)')
  BY <1>1, OthersStay DEF Known
<1>3. Paid'
  BY <1>1, ProcsAssumption DEF Paid
<1>4. Blamed'
  BY <1>1, <1>2 DEF Blamed
<1>5. Owned'
  BY DEF Owned
<1> QED
  BY <1>2, <1>3, <1>4, <1>5

(* A call that finds no token it could use takes the lock.                 *)
LEMMA StepAcquire ==
  ASSUME SInv, IInv', NEW p \in Procs, LockEnsure(p) \/ LockRefresh(p), Race,
         token = NoToken \/ (pc[p] = "refresh" /\ token = tok[p]),
         UNCHANGED <<issued, alive, lost, supplied, reply>>
  PROVE  Sharing'
<1> USE DEF SInv, Sharing
<1>1. /\ pc[p] \in {"ensure", "refresh"} /\ loginMu = Free /\ loginMu' = p
      /\ UNCHANGED <<creds, token, unproven, freshRejections, gate>>
  BY DEF LockEnsure, LockRefresh, cell
<1>2. Told(p) /\ reply[p] \notin Tokens
  BY <1>1 DEF Known, Told
<1>3. /\ pc'[p] = "gate" /\ tok'[p] = tok[p] /\ remain'[p] = remain[p] /\ Others(p)
      /\ fresh'[p] => pc[p] = "refresh" /\ token = tok[p]
  <2>1. CASE LockEnsure(p)
    <3>1. Goto(p, "gate") /\ pc[p] = "ensure"
      BY <2>1 DEF LockEnsure
    <3>2. ~fresh[p]
      BY <1>2, <3>1 DEF Told, Holding
    <3> QED
      BY <3>1, <3>2, GotoAt DEF IInv, Others, Bystanding
  <2>2. CASE LockRefresh(p)
    <3>1. /\ pc' = [pc EXCEPT ![p] = "gate"] /\ pc[p] = "refresh"
          /\ fresh' = [fresh EXCEPT ![p] = (token = tok[p]) /\ unproven]
          /\ tok' = tok /\ remain' = remain
      BY <2>2 DEF LockRefresh
    <3>2. /\ fresh'[p] = ((token = tok[p]) /\ unproven)
          /\ \A q \in Procs \ {p} : fresh'[q] = fresh[q] /\ pc'[q] = pc[q]
          /\ pc'[p] = "gate"
      BY <3>1 DEF IInv, TypeOK
    <3> QED
      BY <3>1, <3>2 DEF Others, Bystanding
  <2> QED
    BY <2>1, <2>2
<1>4. Told(p)'
  BY <1>1, <1>2, <1>3 DEF Told, Holding, expired
<1>5. token \in expired \cup {NoToken} /\ NoToken \notin expired /\ token \notin alive
  BY <1>1, <1>2, TokensAssumption DEF Told, ServerOK, expired
<1>6. Logins <= Cardinality(expired) + lost
  <2>1. Logins <= Cardinality(expired \ {token}) + lost + (IF token = NoToken THEN 0 ELSE 1)
    BY <1>1 DEF Paid
  <2>2. ServerOK
    OBVIOUS
  <2> HIDE DEF SInv, Sharing
  <2> QED
    BY <1>5, <2>1, <2>2, Counts
<1>7. ASSUME lost = 0 PROVE BlamedBy(p)'
  <2>1. /\ freshRejections <= Cardinality(expired \ {token})
        /\ remain[p] > 0 => Cardinality(expired) >= MaxFresh
    BY <1>1, <1>7 DEF Blamed, BlamedBy
  <2>2. expired' = expired
    BY DEF expired
  <2> QED
    BY <1>1, <1>3, <2>1, <2>2 DEF BlamedBy
<1> QED
  BY <1>1, <1>2, <1>3, <1>4, <1>5, <1>6, <1>7, HoldStep

(* The holder of the lock has a login at its disposal, and may be about to *)
(* count the token it had refused.                                         *)
LEMMA Holder ==
  ASSUME SInv, NEW p \in Procs, pc[p] \in Holding
  PROVE  /\ loginMu = p /\ p # Free /\ Told(p) /\ (lost = 0 => BlamedBy(p))
         /\ None \notin Tokens /\ None \notin expired /\ NoToken \notin expired
         /\ reply[p] \in Tokens \cup {None, "lost"}
         /\ pc[p] # "login" => reply[p] = None
         /\ reply[p] \notin Tokens => Logins <= Cardinality(expired) + lost
<1> USE DEF SInv, Sharing
<1>1. loginMu = p /\ p # Free
  BY ProcsAssumption DEF IInv, LoginExclusive
<1>2. Told(p) /\ (lost = 0 => BlamedBy(p))
  BY DEF Known, Blamed
<1>3. None \notin Tokens /\ None \notin expired /\ NoToken \notin expired
  BY RepliesAssumption, TokensAssumption DEF Replies, ServerOK, expired
<1>4. reply[p] \in Tokens \cup {None, "lost"} /\ (pc[p] # "login" => reply[p] = None)
  BY <1>2 DEF Told, ServerOK, Holding, Replies
<1>5. reply[p] \notin Tokens => Logins <= Cardinality(expired) + lost
  BY <1>1 DEF Paid
<1> QED
  BY <1>1, <1>2, <1>3, <1>4, <1>5

(* A refused fresh token is counted; it is one of those that expired.      *)
LEMMA StepStrike ==
  ASSUME SInv, IInv', NEW p \in Procs, Strike(p), Race,
         UNCHANGED <<issued, alive, lost, supplied, reply>>
  PROVE  Sharing'
<1>1. /\ pc[p] = "strike" /\ UNCHANGED <<creds, token, unproven, gate, loginMu>>
      /\ \/ /\ freshRejections + 1 < MaxFresh
            /\ freshRejections' = freshRejections + 1 /\ Goto(p, "login")
         \/ /\ ~(freshRejections + 1 < MaxFresh)
            /\ freshRejections' = MaxFresh /\ Goto(p, "drop")
  BY DEF Strike
<1>2. TypeOK /\ ServerOK
  BY DEF SInv, Sharing, IInv
<1>3. /\ pc'[p] = (IF freshRejections + 1 < MaxFresh THEN "login" ELSE "drop")
      /\ tok'[p] = tok[p] /\ fresh'[p] = fresh[p] /\ remain'[p] = remain[p]
      /\ Others(p)
  BY <1>1, <1>2, GotoAt DEF Others, Bystanding
<1>4. /\ loginMu = p /\ p # Free /\ Told(p) /\ (lost = 0 => BlamedBy(p))
      /\ None \notin Tokens /\ None \notin expired /\ reply[p] = None
      /\ Logins <= Cardinality(expired) + lost
  BY <1>1, Holder DEF Holding
<1>5. tok[p] \in expired /\ fresh[p] /\ expired' = expired
  BY <1>1, <1>4 DEF Told, expired
<1>6. Told(p)'
  BY <1>1, <1>3, <1>4, <1>5 DEF Told, Holding, expired, None
<1>7. ASSUME lost = 0 PROVE BlamedBy(p)'
  <2>1. /\ freshRejections <= Cardinality(expired \ {token})
        /\ token = tok[p] \/ freshRejections = 0
        /\ remain[p] > 0 => Cardinality(expired) >= MaxFresh
    BY <1>1, <1>4, <1>5, <1>7 DEF BlamedBy
  <2>2. /\ Cardinality(expired) \in Nat /\ Cardinality(expired \ {token}) \in Nat
        /\ freshRejections \in Nat
        /\ token \in expired => Cardinality(expired) = Cardinality(expired \ {token}) + 1
        /\ Cardinality(expired) = Cardinality(expired \ {tok[p]}) + 1
        /\ Cardinality(expired \ {tok[p]}) \in Nat
        /\ Cardinality(expired \ {None}) = Cardinality(expired)
    BY <1>2, <1>4, <1>5, Counts DEF TypeOK
  <2>3. freshRejections + 1 <= Cardinality(expired)
    BY <1>5, <2>1, <2>2
  <2>4. token # tok[p] => Cardinality(expired \ {token}) >= 1
    <3>1. IsFiniteSet(expired \ {token})
      BY <1>2, ServerAssumption, FS_Subset DEF ServerOK, expired
    <3>2. token # tok[p] => expired \ {token} # {}
      BY <1>5
    <3> QED
      BY <3>1, <3>2, <2>2, FS_EmptySet
  <2>5. CASE freshRejections + 1 < MaxFresh
    BY <1>1, <1>3, <1>4, <1>5, <2>1, <2>2, <2>3, <2>5 DEF BlamedBy
  <2>6. CASE ~(freshRejections + 1 < MaxFresh)
    <3>1. /\ freshRejections' = MaxFresh /\ freshRejections' \in Nat
          /\ freshRejections' <= freshRejections + 1
          /\ freshRejections' = 1 \/ freshRejections # 0
      BY <1>1, <2>2, <2>6, FreshAssumption
    <3>2. /\ freshRejections' <= Cardinality(expired)
          /\ token # tok[p] => freshRejections' <= Cardinality(expired \ {token})
      BY <2>1, <2>2, <2>3, <2>4, <3>1
    <3> QED
      BY <1>1, <1>3, <1>5, <2>1, <2>6, <3>1, <3>2 DEF BlamedBy
  <2> QED
    BY <2>5, <2>6
<1> QED
  BY <1>1, <1>3, <1>4, <1>6, <1>7, HoldStep

(* The lock is given back without a token: the login is still at the       *)
(* disposal of whoever comes next.                                         *)
LEMMA Unspent ==
  ASSUME ServerOK, NEW t, Logins <= Cardinality(expired) + lost, NoToken \notin expired
  PROVE  Logins <= Cardinality(expired \ {t}) + lost + (IF t = NoToken THEN 0 ELSE 1)
BY Counts

(* The suspension, or missing credentials, end the call without a login.   *)
LEMMA StepRefuse ==
  ASSUME SInv, IInv', NEW p \in Procs, Refuse(p),
         UNCHANGED <<issued, alive, lost, supplied, reply>>
  PROVE  Sharing'
<1>1. /\ pc[p] = "judge" /\ (remain[p] > 0 \/ ~creds) /\ Become(p, "idle", NoToken)
      /\ loginMu' = Free /\ UNCHANGED <<creds, token, freshRejections, gate>>
  BY DEF Refuse, Return, cell
<1>2. TypeOK /\ ServerOK
  BY DEF SInv, Sharing, IInv
<1>3. /\ pc'[p] = "idle" /\ tok'[p] = NoToken /\ fresh'[p] = FALSE /\ remain'[p] = 0
      /\ Others(p)
  BY <1>1, <1>2, BecomeAt DEF Others, Bystanding
<1>4. /\ loginMu = p /\ Told(p) /\ (lost = 0 => BlamedBy(p)) /\ None \notin Tokens
      /\ reply[p] = None /\ Logins <= Cardinality(expired) + lost
      /\ NoToken \notin expired
  BY <1>1, Holder DEF Holding
<1>5. ServerOK' /\ Told(p)'
  BY <1>1, <1>2, <1>3, <1>4 DEF ServerOK, Told, Holding, None
<1>6. Logins <= Cardinality(expired \ {token'}) + lost
                  + (IF token' = NoToken THEN 0 ELSE 1)
  BY <1>1, <1>2, <1>4, Unspent
<1>7. lost = 0 => /\ gate' > 0 => Cardinality(expired) >= MaxFresh
                  /\ freshRejections' <= Cardinality(expired \ {token'})
                  /\ BlamedBy(p)'
  BY <1>1, <1>2, <1>3, <1>4 DEF ServerOK, BlamedBy
<1> QED
  BY <1>1, <1>3, <1>4, <1>5, <1>6, <1>7, ReleaseStep

(* The limit suspends the login: that many tokens have expired.            *)
LEMMA StepDrop ==
  ASSUME SInv, IInv', NEW p \in Procs, Drop(p),
         UNCHANGED <<issued, alive, lost, supplied, reply>>
  PROVE  Sharing'
<1>1. /\ pc[p] = "drop" /\ Become(p, "idle", NoToken) /\ loginMu' = Free
      /\ UNCHANGED <<creds, freshRejections>>
      /\ token' = IF tok[p] # NoToken /\ token = tok[p] THEN NoToken ELSE token
  BY DEF Drop, RecordLoginFailure, Return
<1>2. TypeOK /\ ServerOK
  BY DEF SInv, Sharing, IInv
<1>3. /\ pc'[p] = "idle" /\ tok'[p] = NoToken /\ fresh'[p] = FALSE /\ remain'[p] = 0
      /\ Others(p)
  BY <1>1, <1>2, BecomeAt DEF Others, Bystanding
<1>4. /\ loginMu = p /\ Told(p) /\ (lost = 0 => BlamedBy(p)) /\ None \notin Tokens
      /\ reply[p] = None /\ Logins <= Cardinality(expired) + lost
      /\ NoToken \notin expired
  BY <1>1, Holder DEF Holding
<1>5. ServerOK' /\ Told(p)'
  BY <1>1, <1>2, <1>3, <1>4 DEF ServerOK, Told, Holding, None
<1>6. Logins <= Cardinality(expired \ {token'}) + lost
                  + (IF token' = NoToken THEN 0 ELSE 1)
  BY <1>2, <1>4, Unspent
<1>7. ASSUME lost = 0
      PROVE  /\ gate' > 0 => Cardinality(expired) >= MaxFresh
             /\ freshRejections' <= Cardinality(expired \ {token'})
             /\ BlamedBy(p)'
  <2>1. /\ Cardinality(expired) >= MaxFresh /\ freshRejections <= Cardinality(expired)
        /\ token # tok[p] => freshRejections <= Cardinality(expired \ {token})
    BY <1>1, <1>4, <1>7 DEF BlamedBy
  <2>2. tok[p] # NoToken
    BY <1>1, <1>4 DEF Told
  <2>3. freshRejections' <= Cardinality(expired \ {token'})
    BY <1>1, <1>2, <1>4, <2>1, <2>2, Counts
  <2> QED
    BY <1>3, <2>1, <2>3 DEF BlamedBy
<1> QED
  BY <1>1, <1>3, <1>4, <1>5, <1>6, <1>7, ReleaseStep

(* The server's token is stored.                                           *)
LEMMA StepGranted ==
  ASSUME SInv, IInv', NEW p \in Procs, reply[p] \in Tokens, LoginGranted(p, reply[p]),
         Answer(p, None), UNCHANGED <<issued, alive, lost, supplied>>
  PROVE  Sharing'
<1>1. /\ pc[p] = "login" /\ loginMu' = Free /\ UNCHANGED <<creds, freshRejections>>
      /\ token' = reply[p] /\ gate' = 0
      /\ tok[p] = NoToken => Become(p, "sent", reply[p])
      /\ tok[p] # NoToken => Become(p, "resent", reply[p])
  BY DEF LoginGranted, StoreToken, Become
<1>2. TypeOK /\ ServerOK
  BY DEF SInv, Sharing, IInv
<1>3. /\ pc'[p] = (IF tok[p] = NoToken THEN "sent" ELSE "resent")
      /\ tok'[p] = reply[p] /\ fresh'[p] = FALSE /\ remain'[p] = 0
      /\ Others(p)
  BY <1>1, <1>2, BecomeAt DEF Others, Bystanding, Answer, ServerOK
<1>4. /\ loginMu = p /\ Told(p) /\ (lost = 0 => BlamedBy(p)) /\ None \notin Tokens
      /\ p # Free
  BY <1>1, Holder DEF Holding
<1>5. reply'[p] = None /\ reply' \in [Procs -> Tokens \cup Replies] /\ expired' = expired
  BY <1>2 DEF Answer, ServerOK, Replies, expired
<1>6. reply[p] \in issued \ {tok[p]} /\ tok[p] \in expired \cup {NoToken}
  BY <1>1, <1>4 DEF Told, Holding
<1>7. Told(p)'
  BY <1>3, <1>4, <1>5, <1>6 DEF Told, Holding, None
<1>8. ServerOK'
  BY <1>1, <1>2, <1>5, <1>6 DEF ServerOK
<1>9. Logins <= Cardinality(expired \ {token'}) + lost
                  + (IF token' = NoToken THEN 0 ELSE 1)
  <2>1. Logins <= 1 + Cardinality(expired \ {reply[p]}) + lost
    BY <1>4 DEF SInv, Sharing, Paid
  <2> QED
    BY <1>1, <1>2, <2>1, Counts, TokensAssumption
<1>10. lost = 0 => /\ gate' > 0 => Cardinality(expired) >= MaxFresh
                   /\ freshRejections' <= Cardinality(expired \ {token'})
                   /\ BlamedBy(p)'
  BY <1>1, <1>3, <1>4 DEF BlamedBy
<1> QED
  BY <1>1, <1>3, <1>4, <1>7, <1>8, <1>9, <1>10, ReleaseStep

(* The login whose answer was lost ends the call; its token was counted as *)
(* lost.                                                                   *)
LEMMA StepFailed ==
  ASSUME SInv, IInv', NEW p \in Procs, reply[p] = "lost", LoginFailed(p),
         Answer(p, None), UNCHANGED <<issued, alive, lost, supplied>>
  PROVE  Sharing'
<1>1. /\ pc[p] = "login" /\ loginMu' = Free /\ Become(p, "idle", NoToken)
      /\ UNCHANGED <<creds, token, freshRejections, gate>>
  BY DEF LoginFailed, Return, cell
<1>2. TypeOK /\ ServerOK
  BY DEF SInv, Sharing, IInv
<1>3. /\ pc'[p] = "idle" /\ tok'[p] = NoToken /\ fresh'[p] = FALSE /\ remain'[p] = 0
      /\ Others(p)
  BY <1>1, <1>2, BecomeAt DEF Others, Bystanding, Answer, ServerOK
<1>4. "lost" \notin Tokens /\ None \notin Tokens
  BY RepliesAssumption DEF Replies
<1>5. /\ loginMu = p /\ Told(p) /\ Logins <= Cardinality(expired) + lost
      /\ NoToken \notin expired
  BY <1>1, <1>4, Holder DEF Holding
<1>6. reply'[p] = None /\ reply' \in [Procs -> Tokens \cup Replies]
  BY <1>2 DEF Answer, ServerOK, Replies
<1>7. ServerOK' /\ Told(p)'
  BY <1>1, <1>2, <1>3, <1>4, <1>6 DEF ServerOK, Told, Holding, None
<1>8. Logins <= Cardinality(expired \ {token'}) + lost
                  + (IF token' = NoToken THEN 0 ELSE 1)
  BY <1>1, <1>2, <1>5, Unspent
<1>9. lost # 0
  BY <1>2, <1>5 DEF Told, ServerOK
<1> QED
  BY <1>1, <1>3, <1>5, <1>7, <1>8, <1>9, ReleaseStep

(* The suspension runs down, in the cell and in the copies.                *)
LEMMA StepTick ==
  ASSUME SInv, IInv', Tick, Race, UNCHANGED <<issued, alive, lost, supplied, reply>>
  PROVE  Sharing'
<1> USE DEF SInv, Sharing
<1>1. /\ UNCHANGED <<creds, token, freshRejections, loginMu, pc, tok, fresh>>
      /\ gate' = Decr(gate) /\ remain' = [p \in Procs |-> Decr(remain[p])]
  BY DEF Tick
<1>2. /\ gate' > 0 => gate > 0
      /\ \A p \in Procs : remain'[p] > 0 => remain[p] > 0
  BY <1>1 DEF Decr, IInv, TypeOK
<1>3. expired' = expired /\ Logins' = Logins
  BY DEF expired, Logins
<1>4. ServerOK' /\ Known'
  BY <1>1, <1>3 DEF ServerOK, Known, Told
<1>5. Paid'
  BY <1>1, <1>3 DEF Paid
<1>6. Blamed'
  <2> SUFFICES ASSUME lost = 0 PROVE Blamed'
    BY DEF Blamed
  <2>1. ASSUME NEW p \in Procs PROVE BlamedBy(p)'
    <3>1. BlamedBy(p)
      BY DEF Blamed
    <3> QED
      BY <1>1, <1>2, <1>3, <3>1 DEF BlamedBy
  <2> QED
    BY <1>1, <1>2, <1>3, <2>1 DEF Blamed
<1>7. Owned'
  BY <1>1 DEF Owned, Race
<1> QED
  BY <1>4, <1>5, <1>6, <1>7

-----------------------------------------------------------------------------
(* The steps of the server and of the application.                         *)
LEMMA StepServe ==
  ASSUME SInv, IInv', NEW p \in Procs, ServeRequest(p)
  PROVE  Sharing'
<1> USE DEF SInv, Sharing
<1>1. /\ Waiting(p) /\ pc[p] # "login" /\ UNCHANGED <<vars, server>>
      /\ Answer(p, IF tok[p] \in alive THEN "ok" ELSE "unauthorized")
  BY DEF ServeRequest
<1>2. /\ pc[p] \in {"sent", "resent"} /\ reply[p] = None
      /\ UNCHANGED <<creds, token, gate, loginMu, freshRejections, pc, tok, fresh, remain,
                     issued, alive, lost, supplied, racing>>
  BY <1>1 DEF Waiting, vars, cell, local, server
<1>3. /\ "ok" \in Replies /\ "unauthorized" \in Replies
      /\ \A r \in Replies : r \notin Tokens
  BY RepliesAssumption DEF Replies
<1>4. /\ reply'[p] \in {"ok", "unauthorized"}
      /\ reply'[p] = "unauthorized" => tok[p] \notin alive
      /\ \A q \in Procs \ {p} : reply'[q] = reply[q]
      /\ reply' \in [Procs -> Tokens \cup Replies]
  <2>1. CASE tok[p] \in alive
    <3>1. reply' = [reply EXCEPT ![p] = "ok"]
      BY <1>1, <2>1 DEF Answer
    <3> QED
      BY <1>3, <2>1, <3>1 DEF ServerOK
  <2>2. CASE tok[p] \notin alive
    <3>1. reply' = [reply EXCEPT ![p] = "unauthorized"]
      BY <1>1, <2>2 DEF Answer
    <3> QED
      BY <1>3, <2>2, <3>1 DEF ServerOK
  <2> QED
    BY <2>1, <2>2
<1>5. Told(p) /\ reply[p] \notin Tokens /\ reply'[p] \notin Tokens
  BY <1>2, <1>3, <1>4 DEF Known, Replies
<1>6. Told(p)'
  BY <1>2, <1>3, <1>4, <1>5 DEF Told, Holding, expired
<1>7. lost = 0 => BlamedBy(p)'
  BY <1>2 DEF Blamed, BlamedBy, expired
<1>8. Others(p)
  BY <1>2, <1>4 DEF Others, Bystanding
<1> QED
  BY <1>2, <1>4, <1>5, <1>6, <1>7, <1>8, QuietStep

(* The server issues a new token to the goroutine that holds loginMu.      *)
LEMMA StepServeLogin ==
  ASSUME SInv, IInv', NEW p \in Procs, NEW t \in Tokens, ServeLogin(p, t)
  PROVE  Sharing'
<1>1. /\ pc[p] = "login" /\ reply[p] = None /\ t \notin issued
      /\ issued' = issued \cup {t} /\ alive' = alive \cup {t}
      /\ reply' = [reply EXCEPT ![p] = t]
      /\ UNCHANGED <<creds, token, gate, loginMu, freshRejections, pc, tok, fresh, remain,
                     lost, supplied, racing>>
  BY DEF ServeLogin, Waiting, Answer, vars, cell, local
<1>2. TypeOK /\ ServerOK /\ Known /\ Paid /\ Blamed /\ Owned
  BY DEF SInv, Sharing, IInv
<1>3. /\ loginMu = p /\ p # Free /\ Told(p) /\ (lost = 0 => BlamedBy(p))
      /\ None \notin expired /\ Logins <= Cardinality(expired) + lost
  BY <1>1, Holder DEF Holding
<1>4. expired' = expired /\ t \notin expired
  BY <1>1, <1>2 DEF ServerOK, expired
<1>5. Logins' = Logins + 1
  <2>1. IsFiniteSet(issued \ supplied) /\ t \notin issued \ supplied
    BY <1>1, <1>2, ServerAssumption, FS_Subset DEF ServerOK
  <2>2. (issued \ supplied)' = (issued \ supplied) \cup {t}
    BY <1>1, <1>2 DEF ServerOK
  <2> QED
    BY <2>1, <2>2, FS_AddElement DEF Logins
<1>6. ServerOK'
  BY <1>1, <1>2 DEF ServerOK
<1>7. reply'[p] = t /\ \A q \in Procs \ {p} : Bystanding(q) /\ remain'[q] = remain[q]
  BY <1>1, <1>2 DEF ServerOK, Bystanding
<1>8. Known'
  <2>1. Told(p)'
    <3>1. t \in issued' \ {tok[p]} /\ t \notin Replies
      BY <1>1, <1>2, <1>3, RepliesAssumption, TokensAssumption DEF Told
    <3> QED
      BY <1>1, <1>3, <1>4, <1>7, <3>1 DEF Told, Replies
  <2>2. ASSUME NEW q \in Procs \ {p} PROVE Told(q)'
    BY <1>1, <1>2, <1>4, <1>7, ToldStays DEF Known, ServerOK
  <2> QED
    BY <2>1, <2>2 DEF Known
<1>9. Paid'
  <2>1. Logins' <= 1 + Cardinality(expired' \ {t}) + lost'
    BY <1>1, <1>2, <1>3, <1>4, <1>5, Counts
  <2> QED
    BY <1>1, <1>3, <1>7, <2>1 DEF Paid
<1>10. Blamed'
  <2> SUFFICES ASSUME lost = 0 PROVE Blamed'
    BY <1>1 DEF Blamed
  <2>1. freshRejections <= Cardinality(expired \ {t})
    <3>1. freshRejections <= Cardinality(expired \ {None})
      BY <1>1, <1>3 DEF BlamedBy
    <3> QED
      BY <1>2, <1>3, <1>4, <3>1, Counts
  <2>2. BlamedBy(p)'
    BY <1>1, <1>3, <1>4, <1>7, <2>1 DEF BlamedBy
  <2>3. ASSUME NEW q \in Procs \ {p} PROVE BlamedBy(q)'
    <3>1. BlamedBy(q) /\ reply'[q] = reply[q]
      BY <1>2, <1>7 DEF Blamed, Bystanding
    <3> QED
      BY <1>1, <1>4, <3>1 DEF BlamedBy
  <2> QED
    BY <1>1, <1>2, <1>3, <1>4, <2>2, <2>3 DEF Blamed
<1>11. Owned'
  BY <1>1, <1>2, TokensAssumption DEF Owned, ServerOK
<1> QED
  BY <1>6, <1>8, <1>9, <1>10, <1>11 DEF Sharing

(* An answer that is lost excuses one login more.                          *)
LEMMA StepLose ==
  ASSUME SInv, IInv', NEW p \in Procs, Lose(p)
  PROVE  Sharing'
<1>1. /\ Waiting(p) \/ reply[p] \notin {None, "lost"}
      /\ lost' = lost + 1 /\ reply' = [reply EXCEPT ![p] = "lost"]
      /\ UNCHANGED <<creds, token, gate, loginMu, freshRejections, pc, tok, fresh, remain,
                     issued, alive, supplied, racing>>
  BY DEF Lose, Answer, vars, cell, local
<1>2. TypeOK /\ ServerOK /\ Known /\ Paid /\ Owned
  BY DEF SInv, Sharing, IInv
<1>3. "lost" \in Replies /\ "lost" \notin Tokens
  BY RepliesAssumption DEF Replies
<1>4. /\ reply'[p] = "lost" /\ \A q \in Procs \ {p} : Bystanding(q)
      /\ reply' \in [Procs -> Tokens \cup Replies]
  BY <1>1, <1>2, <1>3 DEF ServerOK, Bystanding
<1>5. expired' = expired /\ Logins' = Logins
  BY <1>1 DEF expired, Logins
<1>6. ServerOK' /\ lost' > 0 /\ lost' # 0
  BY <1>1, <1>2, <1>4 DEF ServerOK
<1>7. Known'
  <2>1. Told(p)'
    <3>1. Told(p) /\ reply[p] \in Tokens \cup Replies
      BY <1>2 DEF Known, ServerOK
    <3>2. pc[p] \in {"sent", "resent", "login"}
      BY <1>1, <3>1 DEF Waiting, Told, Replies
    <3> QED
      BY <1>1, <1>3, <1>4, <1>5, <1>6, <3>1, <3>2 DEF Told
  <2>2. ASSUME NEW q \in Procs \ {p} PROVE Told(q)'
    BY <1>1, <1>2, <1>4, <1>5, ToldStays DEF Known, ServerOK
  <2> QED
    BY <2>1, <2>2 DEF Known
<1>8. Paid'
  <2>1. ASSUME NEW q \in Procs, loginMu = q
        PROVE  /\ reply'[q] \notin Tokens => Logins <= Cardinality(expired) + lost'
               /\ reply'[q] \in Tokens =>
                    Logins <= 1 + Cardinality(expired \ {reply'[q]}) + lost'
    <3>1. /\ reply[q] \notin Tokens => Logins <= Cardinality(expired) + lost
          /\ reply[q] \in Tokens => Logins <= 1 + Cardinality(expired \ {reply[q]}) + lost
      BY <1>2, <2>1 DEF Paid
    <3>2. reply'[q] = reply[q] \/ reply'[q] = "lost"
      BY <1>4 DEF Bystanding
    <3> QED
      BY <1>1, <1>2, <1>3, <3>1, <3>2, Counts
  <2>2. loginMu = Free =>
          Logins <= Cardinality(expired \ {token}) + lost'
                      + (IF token = NoToken THEN 0 ELSE 1)
    <3>1. loginMu = Free =>
            Logins <= Cardinality(expired \ {token}) + lost
                        + (IF token = NoToken THEN 0 ELSE 1)
      BY <1>2 DEF Paid
    <3> QED
      BY <1>1, <1>2, <3>1, Counts
  <2> QED
    BY <1>1, <1>5, <2>1, <2>2 DEF Paid
<1>9. Blamed'
  BY <1>6 DEF Blamed
<1>10. Owned'
  BY <1>1, <1>2 DEF Owned
<1> QED
  BY <1>6, <1>7, <1>8, <1>9, <1>10 DEF Sharing

(* An expired token excuses one login more.                                *)
LEMMA StepExpire ==
  ASSUME SInv, IInv', NEW t \in Tokens, Expire(t)
  PROVE  Sharing'
<1>1. /\ t \in alive /\ alive' = alive \ {t}
      /\ UNCHANGED <<creds, token, gate, loginMu, freshRejections, pc, tok, fresh, remain,
                     issued, lost, supplied, reply, racing>>
  BY DEF Expire, vars, cell, local
<1>2. TypeOK /\ ServerOK /\ Known /\ Paid /\ Blamed /\ Owned
  BY DEF SInv, Sharing, IInv
<1>3. ServerOK' /\ expired \subseteq expired' /\ Logins' = Logins
  BY <1>1, <1>2 DEF ServerOK, expired, Logins
<1>4. \A x : /\ Cardinality(expired \ {x}) \in Nat
             /\ Cardinality(expired' \ {x}) \in Nat
             /\ Cardinality(expired \ {x}) <= Cardinality(expired' \ {x})
  <2>1. IsFiniteSet(expired')
    BY <1>3, ServerAssumption, FS_Subset DEF ServerOK, expired
  <2> TAKE x
  <2>2. IsFiniteSet(expired' \ {x}) /\ expired \ {x} \subseteq expired' \ {x}
    BY <1>3, <2>1, FS_Subset
  <2> QED
    BY <2>2, FS_Subset, FS_CardinalityType
<1>5. /\ Cardinality(expired) \in Nat /\ Cardinality(expired)' \in Nat
      /\ Cardinality(expired) <= Cardinality(expired')
  <2>1. IsFiniteSet(expired')
    BY <1>3, ServerAssumption, FS_Subset DEF ServerOK, expired
  <2> QED
    BY <1>3, <2>1, FS_Subset, FS_CardinalityType
<1>6. /\ Logins \in Nat /\ lost \in Nat /\ freshRejections \in Nat
      /\ MaxFresh \in Nat
  BY <1>2, Counts, FreshAssumption DEF TypeOK
<1>7. Known'
  BY <1>1, <1>2, <1>3, ToldStays DEF Known, Bystanding, ServerOK
<1>8. Paid'
  <2>1. loginMu = Free =>
          Logins <= Cardinality(expired' \ {token}) + lost
                      + (IF token = NoToken THEN 0 ELSE 1)
    <3>1. loginMu = Free =>
            Logins <= Cardinality(expired \ {token}) + lost
                        + (IF token = NoToken THEN 0 ELSE 1)
      BY <1>2 DEF Paid
    <3>2. /\ Cardinality(expired \ {token}) <= Cardinality(expired' \ {token})
          /\ Cardinality(expired \ {token}) \in Nat /\ Cardinality(expired' \ {token}) \in Nat
      BY <1>4
    <3> QED
      BY <1>6, <3>1, <3>2
  <2>2. ASSUME NEW q \in Procs, loginMu = q
        PROVE  /\ reply[q] \notin Tokens => Logins <= Cardinality(expired') + lost
               /\ reply[q] \in Tokens =>
                    Logins <= 1 + Cardinality(expired' \ {reply[q]}) + lost
    <3>1. /\ reply[q] \notin Tokens => Logins <= Cardinality(expired) + lost
          /\ reply[q] \in Tokens => Logins <= 1 + Cardinality(expired \ {reply[q]}) + lost
      BY <1>2, <2>2 DEF Paid
    <3>2. /\ Cardinality(expired \ {reply[q]}) <= Cardinality(expired' \ {reply[q]})
          /\ Cardinality(expired \ {reply[q]}) \in Nat
          /\ Cardinality(expired' \ {reply[q]}) \in Nat
      BY <1>4
    <3> QED
      BY <1>5, <1>6, <3>1, <3>2
  <2> QED
    BY <1>1, <1>3, <2>1, <2>2 DEF Paid
<1>9. Blamed'
  <2> SUFFICES ASSUME lost = 0 PROVE Blamed'
    BY <1>1 DEF Blamed
  <2>1. ASSUME NEW q \in Procs PROVE BlamedBy(q)'
    <3>1. BlamedBy(q)
      BY <1>2 DEF Blamed
    <3>2. /\ Cardinality(expired \ {token}) <= Cardinality(expired' \ {token})
          /\ Cardinality(expired \ {reply[q]}) <= Cardinality(expired' \ {reply[q]})
          /\ Cardinality(expired \ {token}) \in Nat /\ Cardinality(expired' \ {token}) \in Nat
          /\ Cardinality(expired \ {reply[q]}) \in Nat
          /\ Cardinality(expired' \ {reply[q]}) \in Nat
      BY <1>4
    <3> QED
      BY <1>1, <1>5, <1>6, <3>1, <3>2 DEF BlamedBy
  <2>2. /\ gate > 0 => Cardinality(expired') >= MaxFresh
        /\ loginMu = Free => freshRejections <= Cardinality(expired' \ {token})
    <3>1. /\ gate > 0 => Cardinality(expired) >= MaxFresh
          /\ loginMu = Free => freshRejections <= Cardinality(expired \ {token})
      BY <1>2 DEF Blamed
    <3> QED
      BY <1>4, <1>5, <1>6, <3>1
  <2> QED
    BY <1>1, <2>1, <2>2 DEF Blamed
<1>10. Owned'
  BY <1>1, <1>2 DEF Owned
<1> QED
  BY <1>3, <1>7, <1>8, <1>9, <1>10 DEF Sharing

(* The application supplies a token; whoever is logging in is noted.       *)
LEMMA StepSupply ==
  ASSUME SInv, IInv', NEW t \in Tokens, Supply(t)
  PROVE  Sharing'
<1>1. /\ t \notin issued /\ issued' = issued \cup {t} /\ alive' = alive \cup {t}
      /\ supplied' = supplied \cup {t} /\ racing' = loginMu
      /\ token' = t /\ freshRejections' = 0 /\ gate' = 0
      /\ UNCHANGED <<creds, loginMu, pc, tok, fresh, remain, lost, reply>>
  BY DEF Supply, SetToken, StoreToken, local
<1>2. TypeOK /\ ServerOK /\ Known /\ Paid /\ Blamed
  BY DEF SInv, Sharing, IInv
<1>3. ServerOK' /\ expired' = expired /\ Logins' = Logins /\ t \notin expired
  <2>1. (issued \ supplied)' = issued \ supplied
    BY <1>1, <1>2 DEF ServerOK
  <2>2. ServerOK' /\ expired' = expired /\ t \notin expired
    BY <1>1, <1>2 DEF ServerOK, expired
  <2> QED
    BY <2>1, <2>2 DEF Logins
<1>4. Known'
  BY <1>1, <1>2, <1>3, ToldStays DEF Known, Bystanding, ServerOK
<1>5. Paid'
  <2>1. loginMu = Free => Logins <= Cardinality(expired \ {t}) + lost + 1
    <3>1. loginMu = Free =>
            Logins <= Cardinality(expired \ {token}) + lost
                        + (IF token = NoToken THEN 0 ELSE 1)
      BY <1>2 DEF Paid
    <3> QED
      BY <1>2, <1>3, <3>1, Counts
  <2> QED
    BY <1>1, <1>2, <1>3, <2>1, TokensAssumption DEF Paid
<1>6. Blamed'
  <2> SUFFICES ASSUME lost = 0 PROVE Blamed'
    BY <1>1 DEF Blamed
  <2>1. \A x : 0 <= Cardinality(expired \ {x}) /\ 0 <= Cardinality(expired)
    BY <1>2, Counts
  <2>2. ASSUME NEW q \in Procs PROVE BlamedBy(q)'
    <3>1. BlamedBy(q)
      BY <1>2 DEF Blamed
    <3> QED
      BY <1>1, <1>3, <2>1, <3>1 DEF BlamedBy
  <2>3. 0 <= Cardinality(expired \ {t})
    BY <2>1
  <2> QED
    BY <1>1, <1>3, <2>2, <2>3 DEF Blamed
<1>7. Owned'
  BY <1>1 DEF Owned
<1> QED
  BY <1>3, <1>4, <1>5, <1>6, <1>7 DEF Sharing

-----------------------------------------------------------------------------
(* Every step keeps the invariant.                                         *)
LEMMA StepSInv ==
  ASSUME SInv, [SNext]_svars
  PROVE  SInv'
<1>1. IInv'
  BY StepOfSession, StepIInv DEF SInv
<1>2. ASSUME ClientStep PROVE Sharing'
  <2>1. Race /\ UNCHANGED <<issued, alive, lost, supplied, reply>>
    BY <1>2 DEF ClientStep
  <2>2. ASSUME NEW p \in Procs, Lock(p) PROVE Sharing'
    <3>1. LockEnsure(p) \/ LockRefresh(p)
      BY <2>2 DEF Lock
    <3>2. CASE token # NoToken /\ (pc[p] = "refresh" => token # tok[p])
      BY <1>1, <2>1, <3>1, <3>2, StepUse
    <3>3. CASE token = NoToken \/ (pc[p] = "refresh" /\ token = tok[p])
      BY <1>1, <2>1, <3>1, <3>3, StepAcquire
    <3> QED
      BY <3>2, <3>3
  <2>3. ASSUME NEW p \in Procs, Compute(p) PROVE Sharing'
    BY <1>1, <2>1, <2>3, StepReadGate, StepRefuse, StepAdmit, StepStrike, StepDrop,
       StepMark DEF Compute
  <2>4. ASSUME NEW p \in Procs, Begin(p) PROVE Sharing'
    BY <1>1, <2>1, <2>4, StepBegin
  <2>5. ASSUME Tick PROVE Sharing'
    BY <1>1, <2>1, <2>5, StepTick
  <2> QED
    BY <1>2, <2>2, <2>3, <2>4, <2>5 DEF ClientStep
<1>3. ASSUME NEW p \in Procs, Arrive(p) PROVE Sharing'
  <2>1. Answer(p, None) /\ Race /\ UNCHANGED <<issued, alive, lost, supplied>>
    BY <1>3 DEF Arrive
  <2>2. CASE \/ reply[p] = "ok" /\ Accepted(p)
             \/ reply[p] = "unauthorized" /\ Unauthorized(p)
             \/ reply[p] = "lost" /\ Unanswered(p)
    BY <1>1, <2>1, <2>2, StepAnswer
  <2>3. CASE reply[p] \in Tokens /\ LoginGranted(p, reply[p])
    BY <1>1, <2>1, <2>3, StepGranted
  <2>4. CASE reply[p] = "lost" /\ LoginFailed(p)
    BY <1>1, <2>1, <2>4, StepFailed
  <2> QED
    BY <1>3, <2>2, <2>3, <2>4 DEF Arrive
<1>4. ASSUME NEW p \in Procs, ServeRequest(p) \/ Lose(p) PROVE Sharing'
  BY <1>1, <1>4, StepServe, StepLose
<1>5. ASSUME NEW p \in Procs, NEW t \in Tokens, ServeLogin(p, t) PROVE Sharing'
  BY <1>1, <1>5, StepServeLogin
<1>6. ASSUME NEW t \in Tokens, Expire(t) \/ Supply(t) PROVE Sharing'
  BY <1>1, <1>6, StepExpire, StepSupply
<1>7. ASSUME UNCHANGED svars PROVE Sharing'
  <2>1. UNCHANGED <<creds, token, freshRejections, gate, loginMu, pc, tok, fresh, remain,
                    issued, alive, lost, supplied, racing, reply>>
    BY <1>7 DEF svars, vars, cell, local, server
  <2> QED
    BY <2>1 DEF SInv, Sharing, ServerOK, Known, Told, Paid, Logins, Blamed, BlamedBy,
                Owned, expired
<1> QED
  BY <1>1, <1>2, <1>3, <1>4, <1>5, <1>6, <1>7 DEF SInv, SNext

(* At the start nothing was issued, nothing has expired, nobody logs in.   *)
LEMMA InitSInv ==
  ASSUME SInit
  PROVE  SInv
<1>1. /\ Init /\ creds /\ token = NoToken /\ issued = {} /\ alive = {} /\ lost = 0
      /\ reply = [p \in Procs |-> None] /\ supplied = {} /\ racing = Free
      /\ freshRejections = 0 /\ gate = 0 /\ loginMu = Free
      /\ \A p \in Procs : /\ pc[p] = "idle" /\ tok[p] = NoToken /\ fresh[p] = FALSE
                          /\ remain[p] = 0 /\ reply[p] = None
  BY DEF SInit, Init
<1>2. IInv
  BY <1>1, InitIInv
<1>3. None \notin Tokens /\ None \in Replies
  BY RepliesAssumption DEF Replies
<1>4. expired = {} /\ Logins = 0 /\ Cardinality({} \ {token}) = 0
  BY <1>1, FS_EmptySet DEF expired, Logins
<1>5. ServerOK
  BY <1>1, <1>3 DEF ServerOK
<1>6. Known
  BY <1>1, <1>3 DEF Known, Told, Holding, None
<1>7. Paid
  BY <1>1, <1>4, ProcsAssumption DEF Paid
<1>8. Blamed
  BY <1>1, <1>4 DEF Blamed, BlamedBy
<1>9. Owned
  BY <1>1 DEF Owned
<1> QED
  BY <1>2, <1>5, <1>6, <1>7, <1>8, <1>9 DEF SInv, Sharing

(* What the session does with this server is what Session allows it to do, *)
(* so everything proved of the session holds here.                         *)
THEOREM ServerIsASession == SSpec => Spec
<1>1. SInit => Init
  BY DEF SInit
<1>2. [SNext]_svars => [Next]_vars
  BY StepOfSession
<1> QED
  BY <1>1, <1>2, PTL DEF SSpec, Spec

(* The inductive invariant of the composition.                             *)
THEOREM SharingInductive == SSpec => []SInv
<1>1. SInit => SInv
  BY InitSInv
<1>2. SInv /\ [SNext]_svars => SInv'
  BY StepSInv
<1> QED
  BY <1>1, <1>2, PTL DEF SSpec

(* Any number of goroutines whose token expired ask the server for one new *)
(* token between them.                                                     *)
THEOREM LoginsAreShared == SSpec => []OneLoginPerExpiry
<1>1. SInv => OneLoginPerExpiry
  <2> SUFFICES ASSUME SInv PROVE OneLoginPerExpiry
    OBVIOUS
  <2>1. ServerOK /\ Paid /\ loginMu \in Procs \cup {Free}
    BY DEF SInv, Sharing, IInv, TypeOK
  <2>2. /\ Logins \in Nat /\ Cardinality(expired) \in Nat /\ lost \in Nat
        /\ \A x : /\ Cardinality(expired \ {x}) \in Nat
                  /\ Cardinality(expired \ {x}) <= Cardinality(expired)
    BY <2>1, Counts
  <2>3. CASE loginMu = Free
    <3>1. Logins <= Cardinality(expired \ {token}) + lost
                      + (IF token = NoToken THEN 0 ELSE 1)
      BY <2>1, <2>3 DEF Paid
    <3> QED
      BY <2>2, <3>1 DEF OneLoginPerExpiry, Logins
  <2>4. ASSUME NEW p \in Procs, loginMu = p PROVE OneLoginPerExpiry
    <3>1. \/ Logins <= Cardinality(expired) + lost
          \/ Logins <= 1 + Cardinality(expired \ {reply[p]}) + lost
      BY <2>1, <2>4 DEF Paid
    <3>2. /\ Cardinality(expired \ {reply[p]}) \in Nat
          /\ Cardinality(expired \ {reply[p]}) <= Cardinality(expired)
      BY <2>2
    <3>3. Logins <= 1 + Cardinality(expired) + lost
      BY <2>2, <3>1, <3>2
    <3> QED
      BY <3>3 DEF OneLoginPerExpiry, Logins
  <2> QED
    BY <2>1, <2>3, <2>4
<1> QED
  BY <1>1, SharingInductive, PTL

(* With a limit of more than one fresh rejection, as in the code, a client *)
(* with credentials is suspended only after tokens were really refused.    *)
THEOREM SuspendedForCause ==
  ASSUME MaxFresh > 1
  PROVE  SSpec => []NoFalseSuspension
<1>1. SInv => NoFalseSuspension
  <2> SUFFICES ASSUME SInv PROVE NoFalseSuspension
    OBVIOUS
  <2>1. ServerOK /\ Blamed
    BY DEF SInv, Sharing
  <2> QED
    BY <2>1, Counts, FreshAssumption DEF Blamed, NoFalseSuspension, ServerOK
<1> QED
  BY <1>1, SharingInductive, PTL

(* As long as no answer is lost, no caller notices that one token expired: *)
(* the request is refused, refreshed and sent again, whoever else does the *)
(* same.                                                                   *)
THEOREM OneExpiryIsInvisible ==
  ASSUME MaxFresh > 1
  PROVE  SSpec => ExpiryIsInvisible
<1>1. ASSUME SInv, [SNext]_svars, NEW p \in Procs,
             pc[p] \notin {"idle", "mark", "accept"}, pc'[p] = "idle", lost = 0
      PROVE  Cardinality(expired) > 1
  <2>1. /\ TypeOK /\ ServerOK /\ Told(p) /\ BlamedBy(p) /\ creds
        /\ Cardinality(expired) \in Nat /\ MaxFresh \in Nat
    BY <1>1, Counts, FreshAssumption DEF SInv, Sharing, IInv, Known, Blamed, ServerOK
  <2>2. Refuse(p) \/ Drop(p) \/ (reply[p] = "unauthorized" /\ Unauthorized(p))
    <3>1. pc'[p] # pc[p]
      BY <1>1
    <3>2. ASSUME NEW q \in Procs, NEW w, NEW t, Become(q, w, t) PROVE q = p /\ w = "idle"
      BY <1>1, <2>1, <3>1, <3>2, BecomeAt
    <3>3. ASSUME NEW q \in Procs, NEW w, Goto(q, w) PROVE q = p /\ w = "idle"
      BY <1>1, <2>1, <3>1, <3>3, GotoAt
    <3>4. ASSUME NEW q \in Procs, Begin(q) \/ Lock(q) PROVE FALSE
      <4>1. ~Begin(q)
        BY <3>2 DEF Begin
      <4>2. ~LockEnsure(q)
        BY <3>2, <3>3 DEF LockEnsure
      <4>3. ASSUME LockRefresh(q) PROVE FALSE
        <5>1. Become(q, "resent", token) \/ pc' = [pc EXCEPT ![q] = "gate"]
          BY <4>3 DEF LockRefresh
        <5>2. pc' # [pc EXCEPT ![q] = "gate"]
          BY <1>1, <2>1, <3>1 DEF TypeOK
        <5> QED
          BY <3>2, <5>1, <5>2
      <4> QED
        BY <3>4, <4>1, <4>2, <4>3 DEF Lock
    <3>5. ASSUME NEW q \in Procs, Compute(q) PROVE Refuse(p) \/ Drop(p)
      <4>1. ~ReadGate(q)
        BY <1>1, <2>1 DEF ReadGate, TypeOK
      <4>2. ~Admit(q) /\ ~Strike(q)
        BY <1>1, <2>1, <3>1 DEF Admit, Strike, Goto, TypeOK
      <4>3. ~MarkRead(q) /\ ~MarkWrite(q)
        BY <1>1, <2>1, <3>1 DEF MarkRead, MarkWrite, Goto, Return, Become, TypeOK
      <4> QED
        BY <3>2, <3>5, <4>1, <4>2, <4>3 DEF Compute, Refuse, Drop, Return
    <3>6. ASSUME NEW q \in Procs, Arrive(q)
          PROVE  reply[p] = "unauthorized" /\ Unauthorized(p)
      <4>1. reply[q] # "lost"
        BY <1>1 DEF SInv, Sharing, Known, Told
      <4>2. ~Accepted(q)
        BY <1>1, <2>1, <3>1 DEF Accepted, Goto, TypeOK
      <4>3. ~LoginGranted(q, reply[q])
        BY <1>1, <2>1, <3>1 DEF LoginGranted, Become, TypeOK
      <4>4. Unauthorized(q) => q = p
        BY <3>2, <3>3 DEF Unauthorized, Return
      <4> QED
        BY <3>6, <4>1, <4>2, <4>3, <4>4 DEF Arrive
    <3>7. pc' # pc
      BY <3>1
    <3>8. ~Tick /\ ~UNCHANGED vars
      BY <3>7 DEF Tick, vars, local
    <3> QED
      BY <1>1, <3>4, <3>5, <3>6, <3>7, <3>8
      DEF SNext, ClientStep, ServeRequest, Lose, ServeLogin, Expire, Supply, SetToken,
          svars, vars, local
  <2>3. CASE Refuse(p)
    BY <2>1, <2>3 DEF Refuse, BlamedBy
  <2>4. CASE Drop(p)
    BY <2>1, <2>4 DEF Drop, BlamedBy
  <2>5. CASE reply[p] = "unauthorized" /\ Unauthorized(p)
    <3>1. pc[p] = "resent"
      BY <1>1, <2>1, <2>5, GotoAt DEF Unauthorized
    <3>2. tok[p] \in expired /\ expired \ {tok[p]} # {}
      BY <2>1, <2>5, <3>1 DEF Told
    <3>3. IsFiniteSet(expired \ {tok[p]})
      BY <2>1, ServerAssumption, FS_Subset DEF ServerOK, expired
    <3>4. Cardinality(expired \ {tok[p]}) > 0 /\ Cardinality(expired \ {tok[p]}) \in Nat
      BY <3>2, <3>3, FS_EmptySet, FS_CardinalityType
    <3> QED
      BY <2>1, <3>2, <3>4, Counts
  <2> QED
    BY <2>2, <2>3, <2>4, <2>5
<1>2. ASSUME SInv, [SNext]_svars
      PROVE  [\A p \in Procs :
                pc[p] \notin {"idle", "mark", "accept"} /\ pc'[p] = "idle"
                  => lost > 0 \/ Cardinality(expired) > 1]_svars
  BY <1>1, <1>2 DEF SInv, Sharing, ServerOK
<1> QED
  BY <1>2, SharingInductive, PTL DEF SSpec, ExpiryIsInvisible

(* A token the application supplied leaves the cell while the server still *)
(* honors it only for a login that was under way when it was supplied, or  *)
(* for the next one that is supplied.                                      *)
THEOREM SuppliedTokenStays == SSpec => SuppliedStays
<1>1. ASSUME SInv, [SNext]_svars, NEW t \in supplied \cap alive,
             token = t, token' # t, racing = Free
      PROVE  supplied' # supplied
  <2>1. TypeOK /\ ServerOK /\ Known /\ Owned /\ t \in Tokens
    BY <1>1 DEF SInv, Sharing, IInv, ServerOK
  <2>2. loginMu = Free
    BY <1>1, <2>1 DEF Owned
  <2>3. \A p \in Procs : pc[p] \notin Holding
    BY <1>1, <2>2, ProcsAssumption DEF SInv, IInv, LoginExclusive
  <2>4. ~ClientStep
    BY <1>1, <2>3 DEF ClientStep, Begin, Lock, LockEnsure, LockRefresh, Compute, ReadGate,
                      Refuse, Admit, Strike, Drop, MarkRead, MarkWrite, Tick, cell, Holding
  <2>5. \A p \in Procs : ~Arrive(p)
    BY <1>1, <2>3 DEF Arrive, Accepted, Unauthorized, LoginGranted, Unanswered, LoginFailed,
                      cell, Holding
  <2>6. PICK u \in Tokens : Supply(u)
    BY <1>1, <2>4, <2>5 DEF SNext, ServeRequest, Lose, ServeLogin, Expire, svars, vars, cell
  <2> QED
    BY <2>1, <2>6 DEF Supply, ServerOK
<1>2. ASSUME SInv, [SNext]_svars
      PROVE  [\A t \in supplied \cap alive :
                token = t /\ token' # t => racing # Free \/ supplied' # supplied]_svars
  BY <1>1, <1>2
<1> QED
  BY <1>2, SharingInductive, PTL DEF SSpec, SuppliedStays
=============================================================================
