--------------------------- MODULE SessionProofs ---------------------------
(***************************************************************************)
(* The safety of the authentication session, for any number of goroutines, *)
(* any tokens, any limit on fresh rejections and any backoff.              *)
(***************************************************************************)
EXTENDS SessionProperties, TLAPS

USE ProcsAssumption, TokensAssumption, FreshAssumption, BackoffAssumption
    DEF ProcsAssumption, TokensAssumption, FreshAssumption, BackoffAssumption

-----------------------------------------------------------------------------
(* A call that moves, moves to a place of the code with a token or none.   *)
LocalOK == /\ pc \in [Procs -> Where]
           /\ tok \in [Procs -> Tokens \cup {NoToken}]
           /\ fresh \in [Procs -> BOOLEAN]
           /\ remain \in [Procs -> 0..Backoff]

(* A call that moves with a token keeps the types of the local state.      *)
LEMMA BecomeTyped ==
  ASSUME TypeOK, NEW p \in Procs, NEW w \in Where, NEW t \in Tokens \cup {NoToken},
         Become(p, w, t)
  PROVE  LocalOK'
BY SMT DEF TypeOK, LocalOK, Become

(* So does a call that moves and keeps what it carries.                    *)
LEMMA GotoTyped ==
  ASSUME TypeOK, NEW p \in Procs, NEW w \in Where, Goto(p, w)
  PROVE  LocalOK'
BY SMT DEF TypeOK, LocalOK, Goto

(* Every step keeps the types.                                             *)
LEMMA TypeStep ==
  ASSUME TypeOK, [Next]_vars
  PROVE  TypeOK'
<1>1. ASSUME NEW p \in Procs, Begin(p)  PROVE  TypeOK'
  <2>1. CASE token # NoToken
    BY <1>1, <2>1, BecomeTyped DEF TypeOK, LocalOK, Where, Holding, cell, local, history, Begin
  <2>2. CASE ~(token # NoToken)
    BY <1>1, <2>2, BecomeTyped DEF TypeOK, LocalOK, Where, Holding, cell, local, history, Begin
  <2>3. QED
    BY <2>1, <2>2
<1>2. ASSUME NEW p \in Procs, CallLogin(p)  PROVE  TypeOK'
  BY <1>2, SMT DEF TypeOK, Where, Holding, cell, local, history, CallLogin, Goto
<1>3. ASSUME NEW p \in Procs, LockEnsure(p)  PROVE  TypeOK'
  <2>1. CASE token # NoToken
    BY <1>3, <2>1, BecomeTyped DEF TypeOK, LocalOK, Where, Holding, cell, local, history, LockEnsure
  <2>2. CASE ~(token # NoToken)
    BY <1>3, <2>2, GotoTyped DEF TypeOK, LocalOK, Where, Holding, cell, local, history, LockEnsure
  <2>3. QED
    BY <2>1, <2>2
<1>4. ASSUME NEW p \in Procs, LockRefresh(p)  PROVE  TypeOK'
  <2>1. CASE token # NoToken /\ token # tok[p]
    BY <1>4, <2>1, BecomeTyped DEF TypeOK, LocalOK, Where, Holding, cell, local, history, LockRefresh
  <2>2. CASE ~(token # NoToken /\ token # tok[p])
    <3>1. /\ fresh' = [fresh EXCEPT ![p] = (token = tok[p]) /\ unproven]
          /\ pc' = [pc EXCEPT ![p] = "gate"]
          /\ loginMu' = p
          /\ UNCHANGED <<creds, cell, tok, remain, history>>
      BY <1>4, <2>2 DEF LockRefresh
    <3>2. ((token = tok[p]) /\ unproven) \in BOOLEAN
      OBVIOUS
    <3>3. fresh' \in [Procs -> BOOLEAN]
      BY <3>1, <3>2 DEF TypeOK
    <3>4. QED
      BY <3>1, <3>3 DEF TypeOK, Where, Holding, cell, history
  <2>3. QED
    BY <2>1, <2>2
<1>5. ASSUME NEW p \in Procs, ReadGate(p)  PROVE  TypeOK'
  BY <1>5, SMT DEF TypeOK, Where, Holding, cell, local, history, ReadGate
<1>6. ASSUME NEW p \in Procs, Refuse(p)  PROVE  TypeOK'
  BY <1>6, SMT DEF TypeOK, Where, Holding, cell, local, history, Refuse, Return, Become
<1>7. ASSUME NEW p \in Procs, Admit(p)  PROVE  TypeOK'
  BY <1>7, SMT DEF TypeOK, Where, Holding, cell, local, history, Admit, Goto
<1>8. ASSUME NEW p \in Procs, Strike(p)  PROVE  TypeOK'
  BY <1>8, SMT DEF TypeOK, Where, Holding, cell, local, history, Strike, Goto
<1>9. ASSUME NEW p \in Procs, Drop(p)  PROVE  TypeOK'
  BY <1>9, SMT DEF TypeOK, Where, Holding, cell, local, history, Drop, RecordLoginFailure, Return, Become
<1>10. ASSUME NEW p \in Procs, MarkRead(p)  PROVE  TypeOK'
  <2>1. CASE (unproven \/ freshRejections > 0) /\ token = tok[p]
    BY <1>10, <2>1, GotoTyped DEF TypeOK, LocalOK, Where, Holding, cell, local, history, MarkRead, Return
  <2>2. CASE ~((unproven \/ freshRejections > 0) /\ token = tok[p])
    BY <1>10, <2>2, BecomeTyped DEF TypeOK, LocalOK, Where, Holding, cell, local, history, MarkRead, Return
  <2>3. QED
    BY <2>1, <2>2
<1>11. ASSUME NEW p \in Procs, MarkWrite(p)  PROVE  TypeOK'
  BY <1>11, SMT DEF TypeOK, Where, Holding, cell, local, history, MarkWrite, Return, Become
<1>12. ASSUME NEW p \in Procs, NEW t \in Tokens, LoginGranted(p, t)  PROVE  TypeOK'
  BY <1>12, SMT DEF TypeOK, Where, Holding, cell, local, history, LoginGranted, StoreToken, Become
<1>13. ASSUME NEW p \in Procs, LoginRefused(p)  PROVE  TypeOK'
  BY <1>13, SMT DEF TypeOK, Where, Holding, cell, local, history, LoginRefused, RecordLoginFailure, Return, Become
<1>14. ASSUME NEW p \in Procs, LoginFailed(p)  PROVE  TypeOK'
  BY <1>14, SMT DEF TypeOK, Where, Holding, cell, local, history, LoginFailed, Return, Become
<1>15. ASSUME NEW p \in Procs, NEW t \in Tokens, ExplicitGranted(p, t)  PROVE  TypeOK'
  BY <1>15, SMT DEF TypeOK, Where, Holding, cell, local, history, ExplicitGranted, StoreToken, Return, Become
<1>16. ASSUME NEW p \in Procs, ExplicitRefused(p)  PROVE  TypeOK'
  BY <1>16, SMT DEF TypeOK, Where, Holding, cell, local, history, ExplicitRefused, RecordLoginFailure, Return, Become
<1>17. ASSUME NEW p \in Procs, ExplicitFailed(p)  PROVE  TypeOK'
  BY <1>17, SMT DEF TypeOK, Where, Holding, cell, local, history, ExplicitFailed, Return, Become
<1>18. ASSUME NEW p \in Procs, Accepted(p)  PROVE  TypeOK'
  BY <1>18, SMT DEF TypeOK, Where, Holding, cell, local, history, Accepted, Goto
<1>19. ASSUME NEW p \in Procs, Unanswered(p)  PROVE  TypeOK'
  BY <1>19, SMT DEF TypeOK, Where, Holding, cell, local, history, Unanswered, Return, Become
<1>20. ASSUME NEW p \in Procs, Unauthorized(p)  PROVE  TypeOK'
  <2>1. CASE pc[p] = "sent" /\ creds
    BY <1>20, <2>1, GotoTyped DEF TypeOK, LocalOK, Where, Holding, cell, local, history, Unauthorized, Return
  <2>2. CASE ~(pc[p] = "sent" /\ creds)
    BY <1>20, <2>2, BecomeTyped DEF TypeOK, LocalOK, Where, Holding, cell, local, history, Unauthorized, Return
  <2>3. QED
    BY <2>1, <2>2
<1>21. ASSUME NEW t \in Tokens \cup {NoToken}, SetToken(t)  PROVE  TypeOK'
  <2>1. unproven' \in BOOLEAN /\ freshRejections' = 0 /\ token' = t /\ gate' = 0
    BY <1>21 DEF SetToken, StoreToken
  <2>2. spent' = 0 /\ quiet' = 0 /\ UNCHANGED <<creds, loginMu, local>>
    BY <1>21 DEF SetToken
  <2>3. QED
    BY <2>1, <2>2 DEF TypeOK, local
<1>22. CASE Tick
  BY <1>22, SMT DEF TypeOK, Where, Holding, cell, local, history, Tick, Decr
<1>23. CASE UNCHANGED vars
  BY <1>23 DEF TypeOK, Where, Holding, cell, local, history, vars
<1>24. QED
  BY <1>1, <1>2, <1>3, <1>4, <1>5, <1>6, <1>7, <1>8, <1>9, <1>10, <1>11, <1>12, <1>13, <1>14, <1>15, <1>16, <1>17, <1>18, <1>19, <1>20, <1>21, <1>22, <1>23
  DEF Next, Lock, Compute, Receive

(* Every step keeps loginMu exclusive.                                     *)
LEMMA ExclusiveStep ==
  ASSUME TypeOK, LoginExclusive, [Next]_vars
  PROVE  LoginExclusive'
<1>1. ASSUME NEW p \in Procs, Begin(p)  PROVE  LoginExclusive'
  BY <1>1, SMT DEF TypeOK, LoginExclusive, Where, Holding, cell, local, history, Begin, Become
<1>2. ASSUME NEW p \in Procs, CallLogin(p)  PROVE  LoginExclusive'
  BY <1>2, SMT DEF TypeOK, LoginExclusive, Where, Holding, cell, local, history, CallLogin, Goto
<1>3. ASSUME NEW p \in Procs, LockEnsure(p)  PROVE  LoginExclusive'
  BY <1>3, SMT DEF TypeOK, LoginExclusive, Where, Holding, cell, local, history, LockEnsure, Become, Goto
<1>4. ASSUME NEW p \in Procs, LockRefresh(p)  PROVE  LoginExclusive'
  BY <1>4, SMT DEF TypeOK, LoginExclusive, Where, Holding, cell, local, history, LockRefresh, Become
<1>5. ASSUME NEW p \in Procs, ReadGate(p)  PROVE  LoginExclusive'
  BY <1>5, SMT DEF TypeOK, LoginExclusive, Where, Holding, cell, local, history, ReadGate
<1>6. ASSUME NEW p \in Procs, Refuse(p)  PROVE  LoginExclusive'
  BY <1>6, SMT DEF TypeOK, LoginExclusive, Where, Holding, cell, local, history, Refuse, Return, Become
<1>7. ASSUME NEW p \in Procs, Admit(p)  PROVE  LoginExclusive'
  BY <1>7, SMT DEF TypeOK, LoginExclusive, Where, Holding, cell, local, history, Admit, Goto
<1>8. ASSUME NEW p \in Procs, Strike(p)  PROVE  LoginExclusive'
  BY <1>8, SMT DEF TypeOK, LoginExclusive, Where, Holding, cell, local, history, Strike, Goto
<1>9. ASSUME NEW p \in Procs, Drop(p)  PROVE  LoginExclusive'
  BY <1>9, SMT DEF TypeOK, LoginExclusive, Where, Holding, cell, local, history, Drop, RecordLoginFailure, Return, Become
<1>10. ASSUME NEW p \in Procs, MarkRead(p)  PROVE  LoginExclusive'
  BY <1>10, SMT DEF TypeOK, LoginExclusive, Where, Holding, cell, local, history, MarkRead, Goto, Return, Become
<1>11. ASSUME NEW p \in Procs, MarkWrite(p)  PROVE  LoginExclusive'
  BY <1>11, SMT DEF TypeOK, LoginExclusive, Where, Holding, cell, local, history, MarkWrite, Return, Become
<1>12. ASSUME NEW p \in Procs, NEW t \in Tokens, LoginGranted(p, t)  PROVE  LoginExclusive'
  BY <1>12, SMT DEF TypeOK, LoginExclusive, Where, Holding, cell, local, history, LoginGranted, StoreToken, Become
<1>13. ASSUME NEW p \in Procs, LoginRefused(p)  PROVE  LoginExclusive'
  BY <1>13, SMT DEF TypeOK, LoginExclusive, Where, Holding, cell, local, history, LoginRefused, RecordLoginFailure, Return, Become
<1>14. ASSUME NEW p \in Procs, LoginFailed(p)  PROVE  LoginExclusive'
  BY <1>14, SMT DEF TypeOK, LoginExclusive, Where, Holding, cell, local, history, LoginFailed, Return, Become
<1>15. ASSUME NEW p \in Procs, NEW t \in Tokens, ExplicitGranted(p, t)  PROVE  LoginExclusive'
  BY <1>15, SMT DEF TypeOK, LoginExclusive, Where, Holding, cell, local, history, ExplicitGranted, StoreToken, Return, Become
<1>16. ASSUME NEW p \in Procs, ExplicitRefused(p)  PROVE  LoginExclusive'
  BY <1>16, SMT DEF TypeOK, LoginExclusive, Where, Holding, cell, local, history, ExplicitRefused, RecordLoginFailure, Return, Become
<1>17. ASSUME NEW p \in Procs, ExplicitFailed(p)  PROVE  LoginExclusive'
  BY <1>17, SMT DEF TypeOK, LoginExclusive, Where, Holding, cell, local, history, ExplicitFailed, Return, Become
<1>18. ASSUME NEW p \in Procs, Accepted(p)  PROVE  LoginExclusive'
  BY <1>18, SMT DEF TypeOK, LoginExclusive, Where, Holding, cell, local, history, Accepted, Goto
<1>19. ASSUME NEW p \in Procs, Unanswered(p)  PROVE  LoginExclusive'
  BY <1>19, SMT DEF TypeOK, LoginExclusive, Where, Holding, cell, local, history, Unanswered, Return, Become
<1>20. ASSUME NEW p \in Procs, Unauthorized(p)  PROVE  LoginExclusive'
  BY <1>20, SMT DEF TypeOK, LoginExclusive, Where, Holding, cell, local, history, Unauthorized, Goto, Return, Become
<1>21. ASSUME NEW t \in Tokens \cup {NoToken}, SetToken(t)  PROVE  LoginExclusive'
  BY <1>21, SMT DEF TypeOK, LoginExclusive, Where, Holding, cell, local, history, SetToken, StoreToken
<1>22. CASE Tick
  BY <1>22, SMT DEF TypeOK, LoginExclusive, Where, Holding, cell, local, history, Tick, Decr
<1>23. CASE UNCHANGED vars
  BY <1>23 DEF TypeOK, LoginExclusive, Where, Holding, cell, local, history, vars
<1>24. QED
  BY <1>1, <1>2, <1>3, <1>4, <1>5, <1>6, <1>7, <1>8, <1>9, <1>10, <1>11, <1>12, <1>13, <1>14, <1>15, <1>16, <1>17, <1>18, <1>19, <1>20, <1>21, <1>22, <1>23
  DEF Next, Lock, Compute, Receive

(* Every step keeps the account of strikes and of tokens obtained.         *)
LEMMA CountStep ==
  ASSUME TypeOK, LoginExclusive, Count, [Next]_vars
  PROVE  Count'
<1>1. ASSUME NEW p \in Procs, Begin(p)  PROVE  Count'
  BY <1>1, SMT DEF TypeOK, LoginExclusive, Count, Holding, cell, local, history, Begin, Become
<1>2. ASSUME NEW p \in Procs, CallLogin(p)  PROVE  Count'
  BY <1>2, SMT DEF TypeOK, LoginExclusive, Count, Holding, cell, local, history, CallLogin, Goto
<1>3. ASSUME NEW p \in Procs, LockEnsure(p)  PROVE  Count'
  BY <1>3, SMT DEF TypeOK, LoginExclusive, Count, Holding, cell, local, history, LockEnsure, Become, Goto
<1>4. ASSUME NEW p \in Procs, LockRefresh(p)  PROVE  Count'
  BY <1>4, SMT DEF TypeOK, LoginExclusive, Count, Holding, cell, local, history, LockRefresh, Become
<1>5. ASSUME NEW p \in Procs, ReadGate(p)  PROVE  Count'
  BY <1>5, SMT DEF TypeOK, LoginExclusive, Count, Holding, cell, local, history, ReadGate
<1>6. ASSUME NEW p \in Procs, Refuse(p)  PROVE  Count'
  BY <1>6, SMT DEF TypeOK, LoginExclusive, Count, Holding, cell, local, history, Refuse, Return, Become
<1>7. ASSUME NEW p \in Procs, Admit(p)  PROVE  Count'
  BY <1>7, SMT DEF TypeOK, LoginExclusive, Count, Holding, cell, local, history, Admit, Goto
<1>8. ASSUME NEW p \in Procs, Strike(p)  PROVE  Count'
  BY <1>8, SMT DEF TypeOK, LoginExclusive, Count, Holding, cell, local, history, Strike, Goto
<1>9. ASSUME NEW p \in Procs, Drop(p)  PROVE  Count'
  <2>1. spent' = 0 /\ freshRejections' = freshRejections
    BY <1>9 DEF Drop, RecordLoginFailure
  <2>2. unproven' => token' # NoToken
    BY <1>9 DEF Drop, RecordLoginFailure, Count
  <2>3. QED
    BY <2>1, <2>2, SMT DEF TypeOK, Count
<1>10. ASSUME NEW p \in Procs, MarkRead(p)  PROVE  Count'
  BY <1>10, SMT DEF TypeOK, LoginExclusive, Count, Holding, cell, local, history, MarkRead, Goto, Return, Become
<1>11. ASSUME NEW p \in Procs, MarkWrite(p)  PROVE  Count'
  BY <1>11, SMT DEF TypeOK, LoginExclusive, Count, Holding, cell, local, history, MarkWrite, Return, Become
<1>12. ASSUME NEW p \in Procs, NEW t \in Tokens, LoginGranted(p, t)  PROVE  Count'
  BY <1>12, SMT DEF TypeOK, LoginExclusive, Count, Holding, cell, local, history, LoginGranted, StoreToken, Become
<1>13. ASSUME NEW p \in Procs, LoginRefused(p)  PROVE  Count'
  BY <1>13, SMT DEF TypeOK, LoginExclusive, Count, Holding, cell, local, history, LoginRefused, RecordLoginFailure, Return, Become
<1>14. ASSUME NEW p \in Procs, LoginFailed(p)  PROVE  Count'
  BY <1>14, SMT DEF TypeOK, LoginExclusive, Count, Holding, cell, local, history, LoginFailed, Return, Become
<1>15. ASSUME NEW p \in Procs, NEW t \in Tokens, ExplicitGranted(p, t)  PROVE  Count'
  BY <1>15, SMT DEF TypeOK, LoginExclusive, Count, Holding, cell, local, history, ExplicitGranted, StoreToken, Return, Become
<1>16. ASSUME NEW p \in Procs, ExplicitRefused(p)  PROVE  Count'
  BY <1>16, SMT DEF TypeOK, LoginExclusive, Count, Holding, cell, local, history, ExplicitRefused, RecordLoginFailure, Return, Become
<1>17. ASSUME NEW p \in Procs, ExplicitFailed(p)  PROVE  Count'
  BY <1>17, SMT DEF TypeOK, LoginExclusive, Count, Holding, cell, local, history, ExplicitFailed, Return, Become
<1>18. ASSUME NEW p \in Procs, Accepted(p)  PROVE  Count'
  BY <1>18, SMT DEF TypeOK, LoginExclusive, Count, Holding, cell, local, history, Accepted, Goto
<1>19. ASSUME NEW p \in Procs, Unanswered(p)  PROVE  Count'
  BY <1>19, SMT DEF TypeOK, LoginExclusive, Count, Holding, cell, local, history, Unanswered, Return, Become
<1>20. ASSUME NEW p \in Procs, Unauthorized(p)  PROVE  Count'
  BY <1>20, SMT DEF TypeOK, LoginExclusive, Count, Holding, cell, local, history, Unauthorized, Goto, Return, Become
<1>21. ASSUME NEW t \in Tokens \cup {NoToken}, SetToken(t)  PROVE  Count'
  BY <1>21, SMT DEF TypeOK, LoginExclusive, Count, Holding, cell, local, history, SetToken, StoreToken
<1>22. CASE Tick
  BY <1>22, SMT DEF TypeOK, LoginExclusive, Count, Holding, cell, local, history, Tick, Decr
<1>23. CASE UNCHANGED vars
  BY <1>23 DEF TypeOK, LoginExclusive, Count, Holding, cell, local, history, vars
<1>24. QED
  BY <1>1, <1>2, <1>3, <1>4, <1>5, <1>6, <1>7, <1>8, <1>9, <1>10, <1>11, <1>12, <1>13, <1>14, <1>15, <1>16, <1>17, <1>18, <1>19, <1>20, <1>21, <1>22, <1>23
  DEF Next, Lock, Compute, Receive

(* Every step keeps the holder of loginMu aware of the window.             *)
LEMMA WindowStep ==
  ASSUME TypeOK, LoginExclusive, Window, [Next]_vars
  PROVE  Window'
<1>1. ASSUME NEW p \in Procs, Begin(p)  PROVE  Window'
  BY <1>1, SMT DEF TypeOK, LoginExclusive, Window, Holding, cell, local, history, Begin, Become
<1>2. ASSUME NEW p \in Procs, CallLogin(p)  PROVE  Window'
  BY <1>2, SMT DEF TypeOK, LoginExclusive, Window, Holding, cell, local, history, CallLogin, Goto
<1>3. ASSUME NEW p \in Procs, LockEnsure(p)  PROVE  Window'
  BY <1>3, SMT DEF TypeOK, LoginExclusive, Window, Holding, cell, local, history, LockEnsure, Become, Goto
<1>4. ASSUME NEW p \in Procs, LockRefresh(p)  PROVE  Window'
  BY <1>4, SMT DEF TypeOK, LoginExclusive, Window, Holding, cell, local, history, LockRefresh, Become
<1>5. ASSUME NEW p \in Procs, ReadGate(p)  PROVE  Window'
  BY <1>5, SMT DEF TypeOK, LoginExclusive, Window, Holding, cell, local, history, ReadGate
<1>6. ASSUME NEW p \in Procs, Refuse(p)  PROVE  Window'
  BY <1>6, SMT DEF TypeOK, LoginExclusive, Window, Holding, cell, local, history, Refuse, Return, Become
<1>7. ASSUME NEW p \in Procs, Admit(p)  PROVE  Window'
  BY <1>7, SMT DEF TypeOK, LoginExclusive, Window, Holding, cell, local, history, Admit, Goto
<1>8. ASSUME NEW p \in Procs, Strike(p)  PROVE  Window'
  BY <1>8, SMT DEF TypeOK, LoginExclusive, Window, Holding, cell, local, history, Strike, Goto
<1>9. ASSUME NEW p \in Procs, Drop(p)  PROVE  Window'
  BY <1>9, SMT DEF TypeOK, LoginExclusive, Window, Holding, cell, local, history, Drop, RecordLoginFailure, Return, Become
<1>10. ASSUME NEW p \in Procs, MarkRead(p)  PROVE  Window'
  BY <1>10, SMT DEF TypeOK, LoginExclusive, Window, Holding, cell, local, history, MarkRead, Goto, Return, Become
<1>11. ASSUME NEW p \in Procs, MarkWrite(p)  PROVE  Window'
  BY <1>11, SMT DEF TypeOK, LoginExclusive, Window, Holding, cell, local, history, MarkWrite, Return, Become
<1>12. ASSUME NEW p \in Procs, NEW t \in Tokens, LoginGranted(p, t)  PROVE  Window'
  BY <1>12, SMT DEF TypeOK, LoginExclusive, Window, Holding, cell, local, history, LoginGranted, StoreToken, Become
<1>13. ASSUME NEW p \in Procs, LoginRefused(p)  PROVE  Window'
  BY <1>13, SMT DEF TypeOK, LoginExclusive, Window, Holding, cell, local, history, LoginRefused, RecordLoginFailure, Return, Become
<1>14. ASSUME NEW p \in Procs, LoginFailed(p)  PROVE  Window'
  BY <1>14, SMT DEF TypeOK, LoginExclusive, Window, Holding, cell, local, history, LoginFailed, Return, Become
<1>15. ASSUME NEW p \in Procs, NEW t \in Tokens, ExplicitGranted(p, t)  PROVE  Window'
  BY <1>15, SMT DEF TypeOK, LoginExclusive, Window, Holding, cell, local, history, ExplicitGranted, StoreToken, Return, Become
<1>16. ASSUME NEW p \in Procs, ExplicitRefused(p)  PROVE  Window'
  BY <1>16, SMT DEF TypeOK, LoginExclusive, Window, Holding, cell, local, history, ExplicitRefused, RecordLoginFailure, Return, Become
<1>17. ASSUME NEW p \in Procs, ExplicitFailed(p)  PROVE  Window'
  BY <1>17, SMT DEF TypeOK, LoginExclusive, Window, Holding, cell, local, history, ExplicitFailed, Return, Become
<1>18. ASSUME NEW p \in Procs, Accepted(p)  PROVE  Window'
  BY <1>18, SMT DEF TypeOK, LoginExclusive, Window, Holding, cell, local, history, Accepted, Goto
<1>19. ASSUME NEW p \in Procs, Unanswered(p)  PROVE  Window'
  BY <1>19, SMT DEF TypeOK, LoginExclusive, Window, Holding, cell, local, history, Unanswered, Return, Become
<1>20. ASSUME NEW p \in Procs, Unauthorized(p)  PROVE  Window'
  BY <1>20, SMT DEF TypeOK, LoginExclusive, Window, Holding, cell, local, history, Unauthorized, Goto, Return, Become
<1>21. ASSUME NEW t \in Tokens \cup {NoToken}, SetToken(t)  PROVE  Window'
  BY <1>21, SMT DEF TypeOK, LoginExclusive, Window, Holding, cell, local, history, SetToken, StoreToken
<1>22. CASE Tick
  BY <1>22, SMT DEF TypeOK, LoginExclusive, Window, Holding, cell, local, history, Tick, Decr
<1>23. CASE UNCHANGED vars
  BY <1>23 DEF TypeOK, LoginExclusive, Window, Holding, cell, local, history, vars
<1>24. QED
  BY <1>1, <1>2, <1>3, <1>4, <1>5, <1>6, <1>7, <1>8, <1>9, <1>10, <1>11, <1>12, <1>13, <1>14, <1>15, <1>16, <1>17, <1>18, <1>19, <1>20, <1>21, <1>22, <1>23
  DEF Next, Lock, Compute, Receive

-----------------------------------------------------------------------------
(* The inductive invariant holds in every initial state of the session.    *)
LEMMA InitIInv ==
  ASSUME Init
  PROVE  IInv
<1>1. TypeOK
  <2>1. creds \in BOOLEAN /\ unproven \in BOOLEAN
    BY DEF Init
  <2>2. pc \in [Procs -> Where] /\ fresh \in [Procs -> BOOLEAN]
    BY DEF Init, Where
  <2>3. /\ token \in Tokens \cup {NoToken}
        /\ tok \in [Procs -> Tokens \cup {NoToken}]
        /\ remain \in [Procs -> 0..Backoff]
    BY DEF Init
  <2>4. QED
    BY <2>1, <2>2, <2>3 DEF Init, TypeOK
<1>2. LoginExclusive
  BY DEF Init, LoginExclusive, Holding
<1>3. Count
  BY DEF Init, Count
<1>4. Window
  BY DEF Init, Window
<1>5. QED
  BY <1>1, <1>2, <1>3, <1>4 DEF IInv

(* The inductive invariant holds in every reachable state of the session.  *)
THEOREM Inductive == Spec => []IInv
<1>1. Init => IInv
  BY InitIInv
<1>2. IInv /\ [Next]_vars => IInv'
  BY TypeStep, ExclusiveStep, CountStep, WindowStep DEF IInv
<1>3. QED
  BY <1>1, <1>2, PTL DEF Spec

(* The variables keep their types, whatever the server answers.            *)
THEOREM TypeCorrect == Spec => []TypeOK
<1>1. IInv => TypeOK
  BY DEF IInv
<1>2. QED
  BY <1>1, Inductive, PTL

(* No interleaving and no server makes the client obtain more than         *)
(* maxFreshRejections tokens in a row by itself.                           *)
THEOREM BudgetKept == Spec => []LoginBudget
<1>1. IInv => LoginBudget
  BY DEF IInv, Count, LoginBudget
<1>2. QED
  BY <1>1, Inductive, PTL

(* No automatic login is at the server while a suspension that the         *)
(* automatic login earned is in force.                                     *)
THEOREM WindowKept == Spec => []NoLoginInWindow
<1>1. IInv => NoLoginInWindow
  BY DEF IInv, Window, NoLoginInWindow
<1>2. QED
  BY <1>1, Inductive, PTL

-----------------------------------------------------------------------------
(* The session implements LoginThrottle: one lemma about the login at the  *)
(* server for a step that is not about it, then one step per action.       *)

(* A step of a call that neither reaches nor leaves the login at the       *)
(* server does not change whether one is there.                            *)
LEMMA SamePending ==
  ASSUME TypeOK, NEW p \in Procs, pc[p] # "login", pc'[p] # "login",
         \A q \in Procs \ {p} : pc'[q] = pc[q]
  PROVE  Pending' = Pending
BY DEF Pending

(* While a call holds loginMu and is not at its login, no automatic login  *)
(* is at the server.                                                       *)
LEMMA NonePending ==
  ASSUME LoginExclusive, NEW p \in Procs, pc[p] \in Holding, pc[p] # "login"
  PROVE  ~Pending
BY DEF LoginExclusive, Pending, Holding

(* When the call that is at the server leaves, no automatic login is left  *)
(* there.                                                                  *)
LEMMA LastPending ==
  ASSUME LoginExclusive, NEW p \in Procs, pc[p] = "login", pc'[p] # "login",
         \A q \in Procs \ {p} : pc'[q] = pc[q]
  PROVE  Pending /\ ~Pending'
BY DEF LoginExclusive, Pending, Holding

(* Every step of the session is a step of the throttle or changes nothing  *)
(* the throttle has.                                                       *)
LEMMA ThrottleStep ==
  ASSUME IInv, [Next]_vars
  PROVE  [Throttle!Next]_(Throttle!tvars)
<1> USE DEF IInv
<1>1. ASSUME NEW p \in Procs, Begin(p)  PROVE  UNCHANGED Throttle!tvars
  <2>1. /\ pc[p] # "login" /\ pc'[p] # "login"
        /\ \A q \in Procs \ {p} : pc'[q] = pc[q]
    BY <1>1, SMT DEF TypeOK, Begin, Become
  <2>2. UNCHANGED history
    BY <1>1 DEF Begin
  <2>3. QED
    BY <2>1, <2>2, SamePending DEF Throttle!tvars, history
<1>2. ASSUME NEW p \in Procs, CallLogin(p)  PROVE  UNCHANGED Throttle!tvars
  <2>1. /\ pc[p] # "login" /\ pc'[p] # "login"
        /\ \A q \in Procs \ {p} : pc'[q] = pc[q]
    BY <1>2, SMT DEF TypeOK, CallLogin, Goto
  <2>2. UNCHANGED history
    BY <1>2 DEF CallLogin
  <2>3. QED
    BY <2>1, <2>2, SamePending DEF Throttle!tvars, history
<1>3. ASSUME NEW p \in Procs, LockEnsure(p)  PROVE  UNCHANGED Throttle!tvars
  <2>1. /\ pc[p] # "login" /\ pc'[p] # "login"
        /\ \A q \in Procs \ {p} : pc'[q] = pc[q]
    BY <1>3, SMT DEF TypeOK, LockEnsure, Become, Goto
  <2>2. UNCHANGED history
    BY <1>3 DEF LockEnsure
  <2>3. QED
    BY <2>1, <2>2, SamePending DEF Throttle!tvars, history
<1>4. ASSUME NEW p \in Procs, LockRefresh(p)  PROVE  UNCHANGED Throttle!tvars
  <2>1. /\ pc[p] # "login" /\ pc'[p] # "login"
        /\ \A q \in Procs \ {p} : pc'[q] = pc[q]
    BY <1>4, SMT DEF TypeOK, LockRefresh, Become
  <2>2. UNCHANGED history
    BY <1>4 DEF LockRefresh
  <2>3. QED
    BY <2>1, <2>2, SamePending DEF Throttle!tvars, history
<1>5. ASSUME NEW p \in Procs, ReadGate(p)  PROVE  UNCHANGED Throttle!tvars
  <2>1. /\ pc[p] # "login" /\ pc'[p] # "login"
        /\ \A q \in Procs \ {p} : pc'[q] = pc[q]
    BY <1>5, SMT DEF TypeOK, ReadGate
  <2>2. UNCHANGED history
    BY <1>5 DEF ReadGate
  <2>3. QED
    BY <2>1, <2>2, SamePending DEF Throttle!tvars, history
<1>6. ASSUME NEW p \in Procs, Refuse(p)  PROVE  UNCHANGED Throttle!tvars
  <2>1. /\ pc[p] # "login" /\ pc'[p] # "login"
        /\ \A q \in Procs \ {p} : pc'[q] = pc[q]
    BY <1>6, SMT DEF TypeOK, Refuse, Return, Become
  <2>2. UNCHANGED history
    BY <1>6 DEF Refuse
  <2>3. QED
    BY <2>1, <2>2, SamePending DEF Throttle!tvars, history
<1>7. ASSUME NEW p \in Procs, MarkRead(p)  PROVE  UNCHANGED Throttle!tvars
  <2>1. /\ pc[p] # "login" /\ pc'[p] # "login"
        /\ \A q \in Procs \ {p} : pc'[q] = pc[q]
    BY <1>7, SMT DEF TypeOK, MarkRead, Goto, Return, Become
  <2>2. UNCHANGED history
    BY <1>7 DEF MarkRead
  <2>3. QED
    BY <2>1, <2>2, SamePending DEF Throttle!tvars, history
<1>8. ASSUME NEW p \in Procs, Accepted(p)  PROVE  UNCHANGED Throttle!tvars
  <2>1. /\ pc[p] # "login" /\ pc'[p] # "login"
        /\ \A q \in Procs \ {p} : pc'[q] = pc[q]
    BY <1>8, SMT DEF TypeOK, Accepted, Goto
  <2>2. UNCHANGED history
    BY <1>8 DEF Accepted
  <2>3. QED
    BY <2>1, <2>2, SamePending DEF Throttle!tvars, history
<1>9. ASSUME NEW p \in Procs, Unanswered(p)  PROVE  UNCHANGED Throttle!tvars
  <2>1. /\ pc[p] # "login" /\ pc'[p] # "login"
        /\ \A q \in Procs \ {p} : pc'[q] = pc[q]
    BY <1>9, SMT DEF TypeOK, Unanswered, Return, Become
  <2>2. UNCHANGED history
    BY <1>9 DEF Unanswered
  <2>3. QED
    BY <2>1, <2>2, SamePending DEF Throttle!tvars, history
<1>10. ASSUME NEW p \in Procs, Unauthorized(p)  PROVE  UNCHANGED Throttle!tvars
  <2>1. /\ pc[p] # "login" /\ pc'[p] # "login"
        /\ \A q \in Procs \ {p} : pc'[q] = pc[q]
    BY <1>10, SMT DEF TypeOK, Unauthorized, Goto, Return, Become
  <2>2. UNCHANGED history
    BY <1>10 DEF Unauthorized
  <2>3. QED
    BY <2>1, <2>2, SamePending DEF Throttle!tvars, history
<1>11. ASSUME NEW p \in Procs, ExplicitRefused(p)  PROVE  UNCHANGED Throttle!tvars
  <2>1. /\ pc[p] # "login" /\ pc'[p] # "login"
        /\ \A q \in Procs \ {p} : pc'[q] = pc[q]
    BY <1>11, SMT DEF TypeOK, ExplicitRefused, RecordLoginFailure, Return, Become
  <2>2. UNCHANGED history
    BY <1>11 DEF ExplicitRefused
  <2>3. QED
    BY <2>1, <2>2, SamePending DEF Throttle!tvars, history
<1>12. ASSUME NEW p \in Procs, ExplicitFailed(p)  PROVE  UNCHANGED Throttle!tvars
  <2>1. /\ pc[p] # "login" /\ pc'[p] # "login"
        /\ \A q \in Procs \ {p} : pc'[q] = pc[q]
    BY <1>12, SMT DEF TypeOK, ExplicitFailed, Return, Become
  <2>2. UNCHANGED history
    BY <1>12 DEF ExplicitFailed
  <2>3. QED
    BY <2>1, <2>2, SamePending DEF Throttle!tvars, history
<1>13. ASSUME NEW p \in Procs, Admit(p)  PROVE  [Throttle!Next]_(Throttle!tvars)
  <2>1. ~Pending /\ UNCHANGED history
    BY <1>13, NonePending DEF Admit, Holding
  <2>2. CASE fresh[p]
    <3>1. pc'[p] # "login" /\ \A q \in Procs \ {p} : pc'[q] = pc[q]
      BY <1>13, <2>2, SMT DEF TypeOK, Admit, Goto
    <3>2. QED
      BY <1>13, <2>1, <3>1, SamePending DEF Admit, Throttle!tvars, history
  <2>3. CASE ~fresh[p]
    <3>1. Pending'
      BY <1>13, <2>3, SMT DEF TypeOK, Admit, Goto, Pending
    <3>2. quiet = 0
      BY <1>13, SMT DEF TypeOK, Window, Admit
    <3>3. spent < MaxFresh
      BY <1>13, <2>3, SMT DEF TypeOK, Count, Admit
    <3>4. QED
      BY <2>1, <3>1, <3>2, <3>3 DEF Throttle!Next, Throttle!Ask, history
  <2>4. QED
    BY <2>2, <2>3
<1>14. ASSUME NEW p \in Procs, Strike(p)  PROVE  [Throttle!Next]_(Throttle!tvars)
  <2>1. ~Pending /\ UNCHANGED history
    BY <1>14, NonePending DEF Strike, Holding
  <2>2. CASE freshRejections + 1 < MaxFresh
    <3>1. Pending'
      BY <1>14, <2>2, SMT DEF TypeOK, Strike, Goto, Pending
    <3>2. quiet = 0
      BY <1>14, SMT DEF TypeOK, Window, Strike
    <3>3. spent < MaxFresh
      BY <2>2, SMT DEF TypeOK, Count
    <3>4. QED
      BY <2>1, <3>1, <3>2, <3>3 DEF Throttle!Next, Throttle!Ask, history
  <2>3. CASE ~(freshRejections + 1 < MaxFresh)
    <3>1. pc'[p] # "login" /\ \A q \in Procs \ {p} : pc'[q] = pc[q]
      BY <1>14, <2>3, SMT DEF TypeOK, Strike, Goto
    <3>2. QED
      BY <1>14, <2>1, <3>1, SamePending DEF Strike, Throttle!tvars, history
  <2>4. QED
    BY <2>2, <2>3
<1>15. ASSUME NEW p \in Procs, Drop(p)  PROVE  Throttle!Next
  <2>1. /\ pc[p] # "login" /\ pc'[p] # "login"
        /\ \A q \in Procs \ {p} : pc'[q] = pc[q]
    BY <1>15, SMT DEF TypeOK, Drop, Return, Become
  <2>2. ~Pending'
    BY <1>15, <2>1, SamePending, NonePending DEF Drop, Holding
  <2>3. spent' = 0 /\ quiet' = Backoff
    BY <1>15 DEF Drop
  <2>4. QED
    BY <2>2, <2>3 DEF Throttle!Next, Throttle!Suspend
<1>16. ASSUME NEW p \in Procs, NEW t \in Tokens, LoginGranted(p, t)  PROVE  Throttle!Next
  <2>1. /\ pc[p] = "login" /\ pc'[p] # "login"
        /\ \A q \in Procs \ {p} : pc'[q] = pc[q]
    BY <1>16, SMT DEF TypeOK, LoginGranted, Become
  <2>2. Pending /\ ~Pending'
    BY <2>1, LastPending
  <2>3. spent' = spent + 1 /\ UNCHANGED quiet
    BY <1>16 DEF LoginGranted, Become, Window, TypeOK
  <2>4. QED
    BY <2>2, <2>3 DEF Throttle!Next, Throttle!Granted
<1>17. ASSUME NEW p \in Procs, LoginRefused(p)  PROVE  Throttle!Next
  <2>1. /\ pc[p] = "login" /\ pc'[p] # "login"
        /\ \A q \in Procs \ {p} : pc'[q] = pc[q]
    BY <1>17, SMT DEF TypeOK, LoginRefused, Return, Become
  <2>2. Pending /\ ~Pending'
    BY <2>1, LastPending
  <2>3. spent' = 0 /\ quiet' = Backoff
    BY <1>17 DEF LoginRefused, Return, Become
  <2>4. QED
    BY <2>2, <2>3 DEF Throttle!Next, Throttle!Suspend
<1>18. ASSUME NEW p \in Procs, LoginFailed(p)  PROVE  Throttle!Next
  <2>1. /\ pc[p] = "login" /\ pc'[p] # "login"
        /\ \A q \in Procs \ {p} : pc'[q] = pc[q]
    BY <1>18, SMT DEF TypeOK, LoginFailed, Return, Become, history
  <2>2. Pending /\ ~Pending'
    BY <2>1, LastPending
  <2>3. UNCHANGED <<spent, quiet>>
    BY <1>18 DEF LoginFailed, Return, Become, history
  <2>4. QED
    BY <2>2, <2>3 DEF Throttle!Next, Throttle!NoVerdict
<1>19. ASSUME NEW p \in Procs, NEW t \in Tokens, ExplicitGranted(p, t)
       PROVE  Throttle!Next
  <2>1. /\ pc[p] # "login" /\ pc'[p] # "login"
        /\ \A q \in Procs \ {p} : pc'[q] = pc[q]
    BY <1>19, SMT DEF TypeOK, ExplicitGranted, Return, Become
  <2>2. spent' = 0 /\ quiet' = 0
    BY <1>19 DEF ExplicitGranted
  <2>3. QED
    BY <2>1, <2>2, SamePending DEF Throttle!Next, Throttle!Lift
<1>20. ASSUME NEW t \in Tokens \cup {NoToken}, SetToken(t)  PROVE  Throttle!Next
  <2>1. spent' = 0 /\ quiet' = 0 /\ pc' = pc
    BY <1>20 DEF SetToken, local
  <2>2. QED
    BY <2>1 DEF Throttle!Next, Throttle!Lift, Pending
<1>21. ASSUME NEW p \in Procs, MarkWrite(p)  PROVE  [Throttle!Next]_(Throttle!tvars)
  <2>1. /\ pc[p] # "login" /\ pc'[p] # "login"
        /\ \A q \in Procs \ {p} : pc'[q] = pc[q]
    BY <1>21, SMT DEF TypeOK, MarkWrite, Return, Become
  <2>2. Pending' = Pending /\ quiet' = quiet
    BY <1>21, <2>1, SamePending DEF MarkWrite
  <2>3. spent' = 0 \/ spent' = spent
    BY <1>21 DEF MarkWrite
  <2>4. QED
    BY <2>2, <2>3 DEF Throttle!Next, Throttle!Useful, Throttle!tvars
<1>22. CASE Tick
  <2>1. UNCHANGED <<pc, spent>> /\ quiet' = Decr(quiet)
    BY <1>22 DEF Tick
  <2>2. Pending' = Pending
    BY <2>1 DEF Pending
  <2>3. QED
    BY <2>1, <2>2, SMT DEF TypeOK, Decr, Throttle!Next, Throttle!Pass, Throttle!tvars
<1>23. CASE UNCHANGED vars
  BY <1>23 DEF vars, local, history, Throttle!tvars, Pending
<1>24. QED
  BY <1>1, <1>2, <1>3, <1>4, <1>5, <1>6, <1>7, <1>8, <1>9, <1>10, <1>11, <1>12, <1>13, <1>14, <1>15, <1>16, <1>17, <1>18, <1>19, <1>20, <1>21, <1>22, <1>23
  DEF Next, Lock, Compute, Receive

(* Every behaviour of the session is one of the throttle: logins one at a  *)
(* time, none in a suspension, a bounded run of useless ones.              *)
THEOREM Implements == Spec => ThrottleSpec
<1>1. Init => Throttle!Init
  BY DEF Init, Throttle!Init, Pending
<1>2. IInv /\ [Next]_vars => [Throttle!Next]_(Throttle!tvars)
  BY ThrottleStep
<1>3. QED
  BY <1>1, <1>2, Inductive, PTL DEF Spec, ThrottleSpec, Throttle!Spec
=============================================================================
