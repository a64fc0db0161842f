--------------------------- MODULE EmployeeWrite ---------------------------
(***************************************************************************)
(* EmployeeService.Create and Update (employees.go): the write, and the    *)
(* read-back by which the client finds out whether the server applied the  *)
(* attendance flags of the request, while other goroutines write the same  *)
(* employees and an administrator edits and deletes them.                  *)
(*                                                                         *)
(* The server is external.  It applies the flags it knows and silently     *)
(* drops the others, any answer may report any of the flags, and a refusal *)
(* with 401 comes before the write is executed.  Each of its steps is      *)
(* atomic; a call consumes an answer in a later step of its own.           *)
(***************************************************************************)
EXTENDS Naturals, Sequences, SequencesExt

CONSTANTS
  Writers,   \* the goroutines that write, one call each
  Ids,       \* identifiers of employees
  Order,     \* the attendance flags in the order of flagChecks
  NoId,      \* the identifier of a zero record
  Wants,     \* bound: the flags a call may set, with their values
  MaxEdits   \* bound: edits and deletions by the administrator

ASSUME IdsAssumption   == NoId \notin Ids \cup Writers
ASSUME OrderAssumption == Order \in Seq(STRING) /\ IsInjective(Order)
ASSUME EditsAssumption == MaxEdits \in Nat

Flags  == Range(Order)
Values == {"on", "off"}

(* The functions from a part of S to T.                                    *)
Subfunctions(S, T) == UNION {[D -> T] : D \in SUBSET S}

ASSUME WantsAssumption == Wants \subseteq Subfunctions(Flags, Values)

(* A record reports some flags; guessed are those of them that read as off *)
(* because the nested object of the answer lacks their member.             *)
Records == [id : Ids \cup {NoId}, flags : Subfunctions(Flags, Values),
            guessed : SUBSET Flags]
Zero    == [id |-> NoId, flags |-> <<>>, guessed |-> {}]

VARIABLES
  known,     \* the flags the server applies
  store,     \* the employees on the server, with all their flags
  edits,     \* how many edits and deletions there were
  pc,        \* where each call is
  resent,    \* whether exchange has already sent it a second time
  want,      \* the flags its params set, with the values requested
  target,    \* the employee it writes; NoId for a create
  rec,       \* the record it holds: e in verified and verifyFlags
  outcome,   \* what it returns
  field,     \* the flag the verdict names
  applied,   \* history: how often the server executed its write
  answered,  \* history: whether it received a record in answer to it
  agreed,    \* history: whether, at some moment since the write, the
             \* employee had every value requested at once
  disturbed  \* history: whether the employee was changed by anybody else
             \* since the write

server  == <<known, store, edits>>
call    == <<pc, resent, want, target, rec, outcome, field>>
history == <<applied, answered, agreed, disturbed>>
wvars   == <<server, call, history>>

NoFlag   == "none"
Outcomes == {"none", "ok", "error", "unconfirmed", "ignored", "not reported",
             "unverified"}

Init ==
  /\ known \in SUBSET Flags
  /\ store \in Subfunctions(Ids, [Flags -> Values])
  /\ edits = 0
  /\ pc       = [p \in Writers |-> "idle"]
  /\ resent   = [p \in Writers |-> FALSE]
  /\ want     = [p \in Writers |-> <<>>]
  /\ target   = [p \in Writers |-> NoId]
  /\ rec      = [p \in Writers |-> Zero]
  /\ outcome  = [p \in Writers |-> "none"]
  /\ field    = [p \in Writers |-> NoFlag]
  /\ applied  = [p \in Writers |-> 0]
  /\ answered = [p \in Writers |-> FALSE]
  /\ agreed   = [p \in Writers |-> FALSE]
  /\ disturbed = [p \in Writers |-> FALSE]

-----------------------------------------------------------------------------
Goto(p, w) ==
  /\ pc' = [pc EXCEPT ![p] = w]
  /\ UNCHANGED <<outcome, field>>

Return(p, how, f) ==
  /\ pc'      = [pc      EXCEPT ![p] = "over"]
  /\ outcome' = [outcome EXCEPT ![p] = how]
  /\ field'   = [field   EXCEPT ![p] = f]

Keeps(r, p) == \A f \in DOMAIN want[p] : r[f] = want[p][f]

(* What the history notes when employee i becomes r at the hands of p, or  *)
(* of the administrator.                                                   *)
Note(i, r, p) ==
  LET written(w) == w # p /\ applied[w] > 0 /\ target[w] = i IN
  /\ disturbed' = [w \in Writers |-> disturbed[w] \/ written(w)]
  /\ agreed'    = [w \in Writers |-> agreed[w] \/ (written(w) /\ Keeps(r, w))
                                               \/ (w = p /\ Keeps(r, p))]

-----------------------------------------------------------------------------
(* Create and Update up to the request: collection.one.                    *)

Create(p, flags) ==
  /\ pc[p] = "idle"
  /\ want' = [want EXCEPT ![p] = flags]
  /\ Goto(p, "send")
  /\ UNCHANGED <<server, resent, target, rec, history>>

Update(p, i, flags) ==
  /\ pc[p] = "idle"
  /\ want'   = [want   EXCEPT ![p] = flags]
  /\ target' = [target EXCEPT ![p] = i]
  /\ Goto(p, "send")
  /\ UNCHANGED <<server, resent, rec, history>>

(* Mutant of Answered: a lost answer makes the client ask again.           *)
AnsweredAgain(p, how) ==
  \/ how \in {"record", "blank"} /\ Goto(p, "verify")
  \/ how = "no record" /\ Return(p, "unconfirmed", NoFlag)
  \/ how = "lost" /\ Goto(p, "send")

(* Where the answer leads: on to verified, or out with an error.           *)
Answered(p, how) ==
  \/ how \in {"record", "blank"} /\ Goto(p, "verify")
  \/ how = "no record" /\ Return(p, "unconfirmed", NoFlag)
  \/ how = "lost" /\ Return(p, "error", NoFlag)

(* Employee.flag: an answer reports the flags in shown, at the top level   *)
(* or nested; where there is a nested object, a bool that is missing from  *)
(* it is decoded as false and counts as reported.                          *)
Report(i, r, shown, nested) ==
  [id |-> i, guessed |-> IF nested THEN Flags \ shown ELSE {},
   flags |-> IF nested THEN [f \in Flags |-> IF f \in shown THEN r[f] ELSE "off"]
                       ELSE Restrict(r, shown)]

(* The server executes the write on employee i and answers with a record   *)
(* that reports the flags in shown, with a blank body, with a readable     *)
(* object that holds no record, or in a way that does not reach the caller *)
(* as an answer: a lost connection, a gateway's status, a page of HTML.    *)
Execute(p, i, old, shown, nested, how) ==
  LET new == [f \in Flags |-> IF f \in known \cap DOMAIN want[p] THEN want[p][f]
                              ELSE old[f]]
  IN  /\ store'    = [j \in DOMAIN store \cup {i} |-> IF j = i THEN new ELSE store[j]]
      /\ target'   = [target   EXCEPT ![p] = i]
      /\ applied'  = [applied  EXCEPT ![p] = @ + 1]
      /\ answered' = [answered EXCEPT ![p] = (how = "record")]
      /\ Note(i, new, p)
      /\ rec' = IF how # "record" THEN rec
                ELSE [rec EXCEPT ![p] = Report(i, new, shown, nested)]
      /\ Answered(p, how)
      /\ UNCHANGED <<known, edits, resent, want>>

Written(p, shown, nested, how) ==
  /\ pc[p] = "send"
  /\ \/ /\ target[p] \in DOMAIN store
        /\ Execute(p, target[p], store[target[p]], shown, nested, how)
     \/ \E i \in Ids \ DOMAIN store :
          /\ target[p] = NoId
          /\ \A w \in Writers : target[w] # i
          /\ Execute(p, i, [f \in Flags |-> "off"], shown, nested, how)

(* exchange: a 401 is followed by one refresh and one more request.        *)
Unauthorized(p) ==
  /\ pc[p] = "send"
  /\ ~resent[p]
  /\ resent' = [resent EXCEPT ![p] = TRUE]
  /\ UNCHANGED <<server, pc, want, target, rec, outcome, field, history>>

(* Any other refusal, or no connection: nothing was written.               *)
Refused(p) ==
  /\ pc[p] = "send"
  /\ Return(p, "error", NoFlag)
  /\ UNCHANGED <<server, resent, want, target, rec, history>>

-----------------------------------------------------------------------------
(* verifyFlags.  An accessor reports a flag when the record carries it.    *)

Got(r, f) == f \in DOMAIN r.flags

NeedsFetch(p) == \E f \in DOMAIN want[p] : ~Got(rec[p], f)

(* Mutant of Doubted: a flag that is not reported is not doubted.          *)
DoubtedIfReported(r, w) ==
  {i \in DOMAIN Order : /\ Order[i] \in DOMAIN w
                        /\ Got(r, Order[i]) /\ r.flags[Order[i]] # w[Order[i]]}

(* The places in flagChecks of the flags that r does not confirm.          *)
Doubted(r, w) ==
  {i \in DOMAIN Order : /\ Order[i] \in DOMAIN w
                        /\ ~Got(r, Order[i]) \/ r.flags[Order[i]] # w[Order[i]]}

(* The first flag in doubt decides.                                        *)
First(i, doubted) == i \in doubted /\ \A j \in doubted : i <= j

(* Mutant of Judge: a flag the record does not carry counts as off.        *)
JudgeAbsentAsOff(p, r) ==
  LET doubted == Doubted(r, want[p]) IN
  \/ doubted = {} /\ Return(p, "ok", NoFlag)
  \/ \E i \in DOMAIN Order : First(i, doubted) /\ Return(p, "ignored", Order[i])

Judge(p, r) ==
  LET doubted == Doubted(r, want[p]) IN
  \/ doubted = {} /\ Return(p, "ok", NoFlag)
  \/ \E i \in DOMAIN Order :
       /\ First(i, doubted)
       /\ Return(p, IF Got(r, Order[i]) THEN "ignored" ELSE "not reported", Order[i])

(* Mutant of Verify: a record without an identifier is read back as well.  *)
VerifyZero(p) ==
  /\ pc[p] = "verify"
  /\ IF ~NeedsFetch(p) THEN Judge(p, rec[p]) ELSE Goto(p, "read")
  /\ UNCHANGED <<server, resent, want, target, rec, history>>

Verify(p) ==
  /\ pc[p] = "verify"
  /\ IF ~NeedsFetch(p) THEN Judge(p, rec[p])
     ELSE IF rec[p].id = NoId THEN Return(p, "unverified", NoFlag)
     ELSE Goto(p, "read")
  /\ UNCHANGED <<server, resent, want, target, rec, history>>

(* The read-back: the record as it is now, with the flags in shown.        *)
ReadBack(p, shown, nested) ==
  /\ pc[p] = "read"
  /\ rec[p].id \in DOMAIN store
  /\ LET r == Report(rec[p].id, store[rec[p].id], shown, nested)
     IN  /\ rec' = [rec EXCEPT ![p] = r]
         /\ Judge(p, r)
  /\ UNCHANGED <<server, resent, want, target, history>>

(* A read-back with a blank body is not decoded: the zero record that Get  *)
(* returns for it takes the place of the one the write was answered with.  *)
ReadBlank(p) ==
  /\ pc[p] = "read"
  /\ rec' = [rec EXCEPT ![p] = Zero]
  /\ Judge(p, Zero)
  /\ UNCHANGED <<server, resent, want, target, history>>

(* Mutant of ReadFails: the cause is returned in place of the record.      *)
ReadFailsOutright(p) ==
  /\ pc[p] = "read"
  /\ Return(p, "error", NoFlag)
  /\ rec' = [rec EXCEPT ![p] = Zero]
  /\ UNCHANGED <<server, resent, want, target, history>>

ReadFails(p) ==
  /\ pc[p] = "read"
  /\ Return(p, "unverified", NoFlag)
  /\ UNCHANGED <<server, resent, want, target, rec, history>>

-----------------------------------------------------------------------------
(* The administrator, in the server's own user interface.                  *)

Edit(i, r) ==
  /\ edits < MaxEdits
  /\ i \in DOMAIN store
  /\ store[i] # r
  /\ store' = [store EXCEPT ![i] = r]
  /\ edits' = edits + 1
  /\ Note(i, r, NoId)
  /\ UNCHANGED <<known, call, applied, answered>>

Delete(i) ==
  /\ edits < MaxEdits
  /\ i \in DOMAIN store
  /\ store' = Restrict(store, DOMAIN store \ {i})
  /\ edits' = edits + 1
  /\ disturbed' = [w \in Writers |-> disturbed[w] \/ (applied[w] > 0 /\ target[w] = i)]
  /\ UNCHANGED <<known, call, applied, answered, agreed>>

Next ==
  \/ \E p \in Writers :
       \/ \E flags \in Wants :
            Create(p, flags) \/ \E i \in Ids : Update(p, i, flags)
       \/ \E shown \in SUBSET Flags, nested \in BOOLEAN :
            \/ Written(p, shown, nested, "record")
            \/ ReadBack(p, shown, nested)
       \/ \E how \in {"blank", "no record", "lost"} : Written(p, {}, FALSE, how)
       \/ Unauthorized(p) \/ Refused(p) \/ Verify(p)
       \/ ReadBlank(p) \/ ReadFails(p)
  \/ \E i \in Ids : Delete(i) \/ \E r \in [Flags -> Values] : Edit(i, r)

Spec == Init /\ [][Next]_wvars

-----------------------------------------------------------------------------
(* Every variable has its type, a call that is over has an outcome, and    *)
(* what is read back is an employee with an identifier.                    *)
WTypeOK ==
  /\ known \subseteq Flags
  /\ store \in Subfunctions(Ids, [Flags -> Values])
  /\ edits \in 0..MaxEdits
  /\ pc \in [Writers -> {"idle", "send", "verify", "read", "over"}]
  /\ resent \in [Writers -> BOOLEAN]
  /\ want \in [Writers -> Subfunctions(Flags, Values)]
  /\ target \in [Writers -> Ids \cup {NoId}]
  /\ rec \in [Writers -> Records]
  /\ outcome \in [Writers -> Outcomes]
  /\ field \in [Writers -> Flags \cup {NoFlag}]
  /\ applied \in [Writers -> Nat]
  /\ answered \in [Writers -> BOOLEAN]
  /\ agreed \in [Writers -> BOOLEAN]
  /\ disturbed \in [Writers -> BOOLEAN]
  /\ \A p \in Writers : /\ pc[p] = "over" <=> outcome[p] # "none"
                        /\ pc[p] = "read" => rec[p].id # NoId

(* A call that returns no error really set the flags: at one moment after  *)
(* the write the employee had all the values requested together, however   *)
(* many others wrote it meanwhile, and whatever the server left out of its *)
(* answers.  The exception is a flag that was to be off and that a nested  *)
(* object does not mention (verifyFlags, Employee.flag).                   *)
OkIsConfirmed ==
  \A p \in Writers :
    outcome[p] = "ok" /\ want[p] # <<>> =>
      \/ agreed[p]
      \/ \E f \in DOMAIN want[p] \cap rec[p].guessed : want[p][f] = "off"

(* A definitive verdict is right when nobody interferes: the flag it names *)
(* is one the request set and, where the record has another value, one the *)
(* server does not apply, unless a nested object failed to mention it      *)
(* (ErrUnsupportedField).                                                  *)
VerdictIsRight ==
  \A p \in Writers :
    outcome[p] \in {"ignored", "not reported"} =>
      /\ field[p] \in DOMAIN want[p]
      /\ outcome[p] = "ignored" /\ ~disturbed[p] =>
           field[p] \notin known \/ field[p] \in rec[p].guessed

(* An accepted write is never lost to its caller: once the server answered *)
(* with the record, the call ends with that employee in hand, whatever the *)
(* verdict, and never as an error that invites to repeat the write         *)
(* (verified).  The exception is a blank read-back, after which the caller *)
(* holds the zero record and a verdict that nothing was reported.          *)
RecordIsKept ==
  \A p \in Writers :
    answered[p] /\ outcome[p] # "none" =>
      /\ outcome[p] \in {"ok", "ignored", "not reported", "unverified"}
      /\ \/ rec[p].id = target[p]
         \/ rec[p] = Zero /\ outcome[p] = "not reported"

(* One call writes at most once, even when its request was sent twice      *)
(* because the token had expired, and verifying it writes nothing.         *)
WrittenOnce == \A p \in Writers : applied[p] <= 1
=============================================================================
