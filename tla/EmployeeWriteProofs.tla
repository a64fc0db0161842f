------------------------- MODULE EmployeeWriteProofs -------------------------
(***************************************************************************)
(* Verified writes for any number of goroutines, employees and flags, and  *)
(* whatever an administrator does meanwhile: what Create and Update return *)
(* is true of the server, and an accepted write is never lost.             *)
(***************************************************************************)
EXTENDS EmployeeWrite, TLAPS

(* What each stage of a call knows: nothing is written before the answer,  *)
(* the record in hand is of the employee written, what a nested object     *)
(* leaves out is off, and nothing is read back unless a flag was asked for.*)
Stage(p) ==
  /\ pc[p] \in {"idle", "send"} =>
       applied[p] = 0 /\ rec[p] = Zero /\ ~answered[p]
  /\ pc[p] = "idle" => target[p] = NoId
  /\ pc[p] \in {"verify", "read"} => applied[p] = 1
  /\ pc[p] = "read" => DOMAIN want[p] # {}
  /\ applied[p] <= 1
  /\ applied[p] > 0 => target[p] \in Ids
  /\ rec[p].id \in {NoId, target[p]}
  /\ answered[p] /\ outcome[p] = "none" => rec[p].id = target[p]
  /\ \A f \in rec[p].guessed : f \in DOMAIN rec[p].flags /\ rec[p].flags[f] = "off"

(* A record says of every flag asked for that it is as requested, or of    *)
(* one that the server knows that it is not; what was guessed says neither.*)
Confirms(r, p) ==
  \A f \in DOMAIN want[p] :
    f \in DOMAIN r.flags \ r.guessed /\ r.flags[f] = want[p][f]

Denies(r, p) ==
  \E f \in DOMAIN want[p] \cap (DOMAIN r.flags \ r.guessed) :
    f \in known /\ r.flags[f] # want[p][f]

(* The answer to a write reports the employee as the write left it.        *)
Heard(p) ==
  pc[p] = "verify" => (Confirms(rec[p], p) => agreed[p]) /\ ~Denies(rec[p], p)

(* So does the server, until somebody else writes the employee, and the    *)
(* history has noted every moment at which it had all that was requested.  *)
Stored(p) ==
  applied[p] > 0 /\ target[p] \in DOMAIN store =>
    /\ Keeps(store[target[p]], p) => agreed[p]
    /\ ~disturbed[p] =>
         \A f \in known \cap DOMAIN want[p] : store[target[p]][f] = want[p][f]

(* What a call that has returned says is true.                             *)
Confirmed(p) ==
  outcome[p] = "ok" /\ want[p] # <<>> =>
    \/ agreed[p]
    \/ \E f \in DOMAIN want[p] \cap rec[p].guessed : want[p][f] = "off"

Right(p) ==
  outcome[p] \in {"ignored", "not reported"} =>
    /\ field[p] \in DOMAIN want[p]
    /\ outcome[p] = "ignored" /\ ~disturbed[p] =>
         field[p] \notin known \/ field[p] \in rec[p].guessed

Kept(p) ==
  answered[p] /\ outcome[p] # "none" =>
    /\ outcome[p] \in {"ok", "ignored", "not reported", "unverified"}
    /\ rec[p].id = target[p] \/ (rec[p] = Zero /\ outcome[p] = "not reported")

Good(p) == Stage(p) /\ Heard(p) /\ Stored(p) /\ Confirmed(p) /\ Right(p) /\ Kept(p)

WInv == WTypeOK /\ \A p \in Writers : Good(p)

-----------------------------------------------------------------------------
(* A partial function is a function on a part of its source.               *)
LEMMA Subfunction ==
  ASSUME NEW S, NEW T, NEW f
  PROVE  f \in Subfunctions(S, T)
           <=> DOMAIN f \subseteq S /\ f \in [DOMAIN f -> T]
BY DEF Subfunctions

(* No flag at all is such a function, and the only one with no flag.       *)
LEMMA NoFlagAtAll ==
  ASSUME NEW T
  PROVE  DOMAIN <<>> = {} /\ \A f \in [{} -> T] : f = <<>>
<1>1. <<>> \in Seq(T) /\ Len(<<>>) = 0
  OBVIOUS
<1>2. DOMAIN <<>> = 1..0 /\ <<>> \in [1..0 -> T]
  BY <1>1
<1>3. 1..0 = {}
  OBVIOUS
<1> QED
  BY <1>2, <1>3

(* The zero record reports nothing.                                        *)
LEMMA ZeroRecord ==
  Zero \in Records /\ DOMAIN Zero.flags = {} /\ Zero.guessed = {} /\ Zero.id = NoId
<1>1. DOMAIN <<>> = {} /\ <<>> \in [{} -> Values]
  <2>1. \A f \in [{} -> Values] : f = <<>>
    BY NoFlagAtAll
  <2> DEFINE f == [x \in {} |-> "on"]
  <2>2. f \in [{} -> Values]
    OBVIOUS
  <2> QED
    BY <2>1, <2>2, NoFlagAtAll
<1>2. <<>> \in Subfunctions(Flags, Values)
  BY <1>1, Subfunction
<1> QED
  BY <1>1, <1>2 DEF Zero, Records

(* A report is a record of the employee it is about: what it does not      *)
(* guess is so, and what it guesses is off (Employee.flag).                *)
Reports(e, i, r) ==
  /\ e \in Records /\ e.id = i
  /\ \A f \in e.guessed : f \in DOMAIN e.flags /\ e.flags[f] = "off"
  /\ \A f \in DOMAIN e.flags \ e.guessed : f \in Flags /\ e.flags[f] = r[f]

(* An answer shows flags of the stored record, up to those it lacks.       *)
LEMMA ReportIsTrue ==
  ASSUME NEW i \in Ids \cup {NoId}, NEW r \in [Flags -> Values],
         NEW shown \in SUBSET Flags, NEW nested \in BOOLEAN,
         NEW e, e = Report(i, r, shown, nested)
  PROVE  Reports(e, i, r)
<1>1. CASE nested
  <2> DEFINE fs == [f \in Flags |-> IF f \in shown THEN r[f] ELSE "off"]
  <2>1. fs \in [Flags -> Values]
    BY DEF Values
  <2>2. fs \in Subfunctions(Flags, Values)
    BY <2>1, Subfunction
  <2>3. e = [id |-> i, guessed |-> Flags \ shown, flags |-> fs]
    BY <1>1 DEF Report
  <2> QED
    BY <2>2, <2>3 DEF Records, Reports
<1>2. CASE ~nested
  <2> DEFINE fs == Restrict(r, shown)
  <2>1. fs \in [shown -> Values] /\ \A f \in shown : fs[f] = r[f]
    BY DEF Restrict
  <2>2. fs \in Subfunctions(Flags, Values)
    BY <2>1, Subfunction
  <2>3. e = [id |-> i, guessed |-> {}, flags |-> fs]
    BY <1>2 DEF Report
  <2> HIDE DEF fs
  <2> QED
    BY <2>1, <2>2, <2>3 DEF Records, Reports
<1> QED
  BY <1>1, <1>2

(* The verdict of a record on what was requested (verifyFlags).            *)
LEMMA Verdict ==
  ASSUME NEW p \in Writers, NEW r, DOMAIN want[p] \subseteq Flags, Judge(p, r)
  PROVE  \E how \in Outcomes, f \in Flags \cup {NoFlag} :
           /\ Return(p, how, f)
           /\ \/ /\ how = "ok"
                 /\ \A g \in DOMAIN want[p] : Got(r, g) /\ r.flags[g] = want[p][g]
              \/ how = "ignored" /\ f \in DOMAIN want[p]
                                 /\ Got(r, f) /\ r.flags[f] # want[p][f]
              \/ how = "not reported" /\ f \in DOMAIN want[p] /\ ~Got(r, f)
<1> DEFINE doubted == Doubted(r, want[p])
<1>1. CASE doubted = {} /\ Return(p, "ok", NoFlag)
  <2>1. \A g \in DOMAIN want[p] : \E i \in DOMAIN Order : Order[i] = g
    BY DEF Flags, Range
  <2>2. \A g \in DOMAIN want[p] : Got(r, g) /\ r.flags[g] = want[p][g]
    BY <1>1, <2>1 DEF Doubted
  <2> QED
    BY <1>1, <2>2 DEF Outcomes
<1>2. CASE \E i \in DOMAIN Order :
             /\ First(i, doubted)
             /\ Return(p, IF Got(r, Order[i]) THEN "ignored" ELSE "not reported", Order[i])
  <2>1. PICK i \in DOMAIN Order :
          /\ First(i, doubted)
          /\ Return(p, IF Got(r, Order[i]) THEN "ignored" ELSE "not reported", Order[i])
    BY <1>2
  <2>2. /\ Order[i] \in DOMAIN want[p] /\ Order[i] \in Flags
        /\ ~Got(r, Order[i]) \/ r.flags[Order[i]] # want[p][Order[i]]
    BY <2>1 DEF First, Doubted, Flags, Range
  <2>3. CASE Got(r, Order[i])
    BY <2>1, <2>2, <2>3 DEF Outcomes
  <2>4. CASE ~Got(r, Order[i])
    BY <2>1, <2>2, <2>4 DEF Outcomes
  <2> QED
    BY <2>3, <2>4
<1> QED
  BY <1>1, <1>2 DEF Judge

(* A call that takes no step is disturbed, at most, by a change of its     *)
(* employee that the history notes.                                        *)
Untouched(w) ==
  /\ pc'[w] = pc[w] /\ want'[w] = want[w] /\ target'[w] = target[w]
  /\ rec'[w] = rec[w] /\ outcome'[w] = outcome[w] /\ field'[w] = field[w]
  /\ applied'[w] = applied[w] /\ answered'[w] = answered[w]

Noted(w) ==
  /\ known' = known
  /\ agreed[w] => agreed'[w]
  /\ disturbed[w] => disturbed'[w]
  /\ applied[w] > 0 /\ target[w] \in DOMAIN store' =>
       \/ /\ target[w] \in DOMAIN store
          /\ store'[target[w]] = store[target[w]]
       \/ /\ disturbed'[w]
          /\ (\A f \in DOMAIN want[w] : store'[target[w]][f] = want[w][f]) => agreed'[w]

(* A step of another call, or of the administrator, that changes nothing   *)
(* of the record of w, or is noted as a disturbance, keeps all that is     *)
(* known of w.                                                             *)
LEMMA Bystander ==
  ASSUME NEW w \in Writers, Good(w), Untouched(w), Noted(w)
  PROVE  Good(w)'
<1> USE DEF Good, Untouched, Noted
<1>1. Stage(w)'
  BY DEF Stage
<1>2. Heard(w)'
  BY DEF Heard, Confirms, Denies
<1>3. Stored(w)'
  BY DEF Stored, Keeps
<1>4. Confirmed(w)' /\ Right(w)' /\ Kept(w)'
  BY DEF Confirmed, Right, Kept
<1> QED
  BY <1>1, <1>2, <1>3, <1>4

(* What the types say of one call.                                         *)
LEMMA CallTypes ==
  ASSUME WTypeOK, NEW p \in Writers
  PROVE  /\ pc[p] \in {"idle", "send", "verify", "read", "over"}
         /\ outcome[p] = "none" <=> pc[p] # "over"
         /\ want[p] \in Subfunctions(Flags, Values) /\ DOMAIN want[p] \subseteq Flags
         /\ target[p] \in Ids \cup {NoId}
         /\ rec[p] \in Records
         /\ pc[p] = "read" => rec[p].id # NoId
<1>1. want[p] \in Subfunctions(Flags, Values)
  BY DEF WTypeOK
<1>2. DOMAIN want[p] \subseteq Flags
  BY <1>1, Subfunction
<1>3. \A w \in Writers : /\ pc[w] = "over" <=> outcome[w] # "none"
                         /\ pc[w] = "read" => rec[w].id # NoId
  BY DEF WTypeOK
<1> QED
  BY <1>1, <1>2, <1>3 DEF WTypeOK

(* Before the first call nothing is written and nothing is in hand.        *)
LEMMA InitWInv == Init => WInv
<1> SUFFICES ASSUME Init PROVE WInv
  OBVIOUS
<1>1. <<>> \in Subfunctions(Flags, Values)
  <2> DEFINE f == [x \in {} |-> "on"]
  <2>1. f \in [{} -> Values] /\ f = <<>>
    BY NoFlagAtAll
  <2> QED
    BY <2>1, Subfunction
<1>2. WTypeOK
  BY <1>1, ZeroRecord, EditsAssumption DEF Init, WTypeOK, Outcomes
<1>3. ASSUME NEW p \in Writers PROVE Good(p)
  BY ZeroRecord, IdsAssumption
     DEF Init, Good, Stage, Heard, Stored, Confirmed, Right, Kept
<1> QED
  BY <1>2, <1>3 DEF WInv

-----------------------------------------------------------------------------
(* Create and Update up to the request.                                    *)
LEMMA StepCreate ==
  ASSUME WInv, NEW p \in Writers, NEW flags \in Wants, Create(p, flags)
  PROVE  WInv'
<1> USE DEF WInv
<1>1. /\ pc[p] = "idle" /\ want' = [want EXCEPT ![p] = flags]
      /\ pc' = [pc EXCEPT ![p] = "send"]
      /\ UNCHANGED <<known, store, edits, resent, target, rec, outcome, field,
                     applied, answered, agreed, disturbed>>
  BY DEF Create, Goto, server, history
<1>2. WTypeOK'
  BY <1>1, WantsAssumption DEF WTypeOK
<1>3. \A w \in Writers \ {p} : Good(w)'
  BY <1>1, Bystander DEF Untouched, Noted, WTypeOK
<1>4. Good(p)'
  <2>1. pc'[p] = "send" /\ outcome'[p] = "none" /\ applied'[p] = 0
    BY <1>1, CallTypes DEF Good, Stage, WTypeOK
  <2>2. Stage(p)'
    BY <1>1, <2>1, ZeroRecord, CallTypes DEF Good, Stage
  <2>3. Heard(p)' /\ Stored(p)' /\ Confirmed(p)' /\ Right(p)' /\ Kept(p)'
    BY <2>1 DEF Heard, Stored, Confirmed, Right, Kept
  <2> QED
    BY <2>2, <2>3 DEF Good
<1> QED
  BY <1>2, <1>3, <1>4

(* A call begins: nothing of it is applied or answered.                    *)
LEMMA StepUpdate ==
  ASSUME WInv, NEW p \in Writers, NEW i \in Ids, NEW flags \in Wants,
         Update(p, i, flags)
  PROVE  WInv'
<1> USE DEF WInv
<1>1. /\ pc[p] = "idle" /\ want' = [want EXCEPT ![p] = flags]
      /\ target' = [target EXCEPT ![p] = i]
      /\ pc' = [pc EXCEPT ![p] = "send"]
      /\ UNCHANGED <<known, store, edits, resent, rec, outcome, field,
                     applied, answered, agreed, disturbed>>
  BY DEF Update, Goto, server, history
<1>2. WTypeOK'
  BY <1>1, WantsAssumption DEF WTypeOK
<1>3. \A w \in Writers \ {p} : Good(w)'
  BY <1>1, Bystander DEF Untouched, Noted, WTypeOK
<1>4. Good(p)'
  <2>1. pc'[p] = "send" /\ outcome'[p] = "none" /\ applied'[p] = 0
    BY <1>1, CallTypes DEF Good, Stage, WTypeOK
  <2>2. Stage(p)'
    BY <1>1, <2>1, ZeroRecord, CallTypes DEF Good, Stage
  <2>3. Heard(p)' /\ Stored(p)' /\ Confirmed(p)' /\ Right(p)' /\ Kept(p)'
    BY <2>1 DEF Heard, Stored, Confirmed, Right, Kept
  <2> QED
    BY <2>2, <2>3 DEF Good
<1> QED
  BY <1>2, <1>3, <1>4

(* A 401 is answered before the write is executed; it is sent again.       *)
LEMMA StepUnauthorized ==
  ASSUME WInv, NEW p \in Writers, Unauthorized(p)
  PROVE  WInv'
<1> USE DEF WInv
<1>1. /\ resent' = [resent EXCEPT ![p] = TRUE]
      /\ UNCHANGED <<known, store, edits, pc, want, target, rec, outcome, field,
                     applied, answered, agreed, disturbed>>
  BY DEF Unauthorized, server, history
<1>2. WTypeOK'
  BY <1>1 DEF WTypeOK
<1>3. \A w \in Writers : Good(w)'
  BY <1>1, Bystander DEF Untouched, Noted
<1> QED
  BY <1>2, <1>3

(* A call that ends without a verdict.                                     *)
LEMMA StepError ==
  ASSUME WInv, NEW p \in Writers, Refused(p) \/ ReadFails(p)
  PROVE  WInv'
<1> USE DEF WInv
<1>1. PICK how \in {"error", "unverified"} :
        /\ how = "error" => pc[p] = "send"
        /\ pc[p] \in {"send", "read"}
        /\ pc' = [pc EXCEPT ![p] = "over"]
        /\ outcome' = [outcome EXCEPT ![p] = how]
        /\ field' = [field EXCEPT ![p] = NoFlag]
        /\ UNCHANGED <<known, store, edits, resent, want, target, rec,
                       applied, answered, agreed, disturbed>>
  BY DEF Refused, ReadFails, Return, server, history
<1>2. WTypeOK'
  BY <1>1 DEF WTypeOK, Outcomes
<1>3. \A w \in Writers \ {p} : Good(w)'
  BY <1>1, Bystander DEF Untouched, Noted, WTypeOK
<1>4. Good(p)'
  <2>1. pc'[p] = "over" /\ outcome'[p] = how /\ outcome[p] = "none"
    BY <1>1, CallTypes DEF WTypeOK
  <2>2. Stage(p)'
    BY <1>1, <2>1 DEF Good, Stage
  <2>3. Heard(p)' /\ Confirmed(p)' /\ Right(p)'
    BY <1>1, <2>1 DEF Heard, Confirmed, Right
  <2>4. Stored(p)'
    BY <1>1 DEF Good, Stored, Keeps
  <2>5. Kept(p)'
    BY <1>1, <2>1 DEF Good, Stage, Kept
  <2> QED
    BY <2>2, <2>3, <2>4, <2>5 DEF Good
<1> QED
  BY <1>2, <1>3, <1>4

-----------------------------------------------------------------------------
(* What the history notes of a change of employee i to r, of those who     *)
(* have written i before and of the writer itself.                         *)
LEMMA NoteTypes ==
  ASSUME WTypeOK, NEW i, NEW r, NEW p, Note(i, r, p)
  PROVE  /\ agreed' \in [Writers -> BOOLEAN] /\ disturbed' \in [Writers -> BOOLEAN]
         /\ \A w \in Writers : /\ agreed[w] => agreed'[w]
                               /\ disturbed[w] => disturbed'[w]
         /\ \A w \in Writers :
              w # p /\ applied[w] > 0 /\ target[w] = i =>
                /\ disturbed'[w]
                /\ Keeps(r, w) => agreed'[w]
         /\ p \in Writers /\ Keeps(r, p) => agreed'[p]
BY DEF Note, WTypeOK

(* The server has made employee i into new and answers how, with a record  *)
(* that reports it if with any.                                            *)
LEMMA WriteIsNoted ==
  ASSUME WInv, NEW p \in Writers, NEW i \in Ids,
         target[p] = i \/ \A w \in Writers : target[w] # i,
         NEW new \in [Flags -> Values], NEW answer, Reports(answer, i, new),
         NEW how,
         \A f \in known \cap DOMAIN want[p] : new[f] = want[p][f],
         pc[p] = "send",
         store' = [j \in DOMAIN store \cup {i} |-> IF j = i THEN new ELSE store[j]],
         target' = [target EXCEPT ![p] = i],
         applied' = [applied EXCEPT ![p] = applied[p] + 1],
         answered' \in [Writers -> BOOLEAN],
         \A w \in Writers \ {p} : answered'[w] = answered[w],
         how # "record" => ~answered'[p],
         Note(i, new, p),
         how # "record" => rec' = rec,
         how = "record" => rec' = [rec EXCEPT ![p] = answer],
         Answered(p, how),
         UNCHANGED <<known, edits, resent, want>>
  PROVE  WInv'
<1> USE DEF WInv
<1>1. applied[p] = 0 /\ rec[p] = Zero /\ outcome[p] = "none"
  BY CallTypes DEF Good, Stage
<1>2. applied' = [applied EXCEPT ![p] = 1]
  BY <1>1
<1>3. /\ DOMAIN store' = DOMAIN store \cup {i} /\ store'[i] = new
      /\ \A j \in DOMAIN store \ {i} : store'[j] = store[j]
  OBVIOUS
<1>4. /\ agreed' \in [Writers -> BOOLEAN] /\ disturbed' \in [Writers -> BOOLEAN]
      /\ \A w \in Writers : /\ agreed[w] => agreed'[w]
                            /\ disturbed[w] => disturbed'[w]
      /\ \A w \in Writers :
           w # p /\ applied[w] > 0 /\ target[w] = i =>
             /\ disturbed'[w]
             /\ Keeps(new, w) => agreed'[w]
      /\ Keeps(new, p) => agreed'[p]
  BY NoteTypes
<1>5. PICK at \in {"verify", "over"}, why \in {"none", "unconfirmed", "error"} :
        /\ pc' = [pc EXCEPT ![p] = at]
        /\ outcome' = [outcome EXCEPT ![p] = why]
        /\ field' \in [Writers -> Flags \cup {NoFlag}]
        /\ \A w \in Writers \ {p} : field'[w] = field[w]
        /\ at = "over" <=> why # "none"
        /\ at = "over" => how \in {"no record", "lost"}
  <2>1. CASE how \in {"record", "blank"} /\ Goto(p, "verify")
    <3>1. outcome' = [outcome EXCEPT ![p] = "none"]
      BY <1>1, <2>1 DEF Goto, WTypeOK
    <3> QED
      BY <2>1, <3>1 DEF Goto, WTypeOK
  <2>2. CASE how = "no record" /\ Return(p, "unconfirmed", NoFlag)
    BY <2>2 DEF Return, WTypeOK
  <2>3. CASE how = "lost" /\ Return(p, "error", NoFlag)
    BY <2>3 DEF Return, WTypeOK
  <2> QED
    BY <2>1, <2>2, <2>3 DEF Answered
<1>6. WTypeOK'
  <2>1. store' \in Subfunctions(Ids, [Flags -> Values])
    <3>1. DOMAIN store \subseteq Ids /\ store \in [DOMAIN store -> [Flags -> Values]]
      BY Subfunction DEF WTypeOK
    <3>2. store' \in [DOMAIN store' -> [Flags -> Values]]
      BY <3>1
    <3> QED
      BY <1>3, <3>1, <3>2, Subfunction
  <2>2. pc' \in [Writers -> {"idle", "send", "verify", "read", "over"}]
        /\ outcome' \in [Writers -> Outcomes]
    BY <1>5 DEF WTypeOK, Outcomes
  <2>3. rec' \in [Writers -> Records]
    BY DEF Reports, WTypeOK
  <2>4. target' \in [Writers -> Ids \cup {NoId}]
    BY DEF WTypeOK
  <2>5. applied' \in [Writers -> Nat]
    BY <1>2 DEF WTypeOK
  <2>6. answered' \in [Writers -> BOOLEAN]
    BY DEF WTypeOK
  <2>7. \A w \in Writers : /\ pc'[w] = "over" <=> outcome'[w] # "none"
                           /\ pc'[w] = "read" => rec'[w].id # NoId
    BY <1>1, <1>5, CallTypes DEF WTypeOK
  <2> QED
    BY <1>4, <1>5, <2>1, <2>2, <2>3, <2>4, <2>5, <2>6, <2>7 DEF WTypeOK
<1>7. ASSUME NEW w \in Writers \ {p} PROVE Good(w)'
  <2>1. Untouched(w)
    BY <1>2, <1>5 DEF Untouched, WTypeOK
  <2>2. Noted(w)
    BY <1>3, <1>4 DEF Noted, Keeps
  <2> QED
    BY <2>1, <2>2, Bystander
<1>8. Good(p)'
  <2>1. /\ pc'[p] \in {"verify", "over"} /\ target'[p] = i /\ applied'[p] = 1
        /\ outcome'[p] \in {"none", "unconfirmed", "error"}
    BY <1>1, <1>2, <1>5 DEF WTypeOK
  <2>2. outcome'[p] # "none" => how \in {"no record", "lost"}
    BY <1>1, <1>5 DEF WTypeOK
  <2>3. how # "record" => ~answered'[p]
    BY DEF WTypeOK
  <2>4. \/ how = "record" /\ rec'[p] = answer
        \/ how # "record" /\ rec'[p] = Zero
    BY <1>1 DEF WTypeOK
  <2>5. Stage(p)'
    <3>1. pc'[p] \notin {"idle", "send", "read"} /\ applied'[p] <= 1
      BY <2>1
    <3>2. CASE how = "record"
      <4>1. rec'[p].id = i /\ \A f \in rec'[p].guessed :
                               f \in DOMAIN rec'[p].flags /\ rec'[p].flags[f] = "off"
        BY <2>4, <3>2 DEF Reports
      <4> QED
        BY <2>1, <3>1, <4>1 DEF Stage
    <3>3. CASE how # "record"
      <4>1. rec'[p].id = NoId /\ rec'[p].guessed = {} /\ ~answered'[p]
        BY <2>3, <2>4, <3>3, ZeroRecord
      <4> QED
        BY <2>1, <3>1, <4>1 DEF Stage
    <3> QED
      BY <3>2, <3>3
  <2>6. Heard(p)'
    <3>1. CASE how = "record"
      BY <1>4, <2>4, <3>1 DEF Reports, Heard, Confirms, Denies, Keeps
    <3>2. CASE how # "record"
      BY <1>4, <2>4, <3>2, ZeroRecord DEF Heard, Confirms, Denies, Keeps
    <3> QED
      BY <3>1, <3>2
  <2>7. Stored(p)'
    BY <1>3, <1>4, <2>1 DEF Stored, Keeps
  <2>8. Confirmed(p)' /\ Right(p)' /\ Kept(p)'
    <3>1. ~(answered'[p] /\ outcome'[p] # "none")
      BY <2>2, <2>3
    <3> QED
      BY <2>1, <3>1 DEF Confirmed, Right, Kept
  <2> QED
    BY <2>5, <2>6, <2>7, <2>8 DEF Good
<1> QED
  BY <1>6, <1>7, <1>8

(* The server executes a write, once, and answers with what it stored.     *)
LEMMA StepWritten ==
  ASSUME WInv, NEW p \in Writers, NEW shown \in SUBSET Flags, NEW nested \in BOOLEAN,
         NEW how \in {"record", "blank", "no record", "lost"},
         Written(p, shown, nested, how)
  PROVE  WInv'
<1>1. PICK i \in Ids, old \in [Flags -> Values] :
        /\ Execute(p, i, old, shown, nested, how)
        /\ target[p] = i \/ \A w \in Writers : target[w] # i
  <2>1. CASE target[p] \in DOMAIN store
                /\ Execute(p, target[p], store[target[p]], shown, nested, how)
    <3>1. DOMAIN store \subseteq Ids /\ store \in [DOMAIN store -> [Flags -> Values]]
      BY Subfunction DEF WInv, WTypeOK
    <3> QED
      BY <2>1, <3>1
  <2>2. CASE \E i \in Ids \ DOMAIN store :
               /\ target[p] = NoId
               /\ \A w \in Writers : target[w] # i
               /\ Execute(p, i, [f \in Flags |-> "off"], shown, nested, how)
    <3>1. [f \in Flags |-> "off"] \in [Flags -> Values]
      BY DEF Values
    <3> QED
      BY <2>2, <3>1
  <2> QED
    BY <2>1, <2>2 DEF Written
<1> DEFINE new == [f \in Flags |-> IF f \in known \cap DOMAIN want[p] THEN want[p][f]
                                   ELSE old[f]]
           answer == Report(i, new, shown, nested)
<1>2. /\ store' = [j \in DOMAIN store \cup {i} |-> IF j = i THEN new ELSE store[j]]
      /\ target' = [target EXCEPT ![p] = i]
      /\ applied' = [applied EXCEPT ![p] = applied[p] + 1]
      /\ Note(i, new, p)
      /\ how # "record" => rec' = rec
      /\ how = "record" => rec' = [rec EXCEPT ![p] = answer]
      /\ Answered(p, how)
      /\ UNCHANGED <<known, edits, resent, want>>
  BY <1>1 DEF Execute
<1>3. answered' = [answered EXCEPT ![p] = (how = "record")]
  BY <1>1 DEF Execute
<1>4. /\ answered' \in [Writers -> BOOLEAN]
      /\ \A w \in Writers \ {p} : answered'[w] = answered[w]
      /\ how # "record" => ~answered'[p]
  BY <1>3 DEF WInv, WTypeOK
<1>5. want[p] \in [DOMAIN want[p] -> Values] /\ DOMAIN want[p] \subseteq Flags
  BY CallTypes, Subfunction DEF WInv
<1>6. new \in [Flags -> Values] /\ \A f \in known \cap DOMAIN want[p] : new[f] = want[p][f]
  BY <1>5
<1>7. pc[p] = "send" /\ i \in Ids \cup {NoId}
  BY DEF Written
<1> HIDE DEF new
<1>8. Reports(answer, i, new)
  BY <1>6, <1>7, ReportIsTrue
<1> HIDE DEF answer
<1> QED
  BY <1>1, <1>2, <1>4, <1>6, <1>7, <1>8, WriteIsNoted

-----------------------------------------------------------------------------
(* verifyFlags: a verdict on a record that is in hand, or was read back.   *)
LEMMA JudgeIsRight ==
  ASSUME WInv, NEW p \in Writers, pc[p] \in {"verify", "read"}, NEW r \in Records,
         \A f \in r.guessed : f \in DOMAIN r.flags /\ r.flags[f] = "off",
         Confirms(r, p) => agreed[p],
         ~disturbed[p] => ~Denies(r, p),
         answered[p] => r.id = target[p] \/ (r = Zero /\ DOMAIN want[p] # {}),
         r.id \in {NoId, target[p]},
         Judge(p, r),
         rec' = [rec EXCEPT ![p] = r],
         UNCHANGED <<known, store, edits, resent, want, target,
                     applied, answered, agreed, disturbed>>
  PROVE  WInv'
<1> USE DEF WInv
<1>1. PICK how \in Outcomes, f \in Flags \cup {NoFlag} :
        /\ Return(p, how, f)
        /\ \/ /\ how = "ok"
              /\ \A g \in DOMAIN want[p] : Got(r, g) /\ r.flags[g] = want[p][g]
           \/ how = "ignored" /\ f \in DOMAIN want[p]
                              /\ Got(r, f) /\ r.flags[f] # want[p][f]
           \/ how = "not reported" /\ f \in DOMAIN want[p] /\ ~Got(r, f)
  BY CallTypes, Verdict
<1>2. /\ pc' = [pc EXCEPT ![p] = "over"] /\ outcome' = [outcome EXCEPT ![p] = how]
      /\ field' = [field EXCEPT ![p] = f]
  BY <1>1 DEF Return
<1>3. how \in {"ok", "ignored", "not reported"}
  BY <1>1
<1>4. WTypeOK'
  <2>1. /\ pc' \in [Writers -> {"idle", "send", "verify", "read", "over"}]
        /\ outcome' \in [Writers -> Outcomes] /\ field' \in [Writers -> Flags \cup {NoFlag}]
        /\ rec' \in [Writers -> Records]
    BY <1>2 DEF WTypeOK
  <2>2. \A w \in Writers : /\ pc'[w] = "over" <=> outcome'[w] # "none"
                           /\ pc'[w] = "read" => rec'[w].id # NoId
    BY <1>2, <1>3, CallTypes DEF WTypeOK
  <2> QED
    BY <2>1, <2>2 DEF WTypeOK
<1>5. ASSUME NEW w \in Writers \ {p} PROVE Good(w)'
  BY <1>2, Bystander DEF Untouched, Noted, WTypeOK
<1>6. Good(p)'
  <2>1. pc'[p] = "over" /\ outcome'[p] = how /\ field'[p] = f /\ rec'[p] = r
    BY <1>2 DEF WTypeOK
  <2>2. outcome[p] = "none"
    BY CallTypes
  <2>3. Stage(p)'
    BY <2>1, <1>3 DEF Good, Stage
  <2>4. Heard(p)' /\ Stored(p)'
    BY <2>1 DEF Good, Heard, Stored, Keeps
  <2>5. Confirmed(p)'
    <3> SUFFICES ASSUME how = "ok", ~agreed[p]
                 PROVE  \E g \in DOMAIN want[p] \cap r.guessed : want[p][g] = "off"
      BY <2>1 DEF Confirmed
    <3>1. \A g \in DOMAIN want[p] : Got(r, g) /\ r.flags[g] = want[p][g]
      BY <1>1
    <3>2. PICK g \in DOMAIN want[p] : g \in r.guessed
      BY <3>1 DEF Confirms, Got
    <3> QED
      BY <3>1, <3>2
  <2>6. Right(p)'
    <3>1. how \in {"ignored", "not reported"} => f \in DOMAIN want[p]
      BY <1>1
    <3>2. how = "ignored" /\ ~disturbed[p] => f \notin known \/ f \in r.guessed
      BY <1>1 DEF Denies, Got
    <3> QED
      BY <2>1, <3>1, <3>2 DEF Right
  <2>7. Kept(p)'
    <3>1. r = Zero /\ DOMAIN want[p] # {} => how = "not reported"
      BY <1>1, ZeroRecord DEF Got
    <3> QED
      BY <2>1, <1>3, <3>1 DEF Kept
  <2> QED
    BY <2>3, <2>4, <2>5, <2>6, <2>7 DEF Good
<1> QED
  BY <1>4, <1>5, <1>6

(* The answer of the write is judged, or the record is fetched for it.     *)
LEMMA StepVerify ==
  ASSUME WInv, NEW p \in Writers, Verify(p)
  PROVE  WInv'
<1> USE DEF WInv
<1>1. /\ pc[p] = "verify" /\ outcome[p] = "none"
      /\ UNCHANGED <<known, store, edits, resent, want, target, rec,
                     applied, answered, agreed, disturbed>>
  BY CallTypes DEF Verify, server, history
<1>2. CASE ~NeedsFetch(p) /\ Judge(p, rec[p])
  <2>1. rec' = [rec EXCEPT ![p] = rec[p]]
    BY <1>1 DEF WTypeOK
  <2> QED
    BY <1>1, <1>2, <2>1, CallTypes, JudgeIsRight DEF Good, Stage, Heard
<1>3. CASE rec[p].id = NoId /\ Return(p, "unverified", NoFlag)
  <2>1. /\ pc' = [pc EXCEPT ![p] = "over"] /\ outcome' = [outcome EXCEPT ![p] = "unverified"]
        /\ field' = [field EXCEPT ![p] = NoFlag]
    BY <1>3 DEF Return
  <2>2. WTypeOK'
    BY <1>1, <2>1 DEF WTypeOK, Outcomes
  <2>3. \A w \in Writers \ {p} : Good(w)'
    BY <1>1, <2>1, Bystander DEF Untouched, Noted, WTypeOK
  <2>4. Good(p)'
    <3>1. pc'[p] = "over" /\ outcome'[p] = "unverified"
      BY <2>1 DEF WTypeOK
    <3>2. Stage(p)' /\ Heard(p)' /\ Stored(p)'
      BY <1>1, <3>1 DEF Good, Stage, Heard, Stored, Keeps
    <3>3. Confirmed(p)' /\ Right(p)' /\ Kept(p)'
      BY <1>1, <3>1 DEF Good, Stage, Confirmed, Right, Kept
    <3> QED
      BY <3>2, <3>3 DEF Good
  <2> QED
    BY <2>2, <2>3, <2>4
<1>4. CASE NeedsFetch(p) /\ rec[p].id # NoId /\ Goto(p, "read")
  <2>1. pc' = [pc EXCEPT ![p] = "read"] /\ UNCHANGED <<outcome, field>>
    BY <1>4 DEF Goto
  <2>2. WTypeOK'
    BY <1>1, <1>4, <2>1 DEF WTypeOK
  <2>3. \A w \in Writers \ {p} : Good(w)'
    BY <1>1, <2>1, Bystander DEF Untouched, Noted, WTypeOK
  <2>4. Good(p)'
    <3>1. pc'[p] = "read" /\ outcome'[p] = "none" /\ DOMAIN want[p] # {}
      BY <1>1, <1>4, <2>1 DEF WTypeOK, NeedsFetch
    <3>2. Stage(p)' /\ Heard(p)' /\ Stored(p)'
      BY <1>1, <2>1, <3>1 DEF Good, Stage, Heard, Stored, Keeps
    <3>3. Confirmed(p)' /\ Right(p)' /\ Kept(p)'
      BY <3>1 DEF Confirmed, Right, Kept
    <3> QED
      BY <3>2, <3>3 DEF Good
  <2> QED
    BY <2>2, <2>3, <2>4
<1> QED
  BY <1>2, <1>3, <1>4 DEF Verify

(* The fetched record is judged: it is as it was when it was fetched.      *)
LEMMA StepReadBack ==
  ASSUME WInv, NEW p \in Writers, NEW shown \in SUBSET Flags, NEW nested \in BOOLEAN,
         ReadBack(p, shown, nested)
  PROVE  WInv'
<1> DEFINE i == rec[p].id
           r == Report(i, store[i], shown, nested)
<1>1. /\ pc[p] = "read" /\ i \in DOMAIN store /\ Judge(p, r)
      /\ rec' = [rec EXCEPT ![p] = r]
      /\ UNCHANGED <<known, store, edits, resent, want, target,
                     applied, answered, agreed, disturbed>>
  BY DEF ReadBack, server, history
<1>2. i = target[p] /\ i \in Ids /\ applied[p] = 1
  BY <1>1, CallTypes DEF WInv, Good, Stage
<1>3. store[i] \in [Flags -> Values]
  <2>1. store \in [DOMAIN store -> [Flags -> Values]]
    BY Subfunction DEF WInv, WTypeOK
  <2> QED
    BY <1>1, <2>1
<1>4. Reports(r, i, store[i])
  <2>1. i \in Ids \cup {NoId}
    BY <1>2
  <2> HIDE DEF i
  <2> QED
    BY <1>3, <2>1, ReportIsTrue
<1> HIDE DEF i, r
<1>5. r \in Records /\ r.id = target[p]
  BY <1>2, <1>4 DEF Reports
<1>6. \A f \in r.guessed : f \in DOMAIN r.flags /\ r.flags[f] = "off"
  BY <1>4 DEF Reports
<1>7. /\ Keeps(store[i], p) => agreed[p]
      /\ ~disturbed[p] => \A f \in known \cap DOMAIN want[p] : store[i][f] = want[p][f]
  BY <1>1, <1>2 DEF WInv, Good, Stored
<1>8. (Confirms(r, p) => agreed[p]) /\ (~disturbed[p] => ~Denies(r, p))
  BY <1>4, <1>7 DEF Reports, Confirms, Denies, Keeps
<1> QED
  BY <1>1, <1>5, <1>6, <1>8, JudgeIsRight

(* A blank read-back leaves a zero record, and no flag in it to confirm.   *)
LEMMA StepReadBlank ==
  ASSUME WInv, NEW p \in Writers, ReadBlank(p)
  PROVE  WInv'
<1>1. /\ pc[p] = "read" /\ Judge(p, Zero) /\ rec' = [rec EXCEPT ![p] = Zero]
      /\ UNCHANGED <<known, store, edits, resent, want, target,
                     applied, answered, agreed, disturbed>>
  BY DEF ReadBlank, server, history
<1>2. DOMAIN want[p] # {}
  BY <1>1 DEF WInv, Good, Stage
<1>3. ~Confirms(Zero, p) /\ ~Denies(Zero, p)
  BY <1>2, ZeroRecord DEF Confirms, Denies
<1> QED
  BY <1>1, <1>2, <1>3, ZeroRecord, JudgeIsRight

-----------------------------------------------------------------------------
(* The administrator.                                                      *)
LEMMA StepEdit ==
  ASSUME WInv, NEW i \in Ids, NEW r \in [Flags -> Values], Edit(i, r)
  PROVE  WInv'
<1> USE DEF WInv
<1>1. /\ edits < MaxEdits /\ i \in DOMAIN store
      /\ store' = [store EXCEPT ![i] = r] /\ edits' = edits + 1
      /\ Note(i, r, NoId)
      /\ UNCHANGED <<known, pc, resent, want, target, rec, outcome, field,
                     applied, answered>>
  BY DEF Edit, call
<1>2. store \in [DOMAIN store -> [Flags -> Values]] /\ DOMAIN store \subseteq Ids
  BY Subfunction DEF WTypeOK
<1>3. /\ agreed' \in [Writers -> BOOLEAN] /\ disturbed' \in [Writers -> BOOLEAN]
      /\ \A w \in Writers : /\ agreed[w] => agreed'[w]
                            /\ disturbed[w] => disturbed'[w]
      /\ \A w \in Writers :
           applied[w] > 0 /\ target[w] = i =>
             /\ disturbed'[w]
             /\ Keeps(r, w) => agreed'[w]
  BY <1>1, NoteTypes, IdsAssumption
<1>4. WTypeOK'
  <2>1. store' \in Subfunctions(Ids, [Flags -> Values])
    BY <1>1, <1>2, Subfunction
  <2>2. edits' \in 0..MaxEdits
    BY <1>1, EditsAssumption DEF WTypeOK
  <2>3. \A w \in Writers : /\ pc'[w] = "over" <=> outcome'[w] # "none"
                           /\ pc'[w] = "read" => rec'[w].id # NoId
    BY <1>1 DEF WTypeOK
  <2> QED
    BY <1>1, <1>3, <2>1, <2>2, <2>3 DEF WTypeOK
<1>5. ASSUME NEW w \in Writers PROVE Good(w)'
  <2>1. Noted(w)
    BY <1>1, <1>2, <1>3 DEF Noted, Keeps
  <2> QED
    BY <1>1, <2>1, Bystander DEF Untouched
<1> QED
  BY <1>4, <1>5

(* The administrator removes an employee and so disturbs its writers.      *)
LEMMA StepDelete ==
  ASSUME WInv, NEW i \in Ids, Delete(i)
  PROVE  WInv'
<1> USE DEF WInv
<1>1. /\ edits < MaxEdits /\ edits' = edits + 1
      /\ store' = Restrict(store, DOMAIN store \ {i})
      /\ disturbed' = [w \in Writers |-> disturbed[w] \/ (applied[w] > 0 /\ target[w] = i)]
      /\ UNCHANGED <<known, pc, resent, want, target, rec, outcome, field,
                     applied, answered, agreed>>
  BY DEF Delete, call
<1>2. store \in [DOMAIN store -> [Flags -> Values]] /\ DOMAIN store \subseteq Ids
  BY Subfunction DEF WTypeOK
<1>3. /\ DOMAIN store' = DOMAIN store \ {i}
      /\ \A j \in DOMAIN store' : store'[j] = store[j]
      /\ store' \in [DOMAIN store' -> [Flags -> Values]]
  BY <1>1, <1>2 DEF Restrict
<1>4. WTypeOK'
  <2>1. store' \in Subfunctions(Ids, [Flags -> Values])
    BY <1>2, <1>3, Subfunction
  <2>2. edits' \in 0..MaxEdits
    BY <1>1, EditsAssumption DEF WTypeOK
  <2>3. disturbed' \in [Writers -> BOOLEAN]
    BY <1>1 DEF WTypeOK
  <2>4. \A w \in Writers : /\ pc'[w] = "over" <=> outcome'[w] # "none"
                           /\ pc'[w] = "read" => rec'[w].id # NoId
    BY <1>1 DEF WTypeOK
  <2> QED
    BY <1>1, <2>1, <2>2, <2>3, <2>4 DEF WTypeOK
<1>5. ASSUME NEW w \in Writers PROVE Good(w)'
  BY <1>1, <1>3, Bystander DEF Untouched, Noted
<1> QED
  BY <1>4, <1>5

-----------------------------------------------------------------------------
(* The stages of the calls, the answers they heard and what the server     *)
(* stores account for whatever Create and Update return.                   *)
THEOREM WritesInductive == Spec => []WInv
<1>1. WInv /\ [Next]_wvars => WInv'
  <2> SUFFICES ASSUME WInv, [Next]_wvars PROVE WInv'
    OBVIOUS
  <2>1. CASE UNCHANGED wvars
    <3>1. /\ UNCHANGED <<known, store, edits, pc, resent, want, target, rec, outcome,
                         field, applied, answered, agreed, disturbed>>
      BY <2>1 DEF wvars, server, call, history
    <3>2. WTypeOK'
      BY <3>1 DEF WInv, WTypeOK
    <3>3. \A w \in Writers : Good(w)'
      BY <3>1, Bystander DEF WInv, Untouched, Noted
    <3> QED
      BY <3>2, <3>3 DEF WInv
  <2>2. CASE Next
    <3>1. ASSUME NEW p \in Writers, NEW flags \in Wants,
                 Create(p, flags) \/ \E i \in Ids : Update(p, i, flags)
          PROVE  WInv'
      BY <3>1, StepCreate, StepUpdate
    <3>2. ASSUME NEW p \in Writers, NEW shown \in SUBSET Flags, NEW nested \in BOOLEAN,
                 Written(p, shown, nested, "record") \/ ReadBack(p, shown, nested)
          PROVE  WInv'
      BY <3>2, StepWritten, StepReadBack
    <3>3. ASSUME NEW p \in Writers, NEW how \in {"blank", "no record", "lost"},
                 Written(p, {}, FALSE, how)
          PROVE  WInv'
      BY <3>3, StepWritten
    <3>4. ASSUME NEW p \in Writers,
                 \/ Unauthorized(p) \/ Refused(p) \/ Verify(p)
                 \/ ReadBlank(p) \/ ReadFails(p)
          PROVE  WInv'
      BY <3>4, StepUnauthorized, StepError, StepVerify, StepReadBlank
    <3>5. ASSUME NEW i \in Ids, Delete(i) \/ \E r \in [Flags -> Values] : Edit(i, r)
          PROVE  WInv'
      BY <3>5, StepDelete, StepEdit
    <3> QED
      BY <2>2, <3>1, <3>2, <3>3, <3>4, <3>5 DEF Next
  <2> QED
    BY <2>1, <2>2
<1> QED
  BY InitWInv, <1>1, PTL DEF Spec

(* Every variable of the calls keeps its type, and nothing is read back    *)
(* without an identifier.                                                  *)
THEOREM WriteTypes == Spec => []WTypeOK
<1>1. WInv => WTypeOK
  BY DEF WInv
<1> QED
  BY <1>1, WritesInductive, PTL

(* A call writes at most once, for any number of others (exchange sends a  *)
(* request again only after a 401).                                        *)
THEOREM WritesOnce == Spec => []WrittenOnce
<1>1. WInv => WrittenOnce
  BY DEF WInv, Good, Stage, WrittenOnce
<1> QED
  BY <1>1, WritesInductive, PTL

(* No error means that the employee once had all that was requested, but   *)
(* for what a nested object left out (verifyFlags).                        *)
THEOREM OkMeansWritten == Spec => []OkIsConfirmed
<1>1. WInv => OkIsConfirmed
  BY DEF WInv, Good, Confirmed, OkIsConfirmed
<1> QED
  BY <1>1, WritesInductive, PTL

(* A definitive verdict names a flag of the request that the server really *)
(* does not apply (ErrUnsupportedField).                                   *)
THEOREM VerdictsAreRight == Spec => []VerdictIsRight
<1>1. WInv => VerdictIsRight
  BY DEF WInv, Good, Right, VerdictIsRight
<1> QED
  BY <1>1, WritesInductive, PTL

(* The record of an accepted write reaches its caller whatever the verdict *)
(* (verified), but for a blank read-back.                                  *)
THEOREM AcceptedIsKept == Spec => []RecordIsKept
<1>1. WInv => RecordIsKept
  BY DEF WInv, Good, Kept, RecordIsKept
<1> QED
  BY <1>1, WritesInductive, PTL
=============================================================================
