---------------------------- MODULE CodecsProofs ----------------------------
(***************************************************************************)
(* The parts of the client that keep no state between calls, for any       *)
(* widths of the integers, any lengths of bodies, any limit on them, and   *)
(* any number of members of a record.                                      *)
(***************************************************************************)
EXTENDS Codecs, WellFoundedInduction, TLAPS

(* A step of the client is a step of one part, or of none.                 *)
LEMMA PartStep ==
  ASSUME [CNext]_cvars
  PROVE  /\ [Receive]_rvars /\ [NRead]_nvars /\ [ANext]_avars /\ [ENext]_evars
         /\ [Next]_clock
BY DEF CNext, cvars

(* Every part starts where its own initial predicate says.                 *)
LEMMA PartInit ==
  ASSUME CInit
  PROVE  RInit /\ NInit /\ AInit /\ EInit /\ Init
BY DEF CInit

(* The part that is at times behaves as module Clock says, so that what    *)
(* ClockProofs proves of a member holds beside the other parts as well.    *)
THEOREM ClockIsAPart == CSpec => Spec
<1>1. CInit => Init
  BY PartInit
<1>2. [CNext]_cvars => [Next]_clock
  BY PartStep
<1> QED
  BY <1>1, <1>2, PTL DEF CSpec, Spec

-----------------------------------------------------------------------------
(* Responses.                                                              *)

(* What an answer was, and what was made of it.                            *)
Concluded ==
  /\ outcome = Outcome(kind, keeps, status, body)
  /\ matches = Sentinels(status, kind = "login" /\ IsLoginRejection(status, body))
  /\ suspended = (kind = "login" /\ Suspends(status, body))

RInv ==
  /\ kind \in Requests /\ keeps \in BOOLEAN /\ status \in Statuses
  /\ kind = "login" => status # "2xx"
  /\ body \in Formless \cup (IF status = "2xx" THEN Answers ELSE Refusals)
  /\ (outcome = "pending" /\ suspended = FALSE) \/ Concluded

(* A response is concluded in one step, and stays as it was concluded.     *)
LEMMA RInvStep ==
  ASSUME RInv, [Receive]_rvars
  PROVE  RInv'
BY DEF RInv, Concluded, Receive, rvars

(* A body that is no object has no members.                                *)
LEMMA NoMembers ==
  ASSUME NEW b \in Formless
  PROVE  /\ b.form \in {"blank", "null", "html", "text"}
         /\ b.id = "absent" /\ b.results = "absent" /\ b.data = "absent"
         /\ b.count = "absent" /\ b.next = "absent" /\ b.code = "absent"
         /\ b.msg = "absent" /\ b.detail = "absent" /\ b.field = "absent"
<1> DEFINE x == [form |-> "object", id |-> "absent", results |-> "absent",
                 data |-> "absent", count |-> "absent", next |-> "absent",
                 code |-> "absent", msg |-> "absent", detail |-> "absent",
                 field |-> "absent"]
<1>1. x \in Answers /\ \A m \in DOMAIN x \ {"form"} : x[m] = "absent"
  BY DEF Answers
<1>2. Bare \in Answers /\ \A m \in DOMAIN Bare \ {"form"} : Bare[m] = "absent"
  BY <1>1 DEF Bare
<1>3. DOMAIN Bare = {"form", "id", "results", "data", "count", "next", "code", "msg",
                     "detail", "field"}
  BY <1>2 DEF Answers
<1> QED
  BY <1>2, <1>3 DEF Formless

(* Only what has members, or is no object, is a body.                      *)
LEMMA BodyShape ==
  ASSUME RInv
  PROVE  \/ body \in Formless
         \/ status = "2xx" /\ body \in Answers /\ body.form = "object"
         \/ status # "2xx" /\ body \in Refusals /\ body.form = "object"
BY DEF RInv, Answers, Refusals

(* A body is of one of the five forms, with members or without.            *)
LEMMA Forms ==
  ASSUME RInv
  PROVE  body.form \in {"blank", "null", "html", "text", "object"}
BY BodyShape, NoMembers

(* An envelope that reports a failure with status 200 is never data.       *)
LEMMA RInvFailure == RInv => FailureIsNeverData
<1> SUFFICES ASSUME RInv, body.code = "nonzero", body.msg = "text", body.id = "absent"
             PROVE  outcome \notin Delivered
  BY DEF FailureIsNeverData
<1>1. body \notin Formless
  BY NoMembers
<1>2. CASE Concluded
  <2>1. CASE status = "2xx"
    <3>1. body.form = "object" /\ EnvelopeCode(kind, body)
      BY <1>1, <2>1, BodyShape DEF EnvelopeCode, IsEnvelope
    <3>2. Decode(kind, keeps, body) \in {"api error", "decode error", "not a record"}
      BY <3>1 DEF Decode
    <3> QED
      BY <1>2, <2>1, <3>2 DEF Concluded, Outcome, Delivered
  <2>2. CASE status # "2xx"
    BY <1>2, <2>2 DEF Concluded, Outcome, Delivered
  <2> QED
    BY <2>1, <2>2
<1> QED
  BY <1>2 DEF RInv, Delivered

(* What a decoder delivers is what the body holds.                         *)
LEMMA PageIsRead ==
  ASSUME NEW b, DecodePage(b) = "rows"
  PROVE  "rows" \in {b.results, b.data}
BY DEF DecodePage

(* A record is decoded from an answer that carries one, itself or as data. *)
LEMMA RecordIsRead ==
  ASSUME NEW b, DecodeRecord(b, keeps) = "record"
  PROVE  b.id = "positive" \/ b.data = "record"
BY DEF DecodeRecord, Itself, Unwrapped

(* No decoder names a write, and none of a list looks for a record.        *)
LEMMA DecodeIsNot ==
  ASSUME RInv
  PROVE  /\ Decode(kind, keeps, body) # "unconfirmed"
         /\ Decode(kind, keeps, body) = "not a record" => kind # "list"
<1>1. body.results \notin {"unconfirmed", "not a record"}
  BY BodyShape, NoMembers DEF Answers, Refusals, Lists
<1>2. /\ DecodePage(body) \notin {"unconfirmed", "not a record"}
      /\ DecodeRecord(body, keeps) # "unconfirmed"
  BY <1>1 DEF DecodePage, DecodeRecord, Itself, Unwrapped
<1> QED
  BY <1>2, Forms DEF Decode

(* What is delivered was in the answer, and a good answer is delivered.    *)
LEMMA RInvRead == RInv => AnswerIsRead
<1> SUFFICES ASSUME RInv, Concluded, status = "2xx"
             PROVE  AnswerIsRead
  BY DEF RInv, AnswerIsRead
<1>1. /\ kind \in {"list", "get", "write"}
      /\ outcome \in {Decode(kind, keeps, body), "unconfirmed"}
      /\ outcome = "unconfirmed" => Decode(kind, keeps, body) = "not a record"
  <2>1. outcome = Outcome(kind, keeps, status, body)
    BY DEF Concluded
  <2>2. kind \in {"list", "get", "write"}
    BY DEF RInv, Requests
  <2> DEFINE d == Decode(kind, keeps, body)
  <2>3. \/ outcome = d
        \/ outcome = "unconfirmed" /\ d = "not a record"
    BY <2>1, Zenon DEF Outcome
  <2>4. outcome = "unconfirmed" => d = "not a record"
    <3>1. d # "unconfirmed"
      BY DecodeIsNot
    <3> QED
      BY <2>3, <3>1
  <2> HIDE DEF d
  <2>5. outcome \in {d, "unconfirmed"} /\ (outcome = "unconfirmed" => d = "not a record")
    BY <2>3, <2>4
  <2> QED
    BY <2>2, <2>5 DEF d
<1>2. outcome = "rows" => "rows" \in {body.results, body.data}
  <2>1. DecodeRecord(body, keeps) # "rows"
    BY DEF DecodeRecord, Itself, Unwrapped
  <2>2. Decode(kind, keeps, body) = "rows" => DecodePage(body) = "rows"
    BY <1>1, <2>1, Forms DEF Decode
  <2> QED
    BY <1>1, <2>2, PageIsRead
<1>3. outcome = "record" => body.id = "positive" \/ body.data = "record"
  <2>1. body \in Answers \cup Formless
    BY BodyShape
  <2>2. body.results # "record" /\ DecodePage(body) # "record"
    BY <2>1, NoMembers DEF Answers, Lists, DecodePage
  <2>3. Decode(kind, keeps, body) = "record" => DecodeRecord(body, keeps) = "record"
    BY <1>1, <2>2, Forms DEF Decode
  <2> QED
    BY <1>1, <2>3, RecordIsRead
<1>4. ASSUME kind = "list", "bad" \notin {body.count, body.next, body.msg},
             body.code \in {"absent", "zero"},
             body.results = "rows" \/ (body.results = "absent" /\ body.data = "rows")
      PROVE  outcome = "rows"
  <2>1. body.form = "object"
    BY <1>4, BodyShape, NoMembers
  <2>2. DecodePage(body) = "rows"
    BY <1>4 DEF DecodePage
  <2> QED
    BY <1>1, <1>4, <2>1, <2>2 DEF Decode, EnvelopeCode
<1>5. ASSUME kind \in {"get", "write"}, body.msg # "bad",
             \/ body.id = "positive"
             \/ body.id = "absent" /\ body.code = "zero" /\ body.data = "record"
      PROVE  outcome = "record"
  <2>1. body.form = "object"
    BY <1>5, BodyShape, NoMembers
  <2>2. DecodeRecord(body, keeps) = "record" /\ ~EnvelopeCode(kind, body)
    BY <1>5, <2>1 DEF DecodeRecord, Itself, Unwrapped, IsEnvelope, EnvelopeCode
  <2> QED
    BY <1>1, <1>5, <2>1, <2>2 DEF Decode
<1>6. ASSUME kind \in {"get", "write"}, body.msg = "bad"
      PROVE  outcome = "decode error"
  <2>1. body.form = "object"
    BY <1>6, BodyShape, NoMembers
  <2>2. Decode(kind, keeps, body) = "decode error"
    BY <1>6, <2>1 DEF Decode, DecodeRecord
  <2> QED
    BY <1>1, <2>2
<1> QED
  BY <1>2, <1>3, <1>4, <1>5, <1>6 DEF AnswerIsRead

(* A body that holds no record is decoded as just that, and no other is.   *)
LEMMA NoRecordIsNamed ==
  ASSUME RInv, kind \in {"get", "write"}, status = "2xx"
  PROVE  Decode(kind, keeps, body) = "not a record" <=> HoldsNoRecord
<1>1. CASE body \in Formless
  <2>1. /\ body.id = "absent" /\ body.code = "absent" /\ body.msg = "absent"
        /\ body.form \in {"blank", "null", "html", "text"}
    BY <1>1, NoMembers
  <2>2. DecodeRecord(body, keeps) = IF body.form = "null" /\ keeps THEN "decode error"
                                    ELSE "not a record"
    BY <2>1 DEF DecodeRecord, IsEnvelope, Itself
  <2>3. ~EnvelopeCode(kind, body)
    BY <2>1 DEF EnvelopeCode
  <2> QED
    BY <2>1, <2>2, <2>3 DEF Decode, HoldsNoRecord
<1>2. CASE body \notin Formless
  <2>1. body \in Answers /\ body.form = "object"
    BY <1>2, BodyShape
  <2>2. /\ body.id \in {"absent", "zero", "positive", "bad"}
        /\ body.code \in {"absent", "null", "zero", "nonzero", "bad"}
        /\ body.msg \in {"absent", "text", "bad"}
        /\ body.data \in {"absent", "null", "scalar"} \cup Lists \cup Records
    BY <2>1 DEF Answers
  <2>3. Decode(kind, keeps, body) = "not a record"
          <=> DecodeRecord(body, keeps) = "not a record"
    BY <2>1 DEF Decode
  <2>4. CASE IsEnvelope(body)
    <3>1. DecodeRecord(body, keeps) = "not a record"
            <=> /\ body.msg # "bad" /\ body.code # "nonzero"
                /\ body.data \in {"absent", "null", "anonymous"}
      BY <2>2, <2>4 DEF DecodeRecord, Unwrapped
    <3> QED
      BY <2>1, <2>2, <2>3, <2>4, <3>1 DEF HoldsNoRecord, IsEnvelope
  <2>5. CASE ~IsEnvelope(body)
    <3>1. DecodeRecord(body, keeps) = "not a record"
            <=> body.msg # "bad" /\ body.id \in {"absent", "zero"}
      BY <2>1, <2>2, <2>5 DEF DecodeRecord, Itself
    <3> QED
      BY <2>1, <2>2, <2>3, <2>5, <3>1 DEF HoldsNoRecord, IsEnvelope
  <2> QED
    BY <2>4, <2>5
<1> QED
  BY <1>1, <1>2

(* A write is unconfirmed, and a read not a record, where there is none.   *)
LEMMA RInvUnconfirmed == RInv => UnconfirmedIsNamed
<1> SUFFICES ASSUME RInv, Concluded
             PROVE  UnconfirmedIsNamed
  BY DEF RInv, UnconfirmedIsNamed
<1> DEFINE d == Decode(kind, keeps, body)
<1>1. d # "unconfirmed" /\ (d = "not a record" => kind # "list")
  BY DecodeIsNot
<1>2. outcome = IF status # "2xx" THEN "api error"
                ELSE IF kind = "write" /\ d = "not a record" THEN "unconfirmed"
                ELSE d
  BY DEF Concluded, Outcome
<1>3. kind \in {"get", "write"} /\ status = "2xx" => (d = "not a record" <=> HoldsNoRecord)
  BY NoRecordIsNamed
<1>4. kind \in {"list", "get", "write", "login"} /\ (kind = "login" => status # "2xx")
  BY DEF RInv, Requests
<1> HIDE DEF d
<1>5. outcome = "unconfirmed" <=> kind = "write" /\ status = "2xx" /\ HoldsNoRecord
  BY <1>1, <1>2, <1>3, <1>4
<1>6. outcome = "not a record" <=> kind = "get" /\ status = "2xx" /\ HoldsNoRecord
  BY <1>1, <1>2, <1>3, <1>4
<1> QED
  BY <1>5, <1>6 DEF UnconfirmedIsNamed

(* Whatever suspends the automatic login has said why.                     *)
LEMMA RInvSuspended == RInv => SuspendedByVerdict
<1> SUFFICES ASSUME RInv, Concluded, suspended
             PROVE  SuspendedByVerdict
  BY DEF RInv, SuspendedByVerdict
<1>1. kind = "login" /\ IsLoginRejection(status, body) /\ (HasMessage(body) \/ HasFields(body))
  BY DEF Concluded, Suspends
<1>2. \/ status \in {"401", "403"}
      \/ status = "400" /\ body.field = "messages"
  BY <1>1 DEF IsLoginRejection, HasFields
<1>3. \/ body.form = "text"
      \/ "text" \in {body.msg, body.detail}
      \/ body.field = "messages"
  BY <1>1 DEF HasMessage, HasFields
<1>4. "ErrUnauthorized" \in matches
  BY <1>1 DEF Concluded, Sentinels
<1>5. CASE body.form = "object"
  BY <1>1, <1>2, <1>3, <1>4, <1>5 DEF SuspendedByVerdict
<1>6. CASE body.form # "object"
  <2>1. body \in Formless
    BY <1>6, BodyShape
  <2>2. body.field = "absent" /\ body.msg = "absent" /\ body.detail = "absent"
    BY <2>1, NoMembers
  <2>3. body.form = "text" /\ status \in {"401", "403"}
    BY <1>2, <1>3, <2>2
  <2> QED
    BY <1>1, <1>4, <2>3 DEF SuspendedByVerdict
<1> QED
  BY <1>5, <1>6

(* Every answer of a run satisfies the invariant.                          *)
THEOREM ResponsesInductive == CSpec => []RInv
<1>1. CInit => RInv
  BY PartInit DEF RInit, RInv
<1>2. RInv /\ [CNext]_cvars => RInv'
  BY PartStep, RInvStep
<1> QED
  BY <1>1, <1>2, PTL DEF CSpec

(* Whatever else an envelope holds, whichever decoder reads it: a failure  *)
(* the server reports with status 200 is an error.                         *)
THEOREM FailuresAreErrors == CSpec => []FailureIsNeverData
BY ResponsesInductive, RInvFailure, PTL

(* Rows and records are those of the body, and a good answer is delivered, *)
(* unless it is a record with an attribute msg that is not a string.       *)
THEOREM AnswersAreRead == CSpec => []AnswerIsRead
BY ResponsesInductive, RInvRead, PTL

(* A write is unconfirmed exactly when it was accepted with a readable     *)
(* object, bare or an envelope, that holds no record.                      *)
THEOREM UnconfirmedNamed == CSpec => []UnconfirmedIsNamed
BY ResponsesInductive, RInvUnconfirmed, PTL

(* No gateway, no missing page, no HTML and no bare status suspends the    *)
(* login; what does is a JSON object that says why, or a plain text.       *)
THEOREM VerdictsSuspend == CSpec => []SuspendedByVerdict
BY ResponsesInductive, RInvSuspended, PTL

-----------------------------------------------------------------------------
(* Attributes.                                                             *)

(* Extra as it was decoded, and then as it was sent.                       *)
AsRead ==
  encoded = <<>> /\ own = <<>> /\ extra = ExtraOf(object)

AsSent ==
  /\ encoded = Merge(set, extra)
  /\ set \in Maps(Settable)
  /\ own \in Maps({Field, "custom"})
  /\ extra = [k \in Undeclared(object) \cup DOMAIN own |->
                IF k \in DOMAIN own THEN own[k] ELSE ExtraOf(object)[k]]

AInv == AsRead \/ (encoded # <<>> /\ AsSent)

(* The empty function is the empty sequence, and no record is.             *)
LEMMA Empty ==
  DOMAIN <<>> = {}
<1>1. <<>> \in Seq({0}) /\ Len(<<>>) = 0
  OBVIOUS
<1>2. DOMAIN <<>> = 1..0
  BY <1>1
<1> QED
  BY <1>2

(* A member of Maps(D) is a function from a part of D to the values.       *)
LEMMA MapTypes ==
  ASSUME NEW D, NEW f \in Maps(D)
  PROVE  DOMAIN f \subseteq D /\ f \in [DOMAIN f -> Values]
BY DEF Maps

(* A merged payload has the field that tells whether it is an error.       *)
LEMMA MergeIsNotEmpty ==
  ASSUME NEW s, NEW e
  PROVE  Merge(s, e) # <<>>
<1>1. "ok" \in DOMAIN Merge(s, e)
  BY DEF Merge
<1> QED
  BY <1>1, Empty

(* Reading a record and sending one keep what is known of Extra.           *)
LEMMA AInvStep ==
  ASSUME AInv, [ANext]_avars
  PROVE  AInv'
<1>1. CASE UNCHANGED avars
  BY <1>1 DEF AInv, AsRead, AsSent, avars
<1>2. ASSUME NEW s \in Maps(Settable), NEW more \in Maps({Field, "custom"}), Send(s, more)
      PROVE  AInv'
  <2>1. /\ extra = ExtraOf(object) /\ object' = object /\ set' = s /\ own' = more
        /\ encoded' = Merge(set', extra')
        /\ extra' = [k \in DOMAIN extra \cup DOMAIN more |->
                       IF k \in DOMAIN more THEN more[k] ELSE extra[k]]
    BY <1>2 DEF Send, AInv, AsRead
  <2>2. encoded' # <<>>
    BY <2>1, MergeIsNotEmpty
  <2>3. DOMAIN extra = Undeclared(object)
    BY <2>1 DEF ExtraOf
  <2>4. extra' = [k \in Undeclared(object') \cup DOMAIN own' |->
                   IF k \in DOMAIN own' THEN own'[k] ELSE ExtraOf(object')[k]]
    BY <2>1, <2>3
  <2> QED
    BY <2>1, <2>2, <2>4 DEF AInv, AsSent
<1> QED
  BY <1>1, <1>2 DEF ANext

(* Sending what was read is no error, and nothing of it is missing.        *)
LEMMA AInvBack == AInv => AttributesComeBack
<1> SUFFICES ASSUME AsSent, own = <<>>
             PROVE  /\ encoded.ok
                    /\ \A k \in NamesOf(object) \ {Field, Password} :
                         k \in DOMAIN encoded.object /\ encoded.object[k] = LastOf(object, {k})
                    /\ Password \in DOMAIN encoded.object => Password \in DOMAIN set
  BY DEF AInv, AsRead, AttributesComeBack
<1>1. DOMAIN own = {}
  BY Empty
<1>2. /\ DOMAIN extra = Undeclared(object)
      /\ \A k \in Undeclared(object) : extra[k] = LastOf(object, {k})
  BY <1>1 DEF AsSent, ExtraOf
<1>3. DOMAIN set \subseteq {Field, Password} /\ Field # Password
  BY MapTypes DEF AsSent, Settable, Field, Password
<1>4. DOMAIN set \cap DOMAIN extra = {}
  BY <1>2, <1>3 DEF Undeclared, Declared
<1>5. /\ encoded.ok
      /\ encoded.object = [k \in DOMAIN set \cup DOMAIN extra |->
                             IF k \in DOMAIN set THEN set[k] ELSE extra[k]]
  BY <1>4 DEF AsSent, Merge
<1>6. Password \notin DOMAIN extra
  BY <1>2 DEF Undeclared
<1>7. ASSUME NEW k \in NamesOf(object) \ {Field, Password}
      PROVE  k \in DOMAIN encoded.object /\ encoded.object[k] = LastOf(object, {k})
  <2>1. k \in Undeclared(object) /\ k \notin DOMAIN set
    BY <1>3 DEF Undeclared, Declared
  <2> QED
    BY <1>2, <1>5, <2>1
<1> QED
  BY <1>5, <1>6, <1>7

(* A payload that is sent has everything the caller put in it.             *)
LEMMA AInvDropped == AInv => NothingIsDropped
<1> SUFFICES ASSUME AsSent, encoded.ok
             PROVE  /\ \A k \in DOMAIN set : encoded.object[k] = set[k]
                    /\ \A k \in DOMAIN own : encoded.object[k] = own[k]
  BY DEF AInv, AsRead, NothingIsDropped
<1>1. DOMAIN set \cap DOMAIN extra = {}
  BY DEF AsSent, Merge
<1>2. encoded.object = [k \in DOMAIN set \cup DOMAIN extra |->
                          IF k \in DOMAIN set THEN set[k] ELSE extra[k]]
  BY <1>1 DEF AsSent, Merge
<1>3. ASSUME NEW k \in DOMAIN own PROVE k \in DOMAIN extra /\ extra[k] = own[k]
  BY DEF AsSent
<1> QED
  BY <1>1, <1>2, <1>3

(* What Extra is after a record was read, and after it was sent, is known  *)
(* in every reachable state.                                               *)
THEOREM AttributesInductive == CSpec => []AInv
<1>1. CInit => AInv
  BY PartInit DEF AInit, AInv, AsRead
<1>2. AInv /\ [CNext]_cvars => AInv'
  BY PartStep, AInvStep
<1> QED
  BY <1>1, <1>2, PTL DEF CSpec

(* Every undeclared member of every record goes back as it came, and the   *)
(* hash of the password does not.                                          *)
THEOREM AttributesReturn == CSpec => []AttributesComeBack
BY AttributesInductive, AInvBack, PTL

(* A payload that is sent has every field and every attribute the caller   *)
(* set, whatever they are called.                                          *)
THEOREM EverythingIsSent == CSpec => []NothingIsDropped
BY AttributesInductive, AInvDropped, PTL

-----------------------------------------------------------------------------
(* Numbers.                                                                *)

(* The widths are positive, and an int is no wider than an int64.          *)
LEMMA Widths ==
  /\ \A s \in Powers : s \in Nat /\ s > 0
  /\ Parts \in Nat /\ Parts > 0 /\ Significand \in Nat /\ Significand > 0
  /\ Int64 \in Nat /\ Int64 > 0
  /\ \A h \in HostInts : h \in Nat /\ h > 0 /\ h <= Int64
<1>1. \A s \in Powers : s \in Nat /\ s > 0
  BY PowerAssumption
<1>2. Parts \in Powers /\ Significand \in Powers /\ Int64 \in Powers
  BY WidthAssumption
<1>3. \A h \in HostInts : h \in Powers /\ h <= Int64
  BY WidthAssumption
<1> QED
  BY <1>1, <1>2, <1>3

(* Every set of naturals with a member has a least one.                    *)
LEMMA LeastOf ==
  ASSUME NEW S \in SUBSET Nat, S # {}
  PROVE  \E x \in S : \A y \in S : x <= y
<1> DEFINE R == OpToRel(<, Nat)
<1>1. IsWellFoundedOn(R, Nat)
  BY NatLessThanWellFounded
<1>2. \A x, y \in Nat : <<y, x>> \in R <=> y < x
  BY DEF OpToRel
<1> HIDE DEF R
<1>3. PICK x \in S : \A y \in S : ~ (<<y, x>> \in R)
  BY <1>1, WFMin
<1>4. SUFFICES ASSUME NEW y \in S PROVE x <= y
  OBVIOUS
<1>5. x \in Nat /\ y \in Nat
  OBVIOUS
<1>6. ~ (y < x)
  BY <1>2, <1>3, <1>5
<1> QED
  BY <1>5, <1>6

(* The float64s have a spacing around every number a text names.           *)
LEMMA Spaced ==
  ASSUME NEW n \in Int, -MaxWhole * Parts <= n, n <= MaxWhole * Parts
  PROVE  Spacing(n) \in Powers
<1> DEFINE S == {s \in Powers : Magnitude(n) < Significand * s}
<1>1. S # {}
  <2>1. PICK s \in Powers : MaxWhole * Parts < Significand * s
    BY WidthAssumption
  <2>2. Magnitude(n) <= MaxWhole * Parts
    BY WidthAssumption, Widths DEF Magnitude
  <2>3. Magnitude(n) < Significand * s
    BY <2>1, <2>2, WidthAssumption, Widths DEF Magnitude
  <2> QED
    BY <2>3
<1>2. S \subseteq Powers /\ S \in SUBSET Nat
  BY Widths
<1> HIDE DEF S
<1>3. \E x \in S : \A y \in S : x <= y
  BY <1>1, <1>2, LeastOf
<1>4. Min(S) \in S
  BY <1>3 DEF Min
<1> QED
  BY <1>2, <1>4 DEF Spacing, S

(* A float64 is half a spacing away from what it stands for, at most.      *)
LEMMA Rounded ==
  ASSUME NEW n \in Int, Spacing(n) \in Powers
  PROVE  Float64(n) \in Int /\ 2 * Magnitude(Float64(n) - n) <= Spacing(n)
<1> DEFINE s == Spacing(n)
           below == (n \div s) * s
<1>1. s \in Nat /\ s > 0
  BY Widths
<1> HIDE DEF s
<1>2. below \in Int /\ below <= n /\ n < below + s
  BY <1>1
<1>3. \/ Float64(n) = below + s /\ 2 * (n - below) >= s
      \/ Float64(n) = below /\ 2 * (n - below) <= s
  <2>1. \/ Float64(n) = below + s /\ (2 * (n - below) > s \/ 2 * (n - below) = s)
        \/ Float64(n) = below /\ ~(2 * (n - below) > s)
    BY DEF Float64, s
  <2> HIDE DEF below
  <2> QED
    BY <1>1, <1>2, <2>1
<1> HIDE DEF below
<1>4. Float64(n) \in Int /\ 2 * Magnitude(Float64(n) - n) <= s
  BY <1>1, <1>2, <1>3 DEF Magnitude
<1> QED
  BY <1>4 DEF s

(* A number that does not fit is refused, one that does is taken.          *)
LEMMA Taken ==
  ASSUME NEW i \in Int, NEW h
  PROVE  /\ ToInt(i, h).ok <=> Fits(i, h)
         /\ ToInt(i, h).ok => ToInt(i, h).int = i
BY DEF ToInt, AnInt, NoInt

(* A whole number of parts is that many wholes.                            *)
LEMMA Wholes ==
  ASSUME NEW i \in Int
  PROVE  /\ (i * Parts) \div Parts = i /\ i * Parts \in Int /\ (i * Parts) % Parts = 0
         /\ i % Parts = 0 => (i \div Parts) * Parts = i
         /\ i \div Parts \in Int
         /\ \A h \in HostInts : Fits(i, h) <=> Fits(i * Parts, h * Parts)
<1>1. /\ (i * Parts) \div Parts = i /\ i * Parts \in Int /\ (i * Parts) % Parts = 0
      /\ i \div Parts \in Int
  BY Widths
<1>2. i % Parts = 0 => (i \div Parts) * Parts = i
  BY Widths
<1>3. ASSUME NEW h \in HostInts
      PROVE  Fits(i, h) <=> Fits(i * Parts, h * Parts)
  <2>1. h \in Nat
    BY Widths
  <2>2. /\ -h <= i <=> (-h) * Parts <= i * Parts
        /\ i < h <=> i * Parts < h * Parts
    BY <2>1, Widths
  <2>3. (-h) * Parts = -(h * Parts)
    BY <2>1, Widths
  <2> QED
    BY <2>2, <2>3 DEF Fits
<1> QED
  BY <1>1, <1>2, <1>3

(* What FlexInt makes of a number: the integer itself, or the float64 near *)
(* it if that is whole, when the host has room for it.                     *)
LEMMA NumeralIsRead ==
  ASSUME NEW t \in Numerals, t \in Texts, NEW h \in HostInts
  PROVE  LET plain == t.form = "plain" /\ Fits(t.n, Int64 * Parts)
             r     == FlexInt(t, h)
         IN  /\ r.ok => r.int \in Int /\ Fits(r.int, h)
             /\ r.ok /\ plain => r.int * Parts = t.n
             /\ r.ok /\ ~plain => r.int * Parts = Float64(t.n)
             /\ plain /\ Fits(t.n, h * Parts) => r.ok
<1> DEFINE plain == t.form = "plain" /\ Fits(t.n, Int64 * Parts)
           r     == FlexInt(t, h)
           f     == Float64(t.n)
<1>1. /\ t.n \in Int /\ t.form \in {"plain", "decimal"}
      /\ t.form = "plain" => t.n % Parts = 0
      /\ -MaxWhole * Parts <= t.n /\ t.n <= MaxWhole * Parts
  <2>1. /\ t.form \in {"plain", "decimal"} /\ t.n \in (-MaxWhole * Parts)..(MaxWhole * Parts)
        /\ MaxWhole * Parts \in Int /\ -MaxWhole * Parts \in Int
    BY WidthAssumption, Widths DEF Numerals
  <2>2. t.form = "plain" => t.n % Parts = 0
    BY <2>1 DEF Texts
  <2> QED
    BY <2>1, <2>2
<1>2. f \in Int
  BY <1>1, Spaced, Rounded
<1>3. CASE plain
  <2>1. r = ToInt(t.n \div Parts, h)
    BY <1>3 DEF FlexInt
  <2>2. t.n \div Parts \in Int /\ (t.n \div Parts) * Parts = t.n
    BY <1>1, <1>3, Wholes
  <2>3. Fits(t.n, h * Parts) <=> Fits(t.n \div Parts, h)
    BY <2>2, Wholes
  <2> HIDE DEF r
  <2> QED
    BY <1>3, <2>1, <2>2, <2>3, Taken DEF r
<1>4. CASE ~plain
  <2>1. r = IF Whole(f) THEN ToInt(f \div Parts, h) ELSE NoInt
    BY <1>1, <1>4 DEF FlexInt
  <2>2. Whole(f) => f \div Parts \in Int /\ (f \div Parts) * Parts = f
    BY <1>2, Wholes DEF Whole
  <2>3. ~NoInt.ok
    BY DEF NoInt
  <2> HIDE DEF r, f
  <2>4. r.ok => r.int \in Int /\ Fits(r.int, h) /\ r.int * Parts = f
    BY <2>1, <2>2, <2>3, Taken
  <2> QED
    BY <1>4, <2>4 DEF r, f
<1> QED
  BY <1>3, <1>4

(* What was read of the text.                                              *)
NInv ==
  /\ text \in Texts /\ host \in HostInts
  /\ read => int = FlexInt(text, host) /\ ref = RefOf(text, expanded, host)

(* Reading one text replaces all that was read of the text before it.      *)
LEMMA NInvStep ==
  ASSUME NInv, [NRead]_nvars
  PROVE  NInv'
BY DEF NInv, NRead, nvars

(* An integer is the number the text names, or off by the rounding.        *)
LEMMA NInvInt == NInv => IntIsTheNumber
<1> SUFFICES ASSUME NInv, read, text \in Numerals
             PROVE  IntIsTheNumber
  BY DEF IntIsTheNumber
<1> DEFINE plain == text.form = "plain" /\ Fits(text.n, Int64 * Parts)
           off   == int.int * Parts - text.n
<1>1. int = FlexInt(text, host) /\ text \in Texts /\ host \in HostInts
  BY DEF NInv
<1>2. /\ int.ok => int.int \in Int /\ Fits(int.int, host)
      /\ int.ok /\ plain => int.int * Parts = text.n
      /\ int.ok /\ ~plain => int.int * Parts = Float64(text.n)
      /\ plain /\ Fits(text.n, host * Parts) => int.ok
  BY <1>1, NumeralIsRead
<1>3. /\ text.n \in Int /\ Float64(text.n) \in Int
      /\ 2 * Magnitude(Float64(text.n) - text.n) <= Spacing(text.n)
  <2>1. /\ text.n \in Int /\ -MaxWhole * Parts <= text.n /\ text.n <= MaxWhole * Parts
    BY WidthAssumption, Widths DEF Numerals
  <2> QED
    BY <2>1, Spaced, Rounded
<1> HIDE DEF plain
<1>4. ASSUME int.ok, off # 0
      PROVE  ~plain /\ Float64(text.n) # text.n /\ 2 * Magnitude(off) <= Spacing(text.n)
  <2>1. ~plain
    BY <1>2, <1>3, <1>4
  <2>2. int.int * Parts = Float64(text.n)
    BY <1>2, <1>4, <2>1
  <2> QED
    BY <1>3, <1>4, <2>1, <2>2
<1> QED
  BY <1>2, <1>4 DEF IntIsTheNumber, plain

(* A reference that was read has an identifier the host has room for.      *)
LEMMA RefFits ==
  ASSUME NEW t \in Texts, NEW h \in HostInts, FlexInt(t, h).ok
  PROVE  FlexInt(t, h).int \in Int /\ Fits(FlexInt(t, h).int, h)
<1>1. CASE t \in Numerals
  BY <1>1, NumeralIsRead
<1>2. CASE t \notin Numerals
  <2>1. t.form \in {"null", "blank", "special", "word"}
    BY <1>2 DEF Texts
  <2>2. FlexInt(t, h) = IF t.form \in {"null", "blank"} THEN AnInt(0) ELSE NoInt
    BY <2>1 DEF FlexInt
  <2>3. FlexInt(t, h).int = 0
    BY <2>2 DEF AnInt, NoInt
  <2> QED
    BY <2>3, Widths DEF Fits
<1> QED
  BY <1>1, <1>2

(* A reference that is written back is read as the same one.               *)
LEMMA NInvRef == NInv => RefIsKept
<1> SUFFICES ASSUME NInv, read, ref.ok
             PROVE  /\ RefOf(RefText(ref), FALSE, host).ok
                    /\ RefOf(RefText(ref), FALSE, host).id = ref.id
                    /\ ref.id = 0 /\ ~expanded => RefText(ref).form = "null"
  BY DEF RefIsKept
<1>1. /\ text \in Texts /\ host \in HostInts
      /\ ref = RefOf(text, expanded, host)
  BY DEF NInv
<1>2. ref.ok = FlexInt(text, host).ok /\ ref.id = FlexInt(text, host).int
      /\ ref.object = expanded
  BY <1>1 DEF RefOf
<1>3. ref.id \in Int /\ Fits(ref.id, host)
  BY <1>1, <1>2, RefFits
<1>4. CASE ref.id = 0 /\ ~ref.object
  <2>1. RefText(ref).form = "null"
    BY <1>4 DEF RefText
  <2>2. FlexInt(RefText(ref), host) = AnInt(0)
    BY <2>1 DEF FlexInt
  <2>3. RefOf(RefText(ref), FALSE, host).ok /\ RefOf(RefText(ref), FALSE, host).id = 0
    BY <2>2 DEF RefOf, AnInt
  <2> QED
    BY <1>4, <2>1, <2>3
<1>5. CASE ~(ref.id = 0 /\ ~ref.object)
  <2> DEFINE n == ref.id * Parts
  <2>1. RefText(ref).form = "plain" /\ RefText(ref).n = n
    BY <1>5 DEF RefText
  <2>2. n \in Int /\ n \div Parts = ref.id /\ Fits(n, host * Parts)
    BY <1>1, <1>3, Wholes
  <2>3. Fits(n, Int64 * Parts)
    <3>1. Int64 \in Nat /\ Parts \in Nat /\ host \in Nat /\ host <= Int64
      BY <1>1, Widths
    <3>2. host * Parts <= Int64 * Parts /\ host * Parts \in Int /\ Int64 * Parts \in Int
      BY <3>1
    <3> HIDE DEF n
    <3> QED
      BY <2>2, <3>2 DEF Fits
  <2>4. FlexInt(RefText(ref), host) = ToInt(ref.id, host)
    BY <2>1, <2>2, <2>3 DEF FlexInt
  <2>5. RefOf(RefText(ref), FALSE, host).ok /\ RefOf(RefText(ref), FALSE, host).id = ref.id
    BY <1>3, <2>4, Taken DEF RefOf
  <2> QED
    BY <1>2, <1>5, <2>5
<1> QED
  BY <1>4, <1>5

(* Every number that is read satisfies the invariant.                      *)
THEOREM NumbersInductive == CSpec => []NInv
<1>1. CInit => NInv
  BY PartInit DEF NInit, NInv
<1>2. NInv /\ [CNext]_cvars => NInv'
  BY PartStep, NInvStep
<1> QED
  BY <1>1, <1>2, PTL DEF CSpec

(* On every host, for every number and for widths of any power of two: an  *)
(* integer is read as it is written, or off by the rounding of a float64,  *)
(* and never wraps.                                                        *)
THEOREM IntsAreExact == CSpec => []IntIsTheNumber
BY NumbersInductive, NInvInt, PTL

(* On every host, whatever the width of its int, a reference that is       *)
(* written back is the one that was read.                                  *)
THEOREM RefsAreKept == CSpec => []RefIsKept
BY NumbersInductive, NInvRef, PTL

-----------------------------------------------------------------------------
(* Exchange.                                                               *)

Settings == {"version", "sizeParam", "maxBody"}

(* The client that some options make, which set each setting once at most. *)
Made(S, c) ==
  /\ c = [k \in Settings |-> c[k]]
  /\ \A o \in S : c[o[1]] = Setting(o)
  /\ \A k \in Settings : (\A o \in S : o[1] # k) => c[k] = Defaults[k]

(* The client the options of a call of New stand for.                      *)
Meant == [version |-> Given("version", 9), sizeParam |-> SizeParam,
          maxBody |-> IF Cap = MaxInt THEN MaxInt - 1 ELSE Cap]

(* The requests that were sent are the call's, as often as it takes.       *)
TheRequest == [query |-> query, body |-> payload]

(* Options are applied to the defaults one by one; the client that is      *)
(* ready is the one they stand for; what is sent is one request, whole;    *)
(* and a length that does not fit under the cap ends the call.             *)
EInv ==
  /\ given \in OptionSets
  /\ stage \in {"new", "ready", "send", "over"}
  /\ stage = "new" => /\ options \subseteq given /\ given \ options \subseteq Valid
                      /\ Made(given \ options, cfg)
  /\ stage \in {"new", "ready"} => sent = <<>> /\ result = "none" /\ content = NoBody
                                  /\ answer = [n |-> 0, read |-> 0]
  /\ result = "bad option" => given \cap Invalid # {} /\ sent = <<>> /\ content = NoBody
                              /\ stage = "over"
  /\ stage \in {"send"} => result = "none"
  /\ result \in {"none", "bad option", "too large", "delivered", "refused"}
  /\ stage # "new" /\ result # "bad option" =>
       given \cap Invalid = {} /\ cfg = Meant
  /\ content \in Bodies
  /\ sent \in Seq({TheRequest})
  /\ sent # <<>> \/ stage = "send" =>
       /\ payload = content.n
       /\ query = QueryOf(cfg, asked.size, asked.raw)
       /\ asked.size \in {0, 2} /\ asked.raw \in Raws
       /\ content.kind = "reader" => content.n <= Meant.maxBody
  /\ result = "delivered" => /\ answer.read = answer.n /\ answer.n <= Meant.maxBody
                             /\ answer.n \in 0..MaxInt
  /\ result = "too large" =>
       LET n == IF sent = <<>> THEN content.n ELSE answer.n
       IN  n \in 0..MaxInt /\ n > Meant.maxBody

(* The values an option may have.                                          *)
LEMMA OptionTypes ==
  /\ MaxInt \in Nat /\ MaxInt >= 2 /\ DefaultCap \in 1..(MaxInt - 1)
  /\ \A o \in Valid :
       /\ o[1] \in Settings
       /\ o[1] = "version" => o[2] \in {8, 9} /\ Setting(o) = o[2]
       /\ o[1] = "sizeParam" => o[2] = "per" /\ Setting(o) = o[2]
       /\ o[1] = "maxBody" => /\ o[2] \in 1..MaxInt
                              /\ o[2] = MaxInt => Setting(o) = MaxInt - 1
                              /\ o[2] # MaxInt => Setting(o) = o[2]
<1>1. MaxInt \in Nat /\ MaxInt >= 2 /\ DefaultCap \in 1..(MaxInt - 1)
  BY LengthAssumption
<1>2. ASSUME NEW o \in Valid
      PROVE  \/ o = <<"version", 8>> \/ o = <<"version", 9>> \/ o = <<"sizeParam", "per">>
             \/ \E n \in {1, 2, MaxInt} : o = <<"maxBody", n>>
  BY DEF Valid
<1>3. \A o \in {<<"version", 8>>, <<"version", 9>>, <<"sizeParam", "per">>} : Setting(o) = o[2]
  BY DEF Setting
<1>4. ASSUME NEW n \in {1, 2, MaxInt}
      PROVE  Setting(<<"maxBody", n>>) = IF n = MaxInt THEN MaxInt - 1 ELSE n
  BY DEF Setting
<1> QED
  BY <1>1, <1>2, <1>3, <1>4 DEF Settings

(* No value is both one an option may have and one it refuses.             *)
LEMMA InvalidIsNot ==
  ASSUME NEW o \in Invalid
  PROVE  o \notin Valid
<1>1. \/ o[1] = "version" /\ o[2] = 7
      \/ o[1] = "sizeParam" /\ o[2] = ""
      \/ o[1] = "maxBody" /\ o[2] = 0
  <2>1. o = <<"version", 7>> \/ o = <<"sizeParam", "">> \/ o = <<"maxBody", 0>>
    BY DEF Invalid
  <2>2. CASE o = <<"version", 7>>
    BY <2>2
  <2>3. CASE o = <<"sizeParam", "">>
    BY <2>3
  <2>4. CASE o = <<"maxBody", 0>>
    BY <2>4
  <2> QED
    BY <2>1, <2>2, <2>3, <2>4
<1>2. CASE o[1] = "version" /\ o[2] = 7
  BY <1>2, OptionTypes
<1>3. CASE o[1] = "sizeParam" /\ o[2] = ""
  <2>1. o[2] # "per"
    BY <1>3
  <2> QED
    BY <1>3, <2>1, OptionTypes
<1>4. CASE o[1] = "maxBody" /\ o[2] = 0
  BY <1>4, OptionTypes
<1> QED
  BY <1>1, <1>2, <1>3, <1>4

(* Below the largest int64 nothing wraps around: a length is read whole, *)
(* or not at all.                                                          *)
LEMMA ReadWhole ==
  ASSUME NEW n \in 0..MaxInt, NEW limit \in 1..(MaxInt - 1)
  PROVE  /\ ReadCapped(n, limit) = Failed => n > limit
         /\ ReadCapped(n, limit) # Failed => ReadCapped(n, limit) = n /\ n <= limit
<1>1. MaxInt \in Nat
  BY LengthAssumption
<1>2. \A a, b \in Int : 0 <= a /\ a < b => a % b = a
  OBVIOUS
<1>3. (limit + 1 + MaxInt + 1) % (2 * MaxInt + 2) = limit + 1 + MaxInt + 1
  <2>1. limit + 1 + MaxInt + 1 \in Int /\ 2 * MaxInt + 2 \in Int
    BY <1>1
  <2>2. 0 <= limit + 1 + MaxInt + 1 /\ limit + 1 + MaxInt + 1 < 2 * MaxInt + 2
    BY <1>1
  <2> QED
    BY <1>2, <2>1, <2>2
<1>4. Wrap(limit + 1) = limit + 1
  BY <1>1, <1>3 DEF Wrap
<1> QED
  BY <1>1, <1>4 DEF ReadCapped, Failed

(* What an option in a set with one option for each setting sets.          *)
LEMMA GivenIs ==
  ASSUME given \in OptionSets, NEW o \in given, NEW k, o[1] = k, NEW default
  PROVE  Given(k, default) = o[2]
<1> DEFINE S == {x \in given : x[1] = k}
<1>1. o \in S /\ \A x \in S : x = o
  BY DEF OptionSets
<1>2. (CHOOSE x \in S : TRUE) = o
  BY <1>1
<1> QED
  BY <1>1, <1>2 DEF Given

(* A setting no option is about has its default.                           *)
LEMMA GivenNot ==
  ASSUME NEW k, \A o \in given : o[1] # k, NEW default
  PROVE  Given(k, default) = default
BY DEF Given

(* The limit of the client that valid options stand for.                   *)
LEMMA MeantCap ==
  ASSUME given \in OptionSets, given \cap Invalid = {}
  PROVE  /\ given \subseteq Valid
         /\ Cap \in 1..MaxInt
         /\ Meant.maxBody = IF Cap = MaxInt THEN MaxInt - 1 ELSE Cap
         /\ Meant.maxBody \in 1..(MaxInt - 1)
         /\ Meant.maxBody <= Cap
         /\ Meant.maxBody < Cap => Cap = MaxInt /\ Meant.maxBody = MaxInt - 1
<1>1. given \subseteq Valid
  BY DEF OptionSets
<1>2. Cap \in 1..MaxInt
  <2>1. CASE \A o \in given : o[1] # "maxBody"
    <3>1. Cap = DefaultCap
      BY <2>1, GivenNot DEF Cap
    <3> QED
      BY <3>1, OptionTypes
  <2>2. ASSUME NEW o \in given, o[1] = "maxBody"
        PROVE  Cap \in 1..MaxInt
    <3>1. Given("maxBody", DefaultCap) = o[2]
      BY <2>2, GivenIs
    <3>2. Cap = o[2]
      BY <3>1 DEF Cap
    <3> QED
      BY <1>1, <2>2, <3>2, OptionTypes
  <2> QED
    BY <2>1, <2>2
<1>3. Meant.maxBody = IF Cap = MaxInt THEN MaxInt - 1 ELSE Cap
  BY DEF Meant
<1> QED
  BY <1>1, <1>2, <1>3, OptionTypes

(* Valid options, once all applied, have made the client they stand for,   *)
(* up to the name of the page size parameter, which is derived last.       *)
LEMMA Resolved ==
  ASSUME given \in OptionSets, given \subseteq Valid, Made(given, cfg)
  PROVE  (IF cfg.sizeParam # "" THEN cfg
          ELSE [cfg EXCEPT !.sizeParam = PageSizeParam(cfg.version)]) = Meant
<1>1. /\ cfg = [k \in Settings |-> cfg[k]]
      /\ \A o \in given : cfg[o[1]] = Setting(o)
      /\ \A k \in Settings : (\A o \in given : o[1] # k) => cfg[k] = Defaults[k]
  BY DEF Made
<1>2. cfg.version = Given("version", 9)
  <2>1. CASE \A o \in given : o[1] # "version"
    <3>1. Given("version", 9) = 9
      BY <2>1, GivenNot
    <3>2. cfg["version"] = Defaults["version"]
      BY <1>1, <2>1 DEF Settings
    <3> QED
      BY <3>1, <3>2 DEF Defaults
  <2>2. ASSUME NEW o \in given, o[1] = "version"
        PROVE  cfg.version = Given("version", 9)
    <3>1. Given("version", 9) = o[2]
      BY <2>2, GivenIs
    <3>2. cfg[o[1]] = o[2]
      BY <1>1, <2>2, OptionTypes
    <3> QED
      BY <2>2, <3>1, <3>2
  <2> QED
    BY <2>1, <2>2
<1>3. cfg.maxBody = IF Cap = MaxInt THEN MaxInt - 1 ELSE Cap
  <2>1. CASE \A o \in given : o[1] # "maxBody"
    <3>1. Cap = DefaultCap
      BY <2>1, GivenNot DEF Cap
    <3>2. cfg["maxBody"] = Defaults["maxBody"]
      BY <1>1, <2>1 DEF Settings
    <3> QED
      BY <3>1, <3>2, OptionTypes DEF Defaults
  <2>2. ASSUME NEW o \in given, o[1] = "maxBody"
        PROVE  cfg.maxBody = IF Cap = MaxInt THEN MaxInt - 1 ELSE Cap
    <3>1. Given("maxBody", DefaultCap) = o[2]
      BY <2>2, GivenIs
    <3>2. Cap = o[2]
      BY <3>1 DEF Cap
    <3>3. /\ o[2] = MaxInt => Setting(o) = MaxInt - 1
          /\ o[2] # MaxInt => Setting(o) = o[2]
      BY <2>2, OptionTypes
    <3>4. cfg[o[1]] = Setting(o)
      BY <1>1
    <3> QED
      BY <2>2, <3>2, <3>3, <3>4
  <2> QED
    BY <2>1, <2>2
<1>4. /\ cfg.sizeParam # "" => cfg.sizeParam = SizeParam
      /\ cfg.sizeParam = "" => SizeParam = PageSizeParam(cfg.version)
  <2>1. CASE \A o \in given : o[1] # "sizeParam"
    <3>1. SizeParam = PageSizeParam(Given("version", 9))
      BY <2>1, GivenNot DEF SizeParam
    <3>2. cfg["sizeParam"] = Defaults["sizeParam"]
      BY <1>1, <2>1 DEF Settings
    <3>3. cfg.sizeParam = ""
      BY <3>2 DEF Defaults
    <3> QED
      BY <1>2, <3>1, <3>3
  <2>2. ASSUME NEW o \in given, o[1] = "sizeParam"
        PROVE  /\ cfg.sizeParam # "" => cfg.sizeParam = SizeParam
               /\ cfg.sizeParam = "" => SizeParam = PageSizeParam(cfg.version)
    <3>1. \A default : Given("sizeParam", default) = o[2]
      BY <2>2, GivenIs
    <3>2. SizeParam = o[2]
      BY <3>1 DEF SizeParam
    <3>3. o[2] = "per" /\ Setting(o) = o[2]
      BY <2>2, OptionTypes
    <3>4. cfg[o[1]] = Setting(o)
      BY <1>1
    <3> QED
      BY <2>2, <3>2, <3>3, <3>4
  <2> QED
    BY <2>1, <2>2
<1> DEFINE final == IF cfg.sizeParam # "" THEN cfg
                    ELSE [cfg EXCEPT !.sizeParam = PageSizeParam(cfg.version)]
<1>5. final = [k \in Settings |-> final[k]]
  BY <1>1 DEF Settings
<1>6. /\ final["version"] = Meant.version
      /\ final["maxBody"] = Meant.maxBody
      /\ final["sizeParam"] = Meant.sizeParam
  BY <1>1, <1>2, <1>3, <1>4 DEF Settings, Meant
<1>7. Meant = [k \in Settings |-> Meant[k]]
  BY DEF Meant, Settings
<1> HIDE DEF final
<1>8. final = Meant
  BY <1>5, <1>6, <1>7 DEF Settings
<1> QED
  BY <1>8 DEF final

(* A call starts from the defaults, with no option applied.                *)
LEMMA EInitInv ==
  ASSUME EInit
  PROVE  EInv
<1>1. Made(given \ options, cfg)
  BY DEF EInit, Made, Defaults, Settings
<1>2. content \in Bodies /\ sent \in Seq({TheRequest})
  BY DEF EInit, NoBody, Bodies
<1> QED
  BY <1>1, <1>2 DEF EInit, EInv

(* An option that is applied sets its own setting, which no option applied *)
(* before it had set.                                                      *)
LEMMA AppliesOne ==
  ASSUME given \in OptionSets, NEW S, S \subseteq given, S \subseteq Valid, Made(S, cfg),
         NEW o \in given \ S, o \in Valid
  PROVE  Made(S \cup {o}, Apply(cfg, o))
<1> DEFINE d == Apply(cfg, o)
<1>1. /\ cfg = [k \in Settings |-> cfg[k]]
      /\ \A x \in S : cfg[x[1]] = Setting(x)
      /\ \A k \in Settings : (\A x \in S : x[1] # k) => cfg[k] = Defaults[k]
  BY DEF Made
<1>2. \A x \in S : x[1] # o[1] /\ x[1] \in Settings
  BY OptionTypes DEF OptionSets
<1>3. o[1] \in Settings
  BY OptionTypes
<1>4. d = [k \in Settings |-> IF k = o[1] THEN Setting(o) ELSE cfg[k]]
  BY <1>1, <1>3 DEF Apply
<1> HIDE DEF d
<1>5. /\ d = [k \in Settings |-> d[k]]
      /\ d[o[1]] = Setting(o)
      /\ \A k \in Settings : k # o[1] => d[k] = cfg[k]
  BY <1>3, <1>4
<1>6. \A x \in S \cup {o} : d[x[1]] = Setting(x)
  BY <1>1, <1>2, <1>5
<1>7. ASSUME NEW k \in Settings, \A x \in S \cup {o} : x[1] # k
      PROVE  d[k] = Defaults[k]
  BY <1>1, <1>5, <1>7
<1>8. Made(S \cup {o}, d)
  BY <1>5, <1>6, <1>7 DEF Made
<1> QED
  BY <1>8 DEF d

(* An option changes its own setting, and the order of two does not count. *)
LEMMA StepOption ==
  ASSUME EInv, NEW o \in options, Option(o)
  PROVE  EInv'
<1>1. /\ stage = "new" /\ given \in OptionSets /\ options \subseteq given
      /\ given \ options \subseteq Valid /\ Made(given \ options, cfg)
      /\ sent = <<>> /\ result = "none" /\ content = NoBody
      /\ answer = [n |-> 0, read |-> 0] /\ content \in Bodies
  BY DEF EInv, Option
<1>2. /\ options' = options \ {o}
      /\ UNCHANGED <<given, content, payload, query, asked, sent, answer>>
  BY DEF Option, call
<1>3. sent' \in Seq({TheRequest})' /\ content' \in Bodies'
  BY <1>1, <1>2 DEF Bodies
<1>4. CASE o \in Invalid
  <2>1. stage' = "over" /\ result' = "bad option" /\ cfg' = cfg
    BY <1>4 DEF Option, End
  <2>2. given' \cap Invalid # {}
    BY <1>1, <1>2, <1>4
  <2> QED
    BY <1>1, <1>2, <1>3, <2>1, <2>2 DEF EInv
<1>5. CASE o \notin Invalid
  <2>1. cfg' = Apply(cfg, o) /\ stage' = stage /\ result' = result
    BY <1>5 DEF Option
  <2>2. o \in Valid
    BY <1>1, <1>5 DEF OptionSets
  <2>3. given \ options' = (given \ options) \cup {o} /\ options' \subseteq given
    BY <1>1, <1>2
  <2>4. Made(given \ options', cfg')
    BY <1>1, <2>1, <2>2, <2>3, AppliesOne
  <2>5. Made(given' \ options', cfg')
    BY <1>2, <2>4
  <2> QED
    BY <1>1, <1>2, <1>3, <2>1, <2>2, <2>3, <2>5 DEF EInv
<1> QED
  BY <1>4, <1>5

(* New replaces what no option set by its default, or returns an error.    *)
LEMMA StepResolve ==
  ASSUME EInv, Resolve
  PROVE  EInv'
<1>1. /\ stage = "new" /\ options = {} /\ given \in OptionSets
      /\ given \subseteq Valid /\ Made(given, cfg)
      /\ sent = <<>> /\ result = "none" /\ content = NoBody
      /\ answer = [n |-> 0, read |-> 0] /\ content \in Bodies
  <2>1. stage = "new" /\ options = {}
    BY DEF Resolve
  <2>2. given \ options = given
    BY <2>1
  <2> QED
    BY <2>1, <2>2 DEF EInv
<1>2. /\ stage' = "ready"
      /\ UNCHANGED <<options, given, content, payload, query, asked, result, sent, answer>>
  BY DEF Resolve, call
<1>3. cfg' = Meant
  BY <1>1, Resolved DEF Resolve
<1>4. Meant' = Meant
  BY <1>2 DEF Meant, SizeParam, Cap, Given
<1>5. given \cap Invalid = {}
  BY <1>1, InvalidIsNot
<1>6. sent' \in Seq({TheRequest})' /\ content' \in Bodies'
  BY <1>1, <1>2 DEF Bodies
<1> QED
  BY <1>1, <1>2, <1>3, <1>4, <1>5, <1>6 DEF EInv

(* The length of a body is one an int64 holds.                             *)
LEMMA LengthsOfBodies ==
  ASSUME NEW b \in Bodies
  PROVE  b.n \in 0..MaxInt
<1>1. MaxInt \in Nat /\ Lengths \subseteq 0..MaxInt
  BY LengthAssumption
<1>2. CASE b \in [kind : {"bytes", "reader"}, n : Lengths]
  <2>1. b.n \in Lengths
    BY <1>2
  <2> QED
    BY <1>1, <2>1
<1>3. CASE b \in [kind : {"none"}, n : {0}]
  <2>1. b.n = 0
    BY <1>3
  <2> QED
    BY <1>1, <2>1
<1> QED
  BY <1>2, <1>3 DEF Bodies

(* What a body of a request is sent as: its length, unless it is one that  *)
(* is buffered and does not fit.                                           *)
LEMMA Encoded ==
  ASSUME NEW b \in Bodies, cfg.maxBody \in 1..(MaxInt - 1)
  PROVE  /\ b.n \in 0..MaxInt
         /\ Encode(b) = Failed => b.n > cfg.maxBody
         /\ Encode(b) # Failed =>
              Encode(b) = b.n /\ (b.kind = "reader" => b.n <= cfg.maxBody)
<1>1. MaxInt \in Nat /\ Lengths \subseteq 0..MaxInt
  BY LengthAssumption
<1>2. b.n \in 0..MaxInt
  BY LengthsOfBodies
<1>3. CASE b.kind = "reader"
  <2>1. Encode(b) = ReadCapped(b.n, cfg.maxBody)
    BY <1>3 DEF Encode
  <2> QED
    BY <1>2, <1>3, <2>1, ReadWhole
<1>4. CASE b.kind # "reader"
  BY <1>2, <1>4 DEF Encode, Failed
<1> QED
  BY <1>2, <1>3, <1>4

(* A call encodes its body once, whole.                                    *)
LEMMA StepCall ==
  ASSUME EInv, NEW b \in Bodies, NEW size \in {0, 2}, NEW raw \in Raws,
         Call(b, size, raw)
  PROVE  EInv'
<1>1. /\ stage = "ready" /\ given \in OptionSets /\ given \cap Invalid = {}
      /\ cfg = Meant /\ sent = <<>> /\ result = "none"
  BY DEF EInv, Call
<1>2. /\ content' = b /\ asked' = [size |-> size, raw |-> raw]
      /\ query' = QueryOf(cfg, size, raw) /\ payload' = Encode(b)
      /\ UNCHANGED <<options, cfg, given, sent, answer>>
  BY DEF Call, client
<1>3. cfg.maxBody \in 1..(MaxInt - 1)
  BY <1>1, MeantCap
<1>4. Meant' = Meant
  BY <1>2 DEF Meant, SizeParam, Cap, Given
<1>5. sent' \in Seq({TheRequest})' /\ content' \in Bodies'
  BY <1>1, <1>2 DEF Bodies
<1>6. CASE payload' = Failed
  <2>1. stage' = "over" /\ result' = "too large"
    BY <1>6 DEF Call, End
  <2>2. content'.n \in 0..MaxInt /\ content'.n > Meant'.maxBody
    BY <1>1, <1>2, <1>3, <1>4, <1>6, Encoded
  <2> QED
    BY <1>1, <1>2, <1>4, <1>5, <2>1, <2>2 DEF EInv
<1>7. CASE payload' # Failed
  <2>1. stage' = "send" /\ result' = "none"
    BY <1>1, <1>7 DEF Call
  <2>2. /\ payload' = content'.n
        /\ content'.kind = "reader" => content'.n <= Meant'.maxBody
    BY <1>1, <1>2, <1>3, <1>4, <1>7, Encoded
  <2>3. /\ asked'.size = size /\ asked'.raw = raw
        /\ query' = QueryOf(cfg, asked'.size, asked'.raw)
    BY <1>2
  <2>4. query' = QueryOf(cfg', asked'.size, asked'.raw)
    BY <1>2, <2>3
  <2> QED
    BY <1>1, <1>2, <1>4, <1>5, <2>1, <2>2, <2>3, <2>4 DEF EInv
<1> QED
  BY <1>6, <1>7

(* A request that is sent leaves the call as it was; one more of the same  *)
(* has been sent.                                                          *)
LEMMA Sends ==
  ASSUME EInv, stage = "send", Request
  PROVE  /\ given \in OptionSets /\ given \cap Invalid = {} /\ cfg = Meant
         /\ cfg.maxBody \in 1..(MaxInt - 1) /\ result = "none" /\ content \in Bodies
         /\ UNCHANGED <<given, cfg, content, payload, query, asked, Meant>>
         /\ sent' \in Seq({TheRequest})' /\ sent' # <<>>
         /\ payload = content.n /\ query = QueryOf(cfg, asked.size, asked.raw)
         /\ asked.size \in {0, 2} /\ asked.raw \in Raws
         /\ content.kind = "reader" => content.n <= Meant.maxBody
<1>1. /\ given \in OptionSets /\ given \cap Invalid = {} /\ cfg = Meant
      /\ result = "none" /\ content \in Bodies /\ sent \in Seq({TheRequest})
      /\ payload = content.n /\ query = QueryOf(cfg, asked.size, asked.raw)
      /\ asked.size \in {0, 2} /\ asked.raw \in Raws
      /\ content.kind = "reader" => content.n <= Meant.maxBody
  BY DEF EInv
<1>2. cfg.maxBody \in 1..(MaxInt - 1)
  BY <1>1, MeantCap
<1>3. UNCHANGED <<given, cfg, content, payload, query, asked>>
  BY DEF Request, client, call
<1>4. Meant' = Meant
  BY <1>3 DEF Meant, SizeParam, Cap, Given
<1>5. TheRequest' = TheRequest
  BY <1>3 DEF TheRequest
<1>6. sent' = Append(sent, TheRequest)
  BY DEF Request, TheRequest
<1>7. sent' \in Seq({TheRequest}) /\ sent' # <<>>
  <2> DEFINE r == TheRequest
  <2>1. sent \in Seq({r}) /\ sent' = Append(sent, r)
    BY <1>1, <1>6
  <2> HIDE DEF r
  <2>2. sent' \in Seq({r}) /\ sent' # <<>>
    BY <2>1
  <2> QED
    BY <2>2 DEF r
<1>8. sent' \in Seq({TheRequest})'
  BY <1>5, <1>7
<1> QED
  BY <1>1, <1>2, <1>3, <1>4, <1>7, <1>8

(* An answer is read whole or ends the call, whatever becomes of it then.  *)
LEMMA StepReceives ==
  ASSUME EInv, NEW n \in Lengths, stage = "send", Request,
         answer' = [n |-> n, read |-> ReadCapped(n, cfg.maxBody)],
         IF answer'.read = Failed THEN End("too large")
         ELSE \/ stage' = "send" /\ result' = result
              \/ stage' = "over" /\ result' \in {"delivered", "refused"}
  PROVE  EInv'
<1> DEFINE Kept == /\ given' \in OptionSets /\ given' \cap Invalid = {} /\ cfg' = Meant'
                   /\ content' \in Bodies' /\ sent' \in Seq({TheRequest})' /\ sent' # <<>>
                   /\ payload' = content'.n /\ query' = QueryOf(cfg', asked'.size, asked'.raw)
                   /\ asked'.size \in {0, 2} /\ asked'.raw \in Raws
                   /\ content'.kind = "reader" => content'.n <= Meant'.maxBody
<1>1. result = "none" /\ cfg = Meant /\ Meant' = Meant /\ cfg.maxBody \in 1..(MaxInt - 1)
  BY Sends
<1>2. Kept
  <2>1. /\ given \in OptionSets /\ given \cap Invalid = {} /\ content \in Bodies
        /\ UNCHANGED <<given, cfg, content, payload, query, asked, Meant>>
        /\ sent' \in Seq({TheRequest})' /\ sent' # <<>>
        /\ payload = content.n /\ query = QueryOf(cfg, asked.size, asked.raw)
        /\ asked.size \in {0, 2} /\ asked.raw \in Raws
        /\ content.kind = "reader" => content.n <= Meant.maxBody
    BY Sends
  <2>2. Bodies' = Bodies
    BY DEF Bodies
  <2>3. query' = QueryOf(cfg', asked'.size, asked'.raw)
    BY <2>1
  <2> QED
    BY <1>1, <2>1, <2>2, <2>3
<1>3. n \in 0..MaxInt
  BY LengthAssumption
<1>4. /\ answer'.n = n
      /\ answer'.read = Failed => n > cfg.maxBody
      /\ answer'.read # Failed => answer'.read = n /\ n <= cfg.maxBody
  BY <1>1, <1>3, ReadWhole
<1> HIDE DEF Kept
<1>5. CASE answer'.read = Failed
  <2>1. stage' = "over" /\ result' = "too large"
    BY <1>5 DEF End
  <2>2. answer'.n \in 0..MaxInt /\ answer'.n > Meant'.maxBody
    BY <1>1, <1>3, <1>4, <1>5
  <2> QED
    BY <1>2, <2>1, <2>2 DEF EInv, Kept
<1>6. CASE answer'.read # Failed /\ stage' = "send" /\ result' = result
  BY <1>1, <1>2, <1>6 DEF EInv, Kept
<1>7. CASE answer'.read # Failed /\ stage' = "over" /\ result' \in {"delivered", "refused"}
  <2>1. answer'.read = answer'.n /\ answer'.n <= Meant'.maxBody /\ answer'.n \in 0..MaxInt
    BY <1>1, <1>3, <1>4, <1>7
  <2> QED
    BY <1>2, <1>7, <2>1 DEF EInv, Kept
<1> QED
  BY <1>5, <1>6, <1>7

(* A failure of the transport ends the call with an error, without data.   *)
LEMMA StepUnanswered ==
  ASSUME EInv, Unanswered
  PROVE  EInv'
<1>1. /\ given \in OptionSets /\ given \cap Invalid = {} /\ cfg = Meant
      /\ result = "none" /\ content \in Bodies
      /\ UNCHANGED <<given, cfg, content, payload, query, asked, Meant>>
      /\ sent' \in Seq({TheRequest})' /\ sent' # <<>>
      /\ payload = content.n /\ query = QueryOf(cfg, asked.size, asked.raw)
      /\ asked.size \in {0, 2} /\ asked.raw \in Raws
      /\ content.kind = "reader" => content.n <= Meant.maxBody
  BY Sends DEF Unanswered
<1>2. Bodies' = Bodies
  BY DEF Bodies
<1>3. query' = QueryOf(cfg', asked'.size, asked'.raw)
  BY <1>1
<1>4. stage' = "over" /\ result' = "refused"
  BY DEF Unanswered, End
<1> QED
  BY <1>1, <1>2, <1>3, <1>4 DEF EInv

(* Every step of a call keeps the invariant.                               *)
LEMMA EInvStep ==
  ASSUME EInv, [ENext]_evars
  PROVE  EInv'
<1>1. ASSUME NEW o \in options, Option(o)
      PROVE  EInv'
  BY <1>1, StepOption
<1>2. CASE Resolve
  BY <1>2, StepResolve
<1>3. ASSUME NEW b \in Bodies, NEW size \in {0, 2}, NEW raw \in Raws, Call(b, size, raw)
      PROVE  EInv'
  BY <1>3, StepCall
<1>4. ASSUME NEW n \in Lengths, Unauthorized(n)
      PROVE  EInv'
  <2>1. /\ stage = "send" /\ Request
        /\ answer' = [n |-> n, read |-> ReadCapped(n, cfg.maxBody)]
        /\ IF answer'.read = Failed THEN End("too large") ELSE UNCHANGED <<stage, result>>
    BY <1>4 DEF Unauthorized, Receives
  <2>2. IF answer'.read = Failed THEN End("too large")
        ELSE \/ stage' = "send" /\ result' = result
             \/ stage' = "over" /\ result' \in {"delivered", "refused"}
    BY <2>1
  <2> QED
    BY <2>1, <2>2, StepReceives
<1>5. ASSUME NEW n \in Lengths, Answered(n)
      PROVE  EInv'
  <2>1. PICK how \in {"delivered", "refused"} : Receives(n, End(how))
    BY <1>5 DEF Answered
  <2>2. /\ stage = "send" /\ Request
        /\ answer' = [n |-> n, read |-> ReadCapped(n, cfg.maxBody)]
        /\ IF answer'.read = Failed THEN End("too large")
           ELSE stage' = "over" /\ result' = how
    BY <2>1 DEF Receives, End
  <2>3. IF answer'.read = Failed THEN End("too large")
        ELSE \/ stage' = "send" /\ result' = result
             \/ stage' = "over" /\ result' \in {"delivered", "refused"}
    BY <2>1, <2>2
  <2> QED
    BY <2>2, <2>3, StepReceives
<1>6. CASE Unanswered
  BY <1>6, StepUnanswered
<1>7. CASE UNCHANGED evars
  <2>1. UNCHANGED <<stage, options, cfg, given, content, payload, query, asked, result, sent,
                    answer>>
    BY <1>7 DEF evars, client, call
  <2>2. /\ TheRequest' = TheRequest /\ Meant' = Meant /\ Bodies' = Bodies
        /\ Made(given \ options, cfg)' <=> Made(given \ options, cfg)
    BY <2>1 DEF TheRequest, Meant, SizeParam, Cap, Given, Bodies, Made
  <2> QED
    BY <2>1, <2>2 DEF EInv
<1> QED
  BY <1>1, <1>2, <1>3, <1>4, <1>5, <1>6, <1>7 DEF ENext

(* In every state of a call, the client is made of the options applied so  *)
(* far, and what was sent is the one request of the call.                  *)
THEOREM ExchangeInductive == CSpec => []EInv
<1>1. CInit => EInv
  BY PartInit, EInitInv
<1>2. EInv /\ [CNext]_cvars => EInv'
  BY PartStep, EInvStep
<1> QED
  BY <1>1, <1>2, PTL DEF CSpec

(* What is known of a call that got as far as sending, and how it ended.   *)
LEMMA CallFacts ==
  ASSUME EInv
  PROVE  /\ stage # "new" /\ result # "bad option" =>
              given \in OptionSets /\ given \cap Invalid = {} /\ cfg = Meant
         /\ result \in {"delivered", "too large"} => stage # "new"
         /\ sent # <<>> =>
              /\ stage # "new" /\ result # "bad option" /\ sent \in Seq({TheRequest})
              /\ payload = content.n /\ query = QueryOf(cfg, asked.size, asked.raw)
              /\ asked.size \in {0, 2} /\ asked.raw \in Raws
              /\ content.kind = "reader" => content.n <= Meant.maxBody
<1>1. stage # "new" /\ result # "bad option" =>
        given \in OptionSets /\ given \cap Invalid = {} /\ cfg = Meant
  BY DEF EInv
<1>2. ASSUME result \in {"delivered", "too large"}
      PROVE  stage # "new"
  <2>1. stage \in {"new", "ready"} => result = "none"
    BY DEF EInv
  <2>2. result # "none"
    BY <1>2
  <2> QED
    BY <2>1, <2>2
<1>3. ASSUME sent # <<>>
      PROVE  stage # "new" /\ result # "bad option" /\ sent \in Seq({TheRequest})
  <2>1. stage \in {"new", "ready"} => sent = <<>>
    BY DEF EInv
  <2>2. result = "bad option" => sent = <<>>
    BY DEF EInv
  <2>3. sent \in Seq({TheRequest})
    BY DEF EInv
  <2> QED
    BY <1>3, <2>1, <2>2, <2>3
<1>4. sent # <<>> =>
        /\ payload = content.n /\ query = QueryOf(cfg, asked.size, asked.raw)
        /\ asked.size \in {0, 2} /\ asked.raw \in Raws
        /\ content.kind = "reader" => content.n <= Meant.maxBody
  BY DEF EInv
<1> QED
  BY <1>1, <1>2, <1>3, <1>4

(* The query a call asks for, under the name this server listens to.       *)
LEMMA QueryIsHeard ==
  ASSUME NEW c, NEW param, c.sizeParam = param, NEW size \in {0, 2}, NEW raw \in Raws
  PROVE  LET q == QueryOf(c, size, raw) IN
         /\ \A k \in DOMAIN raw : k \in DOMAIN q /\ q[k] = raw[k]
         /\ size > 0 /\ param \notin DOMAIN raw => param \in DOMAIN q /\ q[param] = size
         /\ \A k \in DOMAIN q \ DOMAIN raw : size > 0 /\ k = param
<1> DEFINE D == DOMAIN raw \cup (IF size > 0 THEN {param} ELSE {})
           q == [k \in D |-> IF k \in DOMAIN raw THEN raw[k] ELSE size]
<1>1. QueryOf(c, size, raw) = q
  BY DEF QueryOf
<1>2. DOMAIN q = D
  OBVIOUS
<1>3. \A k \in D : q[k] = IF k \in DOMAIN raw THEN raw[k] ELSE size
  OBVIOUS
<1> HIDE DEF q
<1>4. /\ \A k \in DOMAIN raw : k \in DOMAIN q /\ q[k] = raw[k]
      /\ size > 0 /\ param \notin DOMAIN raw => param \in DOMAIN q /\ q[param] = size
      /\ \A k \in DOMAIN q \ DOMAIN raw : size > 0 /\ k = param
  BY <1>2, <1>3
<1> QED
  BY <1>1, <1>4

(* The options of a call of New may come in any order: the client they     *)
(* make is the one they stand for, New fails only when one of them is      *)
(* refused, and what a call asks for reaches the server under the names it *)
(* listens to (New, Option, buildQuery).                                   *)
THEOREM OptionsCommute == CSpec => []OptionsInAnyOrder
<1>1. ASSUME EInv
      PROVE  OptionsInAnyOrder
  <2>1. ASSUME stage \in {"ready", "send"}
        PROVE  /\ given \cap Invalid = {}
               /\ cfg = [version |-> Given("version", 9), sizeParam |-> SizeParam,
                         maxBody |-> IF Cap = MaxInt THEN MaxInt - 1 ELSE Cap]
    <3>1. stage \in {"ready", "send"} => result = "none"
      BY <1>1 DEF EInv
    <3>2. stage # "new" /\ result # "bad option"
      BY <2>1, <3>1
    <3> QED
      BY <1>1, <3>2, CallFacts DEF Meant
  <2>2. result = "bad option" => given \cap Invalid # {}
    BY <1>1 DEF EInv
  <2>3. ASSUME sent # <<>>
        PROVE  PageSizeIsHeard
    <3>1. /\ query = QueryOf(cfg, asked.size, asked.raw)
          /\ asked.size \in {0, 2} /\ asked.raw \in Raws
      BY <1>1, <2>3, CallFacts
    <3>2. cfg.sizeParam = SizeParam
      <4>1. cfg = Meant
        BY <1>1, <2>3, CallFacts
      <4> QED
        BY <4>1 DEF Meant
    <3>3. sent[1] = TheRequest
      <4>1. sent \in Seq({TheRequest})
        BY <1>1, <2>3, CallFacts
      <4>2. Len(sent) \in Nat
        BY <4>1
      <4>3. 1 \in 1..Len(sent)
        BY <2>3, <4>1, <4>2
      <4> QED
        BY <4>1, <4>3
    <3>4. sent[1].query = query
      BY <3>3 DEF TheRequest
    <3> QED
      BY <3>1, <3>2, <3>4, QueryIsHeard DEF PageSizeIsHeard
  <2> QED
    BY <2>1, <2>2, <2>3 DEF OptionsInAnyOrder
<1> QED
  BY <1>1, ExchangeInductive, PTL

(* A body is read whole or the call fails, and it fails only for a length  *)
(* above the caller's limit, or for the largest length there is            *)
(* (WithMaxBodySize, readCapped).                                          *)
THEOREM CapKept == CSpec => []CapIsExact
<1>1. ASSUME EInv
      PROVE  CapIsExact
  <2>1. ASSUME stage # "new", result # "bad option"
        PROVE  /\ Cap \in 1..MaxInt /\ Meant.maxBody \in 1..(MaxInt - 1)
               /\ Meant.maxBody <= Cap
               /\ Meant.maxBody < Cap => Cap = MaxInt /\ Meant.maxBody = MaxInt - 1
    <3>1. given \in OptionSets /\ given \cap Invalid = {}
      BY <1>1, <2>1, CallFacts
    <3> QED
      BY <3>1, MeantCap
  <2>2. MaxInt \in Nat
    BY LengthAssumption
  <2>3. ASSUME result = "delivered"
        PROVE  answer.read = answer.n /\ answer.n <= Cap
    <3>1. answer.read = answer.n /\ answer.n <= Meant.maxBody /\ answer.n \in 0..MaxInt
      BY <1>1, <2>3 DEF EInv
    <3>2. stage # "new"
      BY <1>1, <2>3, CallFacts
    <3> QED
      BY <2>1, <2>2, <2>3, <3>1, <3>2
  <2>4. ASSUME sent # <<>>, content.kind = "reader"
        PROVE  content.n <= Cap
    <3>1. content.n <= Meant.maxBody /\ stage # "new" /\ result # "bad option"
      BY <1>1, <2>4, CallFacts
    <3>2. content.n \in 0..MaxInt
      BY <1>1, LengthsOfBodies DEF EInv
    <3>3. Cap \in 1..MaxInt /\ Meant.maxBody \in 1..(MaxInt - 1) /\ Meant.maxBody <= Cap
      BY <2>1, <3>1
    <3> DEFINE m == Meant.maxBody
               n == content.n
    <3>4. n <= m /\ n \in 0..MaxInt
      BY <3>1, <3>2
    <3>5. m <= Cap /\ m \in 1..(MaxInt - 1) /\ Cap \in 1..MaxInt
      BY <3>3
    <3> HIDE DEF m, n
    <3>6. n <= Cap
      BY <2>2, <3>4, <3>5
    <3> QED
      BY <3>6 DEF n
  <2>5. ASSUME result = "too large"
        PROVE  LET n == IF sent = <<>> THEN content.n ELSE answer.n
               IN  n > Cap \/ n = MaxInt
    <3> DEFINE n == IF sent = <<>> THEN content.n ELSE answer.n
    <3>1. n \in 0..MaxInt /\ n > Meant.maxBody
      BY <1>1, <2>5 DEF EInv
    <3>2. stage # "new"
      BY <1>1, <2>5, CallFacts
    <3> HIDE DEF n
    <3>3. /\ Cap \in 1..MaxInt /\ Meant.maxBody \in 1..(MaxInt - 1)
          /\ Meant.maxBody <= Cap
          /\ Meant.maxBody < Cap => Cap = MaxInt /\ Meant.maxBody = MaxInt - 1
      BY <2>1, <2>5, <3>2
    <3>4. n > Cap \/ n = MaxInt
      <4> DEFINE m == Meant.maxBody
      <4>1. m < Cap => Cap = MaxInt /\ m = MaxInt - 1
        BY <3>3
      <4>2. m \in Nat /\ Cap \in Nat /\ n \in 0..MaxInt /\ n > m /\ m <= Cap
        BY <2>2, <3>1, <3>3
      <4> HIDE DEF m
      <4> QED
        BY <2>2, <4>1, <4>2
    <3> QED
      BY <3>4 DEF n
  <2> QED
    BY <2>3, <2>4, <2>5 DEF CapIsExact
<1> QED
  BY <1>1, ExchangeInductive, PTL

(* A request sent again after a 401 is the same request, with the whole of *)
(* the caller's body (exchange, encodeBody).                               *)
THEOREM ReplaysAreTheSame == CSpec => []ReplayIsTheSame
<1>1. ASSUME EInv
      PROVE  ReplayIsTheSame
  <2>1. ASSUME NEW i \in 1..Len(sent)
        PROVE  sent[i].body = content.n /\ sent[i].query = sent[1].query
    <3>1. sent \in Seq({TheRequest})
      BY <1>1 DEF EInv
    <3>2. Len(sent) \in Nat
      BY <3>1
    <3>3. sent # <<>> /\ 1 \in 1..Len(sent)
      BY <2>1, <3>2
    <3>4. sent[i] = TheRequest /\ sent[1] = TheRequest
      BY <2>1, <3>1, <3>3
    <3>5. payload = content.n
      BY <1>1, <3>3, CallFacts
    <3> QED
      BY <3>4, <3>5 DEF TheRequest
  <2> QED
    BY <2>1 DEF ReplayIsTheSame
<1> QED
  BY <1>1, ExchangeInductive, PTL
=============================================================================
