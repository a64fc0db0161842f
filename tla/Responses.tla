----------------------------- MODULE Responses -----------------------------
(***************************************************************************)
(* What the client makes of one HTTP response: the list and the detail     *)
(* decoder, the 9.0 {code,msg,data} envelope, the error it builds from a   *)
(* non-2xx answer, and what a login does with one (pagination.go,          *)
(* resource.go, errors.go, client.go).                                     *)
(*                                                                         *)
(* A body is abstracted to its form and, for a JSON object, to the state   *)
(* of each member the decoders look at.  A count, next or msg, a results   *)
(* or a detail that is null decodes like one that is absent, and is.       *)
(***************************************************************************)

Statuses == {"2xx", "400", "401", "403", "404", "gateway"}
Requests == {"list", "get", "write", "login"}

Lists    == {"rows", "none", "bad rows"}            \* arrays
Records  == {"record", "anonymous", "bad record"}   \* with an id, without, unreadable

(* The members of an object in a 2xx answer.  An id that is 0 or null is   *)
(* "zero", a previous link is as good as a next one.                       *)
Answers ==
  [form    : {"object"},
   id      : {"absent", "zero", "positive", "bad"},
   results : {"absent", "scalar"} \cup Lists,
   data    : {"absent", "null", "scalar"} \cup Lists \cup Records,
   count   : {"absent", "number", "bad"},
   next    : {"absent", "text", "bad"},
   code    : {"absent", "null", "zero", "nonzero", "bad"},
   msg     : {"absent", "text", "bad"},
   detail  : {"absent"},
   field   : {"absent"}]

(* The members of an object in any other answer: field stands for every    *)
(* member that newError takes for the messages about a field.              *)
Refusals ==
  [form    : {"object"},
   id      : {"absent"}, results : {"absent"}, data : {"absent"},
   count   : {"absent"}, next    : {"absent"},
   code    : {"absent", "nonzero"},
   msg     : {"absent", "text", "bad"},
   detail  : {"absent", "text"},
   field   : {"absent", "messages"}]

Bare == CHOOSE b \in Answers : \A m \in DOMAIN b \ {"form"} : b[m] = "absent"

(* A body that is no object: nothing but white space, the literal null,    *)
(* HTML, or other text, be it a JSON value or not.                         *)
Formless == {[Bare EXCEPT !.form = f] : f \in {"blank", "null", "html", "text"}}

-----------------------------------------------------------------------------
(* Page.UnmarshalJSON.  The result is the rows, or why there are none.     *)

DecodePage(b) ==
  CASE b.results \in {"scalar", "bad rows"}        -> "decode error"
    [] "bad" \in {b.count, b.next, b.code, b.msg}  -> "decode error"
    [] OTHER ->
         IF b.results # "absent" THEN b.results
         ELSE IF b.data \notin {"absent", "null"}
              THEN IF b.data \in {"rows", "none"} THEN b.data ELSE "decode error"
         ELSE IF b.data = "absent" /\ {b.count, b.next, b.msg} = {"absent"}
                                   /\ b.code \in {"absent", "null"}
              THEN "decode error"
         ELSE "none"

(* Mutant of IsEnvelope: recognized by the name of its code alone.         *)
IsEnvelopeByCode(b) == b.code \in {"null", "zero", "nonzero"}

(* detail.UnmarshalJSON.  An envelope has no id, a code that is a number   *)
(* (null reads as 0), and a msg or data beside it; anything else is the    *)
(* record itself.                                                          *)
IsEnvelope(b) ==
  /\ b.id = "absent"
  /\ b.code \in {"null", "zero", "nonzero"}
  /\ b.msg # "absent" \/ b.data # "absent"

Unwrapped(b) ==
  CASE b.data = "record"                          -> "record"
    [] b.data \in {"absent", "null", "anonymous"} -> "not a record"
    [] OTHER                                      -> "decode error"

(* The literal null is an object without members to encoding/json, but not *)
(* to extraFields, which the types that keep undeclared members go through.*)
Itself(b, keeps) ==
  CASE b.id = "bad" \/ (b.form = "null" /\ keeps) -> "decode error"
    [] b.id = "positive"                          -> "record"
    [] OTHER                                      -> "not a record"

DecodeRecord(b, keeps) ==
  IF b.msg = "bad" THEN "decode error"
  ELSE IF ~IsEnvelope(b) THEN Itself(b, keeps)
  ELSE IF b.code = "nonzero" THEN "zero" ELSE Unwrapped(b)

(* Mutant of EnvelopeCode: a detail answer has none.                       *)
EnvelopeCodeOfLists(kind, b) == b.code = "nonzero" /\ kind = "list"

(* The code the decoder kept.                                              *)
EnvelopeCode(kind, b) == b.code = "nonzero" /\ (kind = "list" \/ IsEnvelope(b))

(* request: a blank body is not decoded at all and leaves the zero value;  *)
(* a code the decoder kept is an *Error whatever was decoded beside it.    *)
Decode(kind, keeps, b) ==
  LET d == IF kind = "list" THEN DecodePage(b) ELSE DecodeRecord(b, keeps) IN
  CASE b.form = "blank"                -> "zero"
    [] b.form \in {"html", "text"}     -> "decode error"
    [] b.form \in {"object", "null"}   ->
         IF EnvelopeCode(kind, b) /\ d \notin {"decode error", "not a record"}
         THEN "api error" ELSE d

-----------------------------------------------------------------------------
(* newError keeps the server's message, or the text of a body that is not  *)
(* a JSON object and does not look like HTML, and the field errors.        *)
HasMessage(b) ==
  b.form = "text" \/ "text" \in {b.detail, b.msg}

HasFields(b) == b.field = "messages"

(* Error.Is, for the sentinels of errors.go.                               *)
Sentinels(status, login) ==
       (IF login \/ status \in {"401", "403"} THEN {"ErrUnauthorized"} ELSE {})
  \cup (IF status = "404" THEN {"ErrNotFound"} ELSE {})
  \cup (IF status = "400" THEN {"ErrValidation"} ELSE {})

IsLoginRejection(status, b) ==
  status \in {"401", "403"} \/ (status = "400" /\ HasFields(b))

(* Mutant of Suspends: whoever refused the login.                          *)
SuspendsAnyway(status, b) == IsLoginRejection(status, b)

(* Login: which refusals suspend the automatic login.                      *)
Suspends(status, b) ==
  IsLoginRejection(status, b) /\ (HasMessage(b) \/ HasFields(b))

(* Mutant of Outcome: a write without a record is a decoding problem.      *)
OutcomeUnnamed(kind, keeps, status, b) ==
  IF status # "2xx" THEN "api error" ELSE Decode(kind, keeps, b)

(* one: a write that was accepted without a record is named as that.       *)
Outcome(kind, keeps, status, b) ==
  IF status # "2xx" THEN "api error"
  ELSE IF kind = "write" /\ Decode(kind, keeps, b) = "not a record" THEN "unconfirmed"
  ELSE Decode(kind, keeps, b)

-----------------------------------------------------------------------------
VARIABLES
  kind,      \* what was asked for
  keeps,     \* whether records of its type keep members they do not declare:
             \* Employee, Terminal, Transaction, and not Department, Area, Position
  status,    \* the status of the answer
  body,      \* its body
  outcome,   \* what the caller gets; "pending" before
  matches,   \* the sentinels the error matches, for an *Error
  suspended  \* whether a login's answer suspends the automatic login

rvars == <<kind, keeps, status, body, outcome, matches, suspended>>

RInit ==
  /\ kind \in Requests
  /\ keeps \in (IF kind \in {"get", "write"} THEN BOOLEAN ELSE {FALSE})
  /\ status \in Statuses
  /\ kind = "login" => status # "2xx"       \* a token: see module Session
  /\ body \in Formless \cup (IF status = "2xx" THEN Answers ELSE Refusals)
  /\ outcome = "pending"
  /\ matches = {}
  /\ suspended = FALSE

Receive ==
  /\ outcome = "pending"
  /\ outcome' = Outcome(kind, keeps, status, body)
  /\ matches' = Sentinels(status, kind = "login" /\ IsLoginRejection(status, body))
  /\ suspended' = (kind = "login" /\ Suspends(status, body))
  /\ UNCHANGED <<kind, keeps, status, body>>

-----------------------------------------------------------------------------
Delivered == {"rows", "none", "record", "zero"}

(* A failure the server reports with status 200 is never taken for data,   *)
(* whatever else the envelope holds and whichever decoder reads it         *)
(* (request, Page and detail).                                             *)
FailureIsNeverData ==
  body.code = "nonzero" /\ body.msg = "text" /\ body.id = "absent"
    => outcome \notin Delivered

(* Nothing is made up: rows are the rows of the body's list and a record   *)
(* is the body or its data, read with an identifier; and nothing is        *)
(* withheld: a body that has the members of a good answer of either server *)
(* generation delivers them, a record also when custom attributes of its   *)
(* own are called code or data, and when one called msg is a string.  The  *)
(* exception to that comment of detail is a record with an attribute msg   *)
(* of any other type: it is refused, as detail reads msg before it looks   *)
(* for an envelope (comments of Page and detail; resource.go:54).          *)
AnswerIsRead ==
  status = "2xx" /\ outcome # "pending" =>
    /\ outcome = "rows" => "rows" \in {body.results, body.data}
    /\ outcome = "record" => body.id = "positive" \/ body.data = "record"
    /\ kind = "list" /\ "bad" \notin {body.count, body.next, body.msg}
                     /\ body.code \in {"absent", "zero"} =>
         /\ body.results = "rows" => outcome = "rows"
         /\ body.results = "absent" /\ body.data = "rows" => outcome = "rows"
    /\ kind \in {"get", "write"} =>
         \/ /\ body.id = "positive" => outcome = "record"
            /\ body.id = "absent" /\ body.code = "zero" /\ body.data = "record"
                 => outcome = "record"
         \/ body.msg = "bad" /\ outcome = "decode error"

(* A readable object that holds no record: the object has no identifier    *)
(* and is no envelope, or it is one that reports success and its data has  *)
(* none.  The literal null is such an object where extraFields does not    *)
(* look at it.                                                             *)
HoldsNoRecord ==
  \/ body.form = "null" /\ ~keeps
  \/ /\ body.form = "object" /\ body.msg # "bad"
     /\ \/ body.id = "zero"
        \/ body.id = "absent" /\ body.code \in {"absent", "bad"}
        \/ body.id = "absent" /\ {body.msg, body.data} = {"absent"}
        \/ /\ body.id = "absent" /\ body.code \in {"null", "zero"}
           /\ body.data \in {"absent", "null", "anonymous"}

(* A write is reported as unconfirmed exactly when the server accepted it  *)
(* with a readable object that holds no record, be it bare or an envelope, *)
(* and never as a failure to be repeated; a read that is answered the same *)
(* is an error of its own (one, errNotARecord, ErrWriteUnconfirmed).       *)
UnconfirmedIsNamed ==
  outcome # "pending" =>
    /\ outcome = "unconfirmed" <=> kind = "write" /\ status = "2xx" /\ HoldsNoRecord
    /\ outcome = "not a record" <=> kind = "get" /\ status = "2xx" /\ HoldsNoRecord

(* A refused login suspends the automatic login only with a JSON object    *)
(* that says why: a message beside the status 401 or 403, or the messages  *)
(* about a field that a 400 carries; not a bare status, a 404, a gateway's *)
(* answer, or an HTML page.  The exception to the comment of Login is a    *)
(* plain text beside 401 or 403, a proxy's perhaps, which newError takes   *)
(* for the server's message (errors.go:204, against client.go:302).  And   *)
(* an error that suspends tells the caller that it is "unauthorized".      *)
SuspendedByVerdict ==
  suspended =>
    /\ kind = "login" /\ "ErrUnauthorized" \in matches
    /\ \/ body.form = "object" /\ body.field = "messages"
                               /\ status \in {"400", "401", "403"}
       \/ body.form = "object" /\ "text" \in {body.msg, body.detail}
                               /\ status \in {"401", "403"}
       \/ body.form = "text" /\ status \in {"401", "403"}

(* README.md, Paginating: a body carrying no count, results or data at all *)
(* is an error rather than an empty page.  Here it carries nothing but a   *)
(* code or a msg.                                                          *)
NoListIsAnError ==
  /\ kind = "list" /\ status = "2xx" /\ body.form = "object"
  /\ \A m \in DOMAIN body \ {"form", "code", "msg"} : body[m] = "absent"
  => outcome \notin Delivered

(* errors.go, ErrWriteUnconfirmed: it is matched when the server accepted  *)
(* a create or an update with 2xx but answered with no record to return.   *)
WriteReturnsARecord ==
  kind = "write" /\ status = "2xx" => outcome # "zero"
=============================================================================
