------------------------------ MODULE Exchange ------------------------------
(***************************************************************************)
(* One client and one call: New applies the options in the order the       *)
(* caller passed them and resolves what they leave open (options.go,       *)
(* client.go); a filter becomes a query (pagination.go); exchange encodes  *)
(* the body, sends it, sends it again when the first answer is a 401 and   *)
(* the session has a fresh token, and reads the answer up to the cap.      *)
(*                                                                         *)
(* A body is its length; a reader gives each of its bytes once.  An int64  *)
(* is scaled down to -(MaxInt + 1) .. MaxInt and wraps around.             *)
(***************************************************************************)
EXTENDS Integers, Sequences, SequencesExt

CONSTANTS
  MaxInt,      \* math.MaxInt64
  DefaultCap,  \* defaultMaxBody
  Lengths      \* bound: the lengths of bodies

ASSUME LengthAssumption == /\ MaxInt \in Nat \ {0}
                           /\ DefaultCap \in 1..(MaxInt - 1)
                           /\ Lengths \subseteq 0..MaxInt

Wrap(n) == ((n + MaxInt + 1) % (2 * MaxInt + 2)) - MaxInt - 1

(* An option is a setting and its value; those of the last line fail.      *)
Valid   == {<<"version", 8>>, <<"version", 9>>, <<"sizeParam", "per">>} \cup
           ({"maxBody"} \X {1, 2, MaxInt})
Invalid == {<<"version", 7>>, <<"sizeParam", "">>, <<"maxBody", 0>>}

(* The options of one call of New: each setting at most once.              *)
OptionSets == {S \in SUBSET (Valid \cup Invalid) :
                 \A a, b \in S : a[1] = b[1] => a = b}

Defaults == [version |-> 9, sizeParam |-> "", maxBody |-> DefaultCap]

(* Mutant of Setting: the cap is taken as it is.                           *)
SettingUnclamped(o) == o[2]

(* WithMaxBodySize keeps the cap below MaxInt.                             *)
Setting(o) == IF o = <<"maxBody", MaxInt>> THEN MaxInt - 1 ELSE o[2]

PageSizeParam(version) == IF version = 8 THEN "page_size" ELSE "limit"

(* Mutant of Apply: the parameter is derived as soon as a version is set.  *)
ApplyDerives(c, o) ==
  LET d == [c EXCEPT ![o[1]] = Setting(o)]
  IN  IF o[1] = "version" THEN [d EXCEPT !.sizeParam = PageSizeParam(d.version)] ELSE d

Apply(c, o) == [c EXCEPT ![o[1]] = Setting(o)]

-----------------------------------------------------------------------------
(* buildQuery, with one typed field: zero is not sent, raw parameters      *)
(* come last.                                                              *)
QueryOf(c, size, raw) ==
  [k \in DOMAIN raw \cup (IF size > 0 THEN {c.sizeParam} ELSE {}) |->
     IF k \in DOMAIN raw THEN raw[k] ELSE size]

Raws == UNION {[D -> {3}] : D \in SUBSET {"page_size", "limit", "per"}}

(* readCapped of n bytes: those it read, or Failed.                        *)
Failed == -1

ReadCapped(n, limit) ==
  LET window == Wrap(limit + 1)
      data   == IF window <= 0 THEN 0 ELSE IF n < window THEN n ELSE window
  IN  IF data > limit THEN Failed ELSE data

Bodies == [kind : {"bytes", "reader"}, n : Lengths] \cup [kind : {"none"}, n : {0}]

VARIABLES
  stage,     \* "new", "ready", "send", "over"
  options,   \* the options still to apply
  cfg,       \* the client
  content,   \* the body of the call
  payload,   \* the length of what encodeBody made of it
  query,     \* the query of the call
  result,    \* "none", "bad option", "too large", "delivered", "refused"
  given,     \* history: the options passed to New
  asked,     \* history: the page size and the raw parameters asked for
  sent,      \* history: the requests the server received
  answer     \* history: the length of its last answer, and what was read of it

client == <<options, cfg, given>>
call   == <<content, payload, query, asked>>
evars  == <<stage, client, call, result, sent, answer>>

NoBody == [kind |-> "none", n |-> 0]

EInit ==
  /\ stage = "new"
  /\ options \in OptionSets
  /\ cfg = Defaults
  /\ given = options
  /\ content = NoBody
  /\ payload = 0
  /\ query = <<>>
  /\ asked = [size |-> 0, raw |-> <<>>]
  /\ result = "none"
  /\ sent = <<>>
  /\ answer = [n |-> 0, read |-> 0]

End(how) == stage' = "over" /\ result' = how

Option(o) ==
  /\ stage = "new"
  /\ o \in options
  /\ IF o \in Invalid THEN End("bad option") /\ UNCHANGED cfg
     ELSE cfg' = Apply(cfg, o) /\ UNCHANGED <<stage, result>>
  /\ options' = options \ {o}
  /\ UNCHANGED <<given, call, sent, answer>>

Resolve ==
  /\ stage = "new"
  /\ options = {}
  /\ cfg' = IF cfg.sizeParam # "" THEN cfg
            ELSE [cfg EXCEPT !.sizeParam = PageSizeParam(cfg.version)]
  /\ stage' = "ready"
  /\ UNCHANGED <<options, given, call, result, sent, answer>>

(* encodeBody buffers a reader to its end; bytes are sent unchanged.       *)
Encode(b) == IF b.kind = "reader" THEN ReadCapped(b.n, cfg.maxBody) ELSE b.n

Call(b, size, raw) ==
  /\ stage = "ready"
  /\ content' = b
  /\ asked' = [size |-> size, raw |-> raw]
  /\ query' = QueryOf(cfg, size, raw)
  /\ payload' = Encode(b)
  /\ IF payload' = Failed THEN End("too large") ELSE stage' = "send" /\ UNCHANGED result
  /\ UNCHANGED <<client, sent, answer>>

(* Mutant of Request: a reader that was not buffered gives nothing more.   *)
RequestStreams ==
  /\ sent' = Append(sent, [query |-> query, body |->
               IF content.kind = "reader" /\ sent # <<>> THEN 0 ELSE payload])
  /\ UNCHANGED <<client, call>>

(* send: the request, with the payload as it was encoded.                  *)
Request ==
  /\ sent' = Append(sent, [query |-> query, body |-> payload])
  /\ UNCHANGED <<client, call>>

(* send, when an answer of n bytes arrives, whatever its status.           *)
Receives(n, then) ==
  /\ stage = "send"
  /\ Request
  /\ answer' = [n |-> n, read |-> ReadCapped(n, cfg.maxBody)]
  /\ IF answer'.read = Failed THEN End("too large") ELSE then

(* The first answer is a 401, and the session has a fresh token.           *)
Unauthorized(n) == sent = <<>> /\ Receives(n, UNCHANGED <<stage, result>>)

(* Delivered with a status of 2xx, refused with any other.                 *)
Answered(n) == \E how \in {"delivered", "refused"} : Receives(n, End(how))

Unanswered ==
  /\ stage = "send"
  /\ Request
  /\ End("refused")
  /\ UNCHANGED answer

ENext ==
  \/ \E o \in options : Option(o)
  \/ Resolve
  \/ \E b \in Bodies, size \in {0, 2}, raw \in Raws : Call(b, size, raw)
  \/ \E n \in Lengths : Unauthorized(n) \/ Answered(n)
  \/ Unanswered

-----------------------------------------------------------------------------
(* What the options set for a member of the client, or the default.        *)
Given(setting, default) ==
  LET S == {o \in given : o[1] = setting}
  IN  IF S = {} THEN default ELSE (CHOOSE o \in S : TRUE)[2]

SizeParam == Given("sizeParam", PageSizeParam(Given("version", 9)))
Cap       == Given("maxBody", DefaultCap)

PageSizeIsHeard ==
  LET q == sent[1].query IN
  /\ \A k \in DOMAIN asked.raw : k \in DOMAIN q /\ q[k] = asked.raw[k]
  /\ asked.size > 0 /\ SizeParam \notin DOMAIN asked.raw =>
       SizeParam \in DOMAIN q /\ q[SizeParam] = asked.size
  /\ \A k \in DOMAIN q \ DOMAIN asked.raw : asked.size > 0 /\ k = SizeParam

(* Options may be passed in any order: the client they make is the same,   *)
(* with what they leave open derived from all of them, and New fails if    *)
(* and only if one of them is invalid.  The page size is asked for by the  *)
(* name this server listens to, and every raw parameter is sent as it was  *)
(* given, that one included (comments of Option, New and ListOptions).     *)
OptionsInAnyOrder ==
  /\ stage \in {"ready", "send"} =>
       /\ given \cap Invalid = {}
       /\ cfg = [version |-> Given("version", 9), sizeParam |-> SizeParam,
                 maxBody |-> IF Cap = MaxInt THEN MaxInt - 1 ELSE Cap]
  /\ result = "bad option" => given \cap Invalid # {}
  /\ sent # <<>> => PageSizeIsHeard

(* A body is read whole or the call fails: never more than the cap, never  *)
(* a part of it, and the cap that stands for no limit is no smaller than   *)
(* the largest body but one (WithMaxBodySize, readCapped).                 *)
CapIsExact ==
  /\ result = "delivered" => answer.read = answer.n /\ answer.n <= Cap
  /\ sent # <<>> /\ content.kind = "reader" => content.n <= Cap
  /\ result = "too large" =>
       LET n == IF sent = <<>> THEN content.n ELSE answer.n
       IN  n > Cap \/ n = MaxInt

(* A request that is sent again after a 401 is the same request, with the  *)
(* same query and the whole of the caller's body, a reader's included      *)
(* (exchange, encodeBody).                                                 *)
ReplayIsTheSame ==
  \A i \in 1..Len(sent) : sent[i].body = content.n /\ sent[i].query = sent[1].query
=============================================================================
