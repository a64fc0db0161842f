------------------------------- MODULE Codecs -------------------------------
(***************************************************************************)
(* The parts of the client that keep no state between calls, side by side: *)
(* what it makes of a response, of a number, of the members of a record,   *)
(* of a time, and of its options and one call.  They share nothing; one of *)
(* them is at work in a behavior, and the others stay as they are.         *)
(***************************************************************************)
EXTENDS Responses, Numbers, Attributes, Exchange, ClockProperties

VARIABLE part   \* the part at work

cvars == <<part, rvars, nvars, avars, evars, clock>>

Blank == [form |-> "blank", n |-> 0]

(* What the parts that are not at work have of their inputs: any one.      *)
SomeHost == CHOOSE h \in HostInts : TRUE
SomeZone == CHOOSE z \in Zones : TRUE

CInit ==
  /\ part \in {"response", "number", "attributes", "exchange", "clock"}
  /\ part = "response" \/ (kind = "list" /\ status = "2xx" /\ body = Bare)
  /\ part = "number" \/ (text = Blank /\ expanded = FALSE /\ host = SomeHost)
  /\ part = "attributes" \/ object = <<>>
  /\ part = "exchange" \/ options = {}
  /\ part = "clock" \/ (zone = SomeZone /\ type = "Date")
  /\ RInit /\ NInit /\ AInit /\ EInit /\ Init

CNext ==
  \/ part = "response"   /\ Receive /\ UNCHANGED <<part, nvars, avars, evars, clock>>
  \/ part = "number"     /\ NRead   /\ UNCHANGED <<part, rvars, avars, evars, clock>>
  \/ part = "attributes" /\ ANext   /\ UNCHANGED <<part, rvars, nvars, evars, clock>>
  \/ part = "exchange"   /\ ENext   /\ UNCHANGED <<part, rvars, nvars, avars, clock>>
  \/ part = "clock"      /\ Next    /\ UNCHANGED <<part, rvars, nvars, avars, evars>>

CSpec == CInit /\ [][CNext]_cvars
=============================================================================
