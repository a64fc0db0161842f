----------------------------- MODULE Attributes -----------------------------
(***************************************************************************)
(* Custom attributes of an employee (types.go, employees.go): a record is  *)
(* decoded into the declared fields and, for the members that are not      *)
(* declared, into Extra; the caller changes some fields and sends them     *)
(* with Extra, its own additions included.                                 *)
(*                                                                         *)
(* A member is known by how its name relates to the declared ones: it is   *)
(* the name of a field, that of the password hash, spelled like a field    *)
(* in another case, or foreign.  encoding/json does not mind the case, the *)
(* scan for Extra does.                                                    *)
(***************************************************************************)
EXTENDS Naturals, Sequences

CONSTANTS
  Values,      \* values of a member
  MaxMembers   \* bound: members of the object, with repetitions

ASSUME MembersAssumption == MaxMembers \in Nat

Field    == "department"
Alike    == "Department"
Password == "self_password"
Names    == {Field, Alike, Password, "custom"}

Declared == {Field}                \* jsonKeys of Employee
Settable == {Field, Password}      \* of EmployeeParams

Objects == UNION {[1..n -> Names \X Values] : n \in 0..MaxMembers}
Maps(D) == UNION {[K -> Values] : K \in SUBSET D}

(* The last member called one of the names, for which there has to be one. *)
LastOf(o, names) ==
  LET called == {i \in 1..Len(o) : o[i][1] \in names}
  IN  o[CHOOSE i \in called : \A j \in called : j <= i][2]

NamesOf(o) == {o[i][1] : i \in 1..Len(o)}

(* Mutant of Undeclared: the password hash is an attribute like any other. *)
UndeclaredWithHash(o) == NamesOf(o) \ Declared

(* Employee.UnmarshalJSON: the hash is dropped.                            *)
Undeclared(o) == NamesOf(o) \ (Declared \cup {Password})

(* extraFields.                                                            *)
ExtraOf(o) == [k \in Undeclared(o) |-> LastOf(o, {k})]

(* encoding/json.                                                          *)
FieldsOf(o) ==
  [k \in {f \in Declared : NamesOf(o) \cap {f, Alike} # {}} |-> LastOf(o, {k, Alike})]

(* Mutant of Merge: the struct's value is kept.                            *)
MergeQuietly(set, extra) ==
  [ok |-> TRUE, object |-> [k \in DOMAIN set \cup DOMAIN extra |->
                              IF k \in DOMAIN set THEN set[k] ELSE extra[k]]]

(* mergeExtra: a key that is set already is an error.                      *)
Merge(set, extra) ==
  IF DOMAIN set \cap DOMAIN extra # {} THEN [ok |-> FALSE, object |-> <<>>]
  ELSE [ok |-> TRUE, object |-> [k \in DOMAIN set \cup DOMAIN extra |->
                                   IF k \in DOMAIN set THEN set[k] ELSE extra[k]]]

VARIABLES
  object,   \* the members of the record, as the server sent them
  fields,   \* the declared fields the client decoded
  extra,    \* Extra, as decoded or as the caller extended it
  own,      \* what the caller added to Extra
  set,      \* the fields the caller set
  encoded   \* what is sent; <<>> before

avars == <<object, fields, extra, own, set, encoded>>

AInit ==
  /\ object \in Objects
  /\ fields = FieldsOf(object)
  /\ extra = ExtraOf(object)
  /\ own = <<>>
  /\ set = <<>>
  /\ encoded = <<>>

(* EmployeeParams.MarshalJSON of some fields and of Extra, to which the    *)
(* caller may have added attributes of any name.                           *)
Send(s, more) ==
  /\ encoded = <<>>
  /\ set' = s
  /\ own' = more
  /\ extra' = [k \in DOMAIN extra \cup DOMAIN more |->
                 IF k \in DOMAIN more THEN more[k] ELSE extra[k]]
  /\ encoded' = Merge(set', extra')
  /\ UNCHANGED <<object, fields>>

ANext == \E s \in Maps(Settable), more \in Maps({Field, "custom"}) : Send(s, more)

-----------------------------------------------------------------------------
(* What the server sent of the attributes goes back to it: sending Extra   *)
(* as it was read, with any fields set, is no error and has every          *)
(* undeclared member with its value, and the hash of the password only if  *)
(* the caller set one (Employee.UnmarshalJSON, mergeExtra).                *)
AttributesComeBack ==
  encoded # <<>> /\ own = <<>> =>
    /\ encoded.ok
    /\ \A k \in NamesOf(object) \ {Field, Password} :
         k \in DOMAIN encoded.object /\ encoded.object[k] = LastOf(object, {k})
    /\ Password \in DOMAIN encoded.object => Password \in DOMAIN set

(* Nothing the caller meant to send is dropped: an encoded payload has     *)
(* every field that was set and every attribute that was added, each with  *)
(* the caller's value (comment of mergeExtra).                             *)
NothingIsDropped ==
  encoded # <<>> /\ encoded.ok =>
    /\ \A k \in DOMAIN set : encoded.object[k] = set[k]
    /\ \A k \in DOMAIN own : encoded.object[k] = own[k]
=============================================================================
