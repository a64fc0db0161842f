----------------------------- MODULE WalkProofs -----------------------------
(***************************************************************************)
(* The safety of a walk, for any parameters, any first query, any page     *)
(* size and any server.                                                    *)
(***************************************************************************)
EXTENDS Walk, TLAPS

(* The queries asked are among the queries seen, and the one about to be   *)
(* asked is new.                                                           *)
Fresh ==
  /\ cur \in seen
  /\ \A i \in 1..Len(asked) : asked[i] \in seen
  /\ at = "fetch" => \A i \in 1..Len(asked) : asked[i] # cur

(* What was served is what the consumer has, followed by what is left of   *)
(* the current page.                                                       *)
Account ==
  /\ Len(served) = Len(got) + (Len(page) - handed)
  /\ \A i \in handed + 1 .. Len(page) : page[i] = served[Len(got) + (i - handed)]
  /\ at = "fetch" => page = <<>> /\ handed = 0
  /\ outcome = "complete" => handed = Len(page) /\ link = NoLink /\ at = "over"
  /\ at = "over" \/ outcome = "none"

IInv == TypeOK /\ AsksOnce /\ Fresh /\ InOrder /\ Account

-----------------------------------------------------------------------------
(* A link laid over a query is a query.                                    *)
LEMMA OverlayTyped ==
  ASSUME NEW q \in Queries, NEW l \in Queries
  PROVE  Overlay(q, l) \in Queries
<1>1. PICK D \in SUBSET Names : q \in [D -> Values]
  BY DEF Queries
<1>2. PICK E \in SUBSET Names : l \in [E -> Values]
  BY DEF Queries
<1>3. Overlay(q, l) \in [D \cup E -> Values]
  BY <1>1, <1>2 DEF Overlay
<1>4. QED
  BY <1>3 DEF Queries

(* The rows of a page are a sequence of rows.                              *)
LEMMA RowsTyped ==
  ASSUME NEW rows \in PageRows
  PROVE  rows \in Seq(Rows)
BY SizeAssumption DEF PageRows, SizeAssumption

(* The position on a page is a number no larger than its length.           *)
LEMMA Lengths ==
  ASSUME TypeOK
  PROVE  /\ Len(got) \in Nat /\ Len(served) \in Nat /\ Len(page) \in Nat
         /\ handed \in Nat /\ handed <= Len(page)
BY DEF TypeOK

(* The account is right when a walk begins.                                *)
LEMMA InitIInv == Init => IInv
<1> SUFFICES ASSUME Init PROVE IInv
  OBVIOUS
<1>1. TypeOK
  BY StartAssumption DEF Init, TypeOK, StartAssumption, Links
<1>2. QED
  BY <1>1 DEF Init, IInv, AsksOnce, Fresh, InOrder, Account

(* A page, or an error, is recorded under a query that was not asked yet.  *)
LEMMA FetchStep ==
  ASSUME IInv, NEW rows \in PageRows, NEW next \in Links, Fetch(rows, next)
  PROVE  IInv'
<1> USE DEF IInv
<1>1. rows \in Seq(Rows)
  BY RowsTyped
<1>2. TypeOK'
  BY <1>1, SMT DEF TypeOK, Fetch
<1>3. AsksOnce'
  BY SMT DEF TypeOK, AsksOnce, Fresh, Fetch
<1>4. Fresh'
  BY SMT DEF TypeOK, Fresh, Fetch
<1>5. InOrder'
  BY <1>1, SMT DEF TypeOK, InOrder, Fetch
<1>6. Account'
  <2>1. /\ at = "fetch" /\ at' = "rows" /\ page' = rows /\ handed' = 0
        /\ served' = served \o rows /\ got' = got /\ outcome' = outcome
    BY DEF Fetch
  <2>2. Len(served) = Len(got) /\ outcome = "none"
    BY <2>1, Lengths, SMT DEF Account
  <2>3. Len(served') = Len(got') + (Len(page') - handed')
    <3>1. Len(served \o rows) = Len(served) + Len(rows) /\ Len(rows) \in Nat
      BY <1>1, SMT DEF TypeOK
    <3>2. Len(page') = Len(rows) /\ handed' = 0 /\ Len(got') = Len(got)
      BY <2>1
    <3>3. QED
      BY <2>1, <2>2, <3>1, <3>2, Lengths, SMT
  <2>4. ASSUME NEW i \in handed' + 1 .. Len(page')
        PROVE  page'[i] = served'[Len(got') + (i - handed')]
    BY <1>1, <2>1, <2>2, <2>4, Lengths, SMT DEF TypeOK
  <2>5. QED
    BY <2>1, <2>2, <2>3, <2>4 DEF Account
<1>7. QED
  BY <1>2, <1>3, <1>4, <1>5, <1>6

(* A failed fetch keeps the account as well: its query was not asked yet.  *)
LEMMA FailStep ==
  ASSUME IInv, FetchFails
  PROVE  IInv'
<1> USE DEF IInv
<1>1. TypeOK'
  BY SMT DEF TypeOK, FetchFails, End
<1>2. AsksOnce'
  BY SMT DEF TypeOK, AsksOnce, Fresh, FetchFails
<1>3. Fresh'
  BY SMT DEF TypeOK, Fresh, FetchFails, End
<1>4. InOrder'
  BY DEF InOrder, FetchFails
<1>5. Account'
  BY DEF Account, FetchFails, End
<1>6. QED
  BY <1>1, <1>2, <1>3, <1>4, <1>5

(* A row moves from what is left of the page to what the consumer has.     *)
LEMMA YieldStep ==
  ASSUME IInv, NEW goOn \in BOOLEAN, Yield(goOn)
  PROVE  IInv'
<1> USE DEF IInv
<1>1. /\ at' \in {at, "over"} /\ at = "rows"
      /\ outcome' \in {outcome, "stopped"} /\ (outcome' = outcome \/ at' = "over")
      /\ handed < Len(page) /\ handed' = handed + 1
      /\ got' = Append(got, page[handed + 1])
      /\ UNCHANGED <<cur, seen, page, link, asked, served>>
  BY DEF Yield, End
<1>2. TypeOK'
  BY <1>1, SMT DEF TypeOK
<1>3. AsksOnce' /\ Fresh'
  BY <1>1 DEF AsksOnce, Fresh
<1>4. Len(got') = Len(got) + 1 /\ \A i \in 1..Len(got) : got'[i] = got[i]
  BY <1>1, SMT DEF TypeOK
<1>5. got'[Len(got) + 1] = page[handed + 1]
  BY <1>1, SMT DEF TypeOK
<1>6. page[handed + 1] = served[Len(got) + 1]
  <2>1. handed + 1 \in handed + 1 .. Len(page) /\ (handed + 1) - handed = 1
    BY <1>1, Lengths, SMT
  <2>2. QED
    BY <2>1 DEF Account
<1>7. InOrder'
  <2>1. Len(got') <= Len(served')
    BY <1>1, <1>4, Lengths, SMT DEF Account
  <2>2. ASSUME NEW i \in 1..Len(got')  PROVE  got'[i] = served'[i]
    <3>1. CASE i \in 1..Len(got)
      BY <1>1, <1>4, <3>1 DEF InOrder
    <3>2. CASE i = Len(got) + 1
      BY <1>1, <1>5, <1>6, <3>2
    <3>3. QED
      BY <1>4, <3>1, <3>2, Lengths, SMT
  <2>3. QED
    BY <2>1, <2>2 DEF InOrder
<1>8. Account'
  <2>1. Len(served') = Len(got') + (Len(page') - handed')
    BY <1>1, <1>4, Lengths, SMT DEF Account
  <2>2. ASSUME NEW i \in handed' + 1 .. Len(page')
        PROVE  page'[i] = served'[Len(got') + (i - handed')]
    <3>1. i \in handed + 1 .. Len(page)
      BY <1>1, Lengths, SMT
    <3>2. Len(got') + (i - handed') = Len(got) + (i - handed)
      <4>1. handed' = handed + 1 /\ Len(got') = Len(got) + 1
        BY <1>1, <1>4
      <4>2. handed \in Nat /\ Len(got) \in Nat /\ i \in Nat
        BY <3>1, Lengths
      <4>3. QED
        BY <4>1, <4>2, SMT
    <3>3. QED
      BY <1>1, <3>1, <3>2 DEF Account
  <2>3. QED
    BY <1>1, <2>1, <2>2 DEF Account
<1>9. QED
  BY <1>2, <1>3, <1>7, <1>8

(* Turning the page moves on to a query that was never asked, or ends the  *)
(* walk with nothing left of the page.                                     *)
LEMMA TurnStep ==
  ASSUME IInv, Turn
  PROVE  IInv'
<1> USE DEF IInv
<1>1. CASE LastPage
  <2>1. TypeOK'
    BY <1>1, SMT DEF TypeOK, LastPage, End
  <2>2. QED
    BY <1>1, <2>1 DEF LastPage, HandedOver, End, AsksOnce, Fresh, InOrder, Account
<1>2. CASE DeadEnd
  <2>1. TypeOK'
    BY <1>2, SMT DEF TypeOK, DeadEnd, End
  <2>2. QED
    BY <1>2, <2>1 DEF DeadEnd, HandedOver, End, AsksOnce, Fresh, InOrder, Account
<1>3. CASE TurnPage
  <2>1. Overlay(cur, link) \in Queries
    BY <1>3, OverlayTyped DEF TurnPage, LeadsOn, TypeOK, Links
  <2>2. TypeOK'
    BY <1>3, <2>1, SMT DEF TypeOK, TurnPage, Links
  <2>3. AsksOnce' /\ InOrder'
    BY <1>3 DEF TurnPage, AsksOnce, InOrder
  <2>4. Fresh'
    BY <1>3 DEF TurnPage, LeadsOn, Fresh
  <2>5. Account'
    BY <1>3, SMT DEF TurnPage, HandedOver, TypeOK, Account
  <2>6. QED
    BY <2>2, <2>3, <2>4, <2>5
<1>4. QED
  BY <1>1, <1>2, <1>3 DEF Turn

(* Every step of a walk keeps the account.                                 *)
LEMMA StepIInv ==
  ASSUME IInv, [Next]_walk
  PROVE  IInv'
<1>1. CASE UNCHANGED walk
  BY <1>1 DEF walk, state, IInv, TypeOK, AsksOnce, Fresh, InOrder, Account
<1>2. QED
  BY <1>1, FetchStep, FailStep, YieldStep, TurnStep DEF Next, Consume

(* A walk whose account is kept and that is complete is whole.             *)
LEMMA IInvWhole ==
  ASSUME IInv
  PROVE  CompleteIsWhole
<1> SUFFICES ASSUME outcome = "complete" PROVE got = served /\ link = NoLink
  BY DEF CompleteIsWhole
<1>1. Len(got) = Len(served)
  BY Lengths, SMT DEF IInv, Account
<1>2. got \in Seq(Rows) /\ served \in Seq(Rows)
  BY DEF IInv, TypeOK
<1>3. got = served
  BY <1>1, <1>2, SMT DEF IInv, InOrder
<1>4. QED
  BY <1>3 DEF IInv, Account

-----------------------------------------------------------------------------
(* The account of a walk is kept in every reachable state.                 *)
THEOREM WalkInductive == Spec => []IInv
<1>1. IInv /\ [Next]_walk => IInv'
  BY StepIInv
<1>2. QED
  BY <1>1, InitIInv, PTL DEF Spec

(* No query is ever sent twice, whatever the server's links say.           *)
THEOREM NeverAsksTwice == Spec => []AsksOnce
<1>1. IInv => AsksOnce
  BY DEF IInv
<1>2. QED
  BY <1>1, WalkInductive, PTL

(* A walk that ends without an error handed over all that was served.      *)
THEOREM NothingDropped == Spec => []CompleteIsWhole
<1>1. IInv => CompleteIsWhole
  BY IInvWhole
<1>2. QED
  BY <1>1, WalkInductive, PTL

(* The consumer's rows are a prefix of the rows served.                    *)
THEOREM HandedInOrder == Spec => []InOrder
<1>1. IInv => InOrder
  BY DEF IInv
<1>2. QED
  BY <1>1, WalkInductive, PTL
=============================================================================
