-------------------------------- MODULE Walk --------------------------------
(***************************************************************************)
(* One walk over a collection (iterate in pagination.go), as All of every  *)
(* service returns it: fetch the page the current query selects, hand its  *)
(* rows to the consumer one by one, derive the next query from the         *)
(* server's "next" link, stop at the first error.                          *)
(*                                                                         *)
(* The server is external: a page has any rows and any link.  A query is a *)
(* partial function from parameter names to values; url.Values.Encode      *)
(* sorts by name, so two queries have one key exactly when they are equal. *)
(***************************************************************************)
EXTENDS Naturals, Sequences, FiniteSets

CONSTANTS
  Names,      \* names of query parameters
  Values,     \* their values
  Start,      \* the query the sequence was made with
  Rows,       \* the objects a page can hold
  PageSize,   \* bound: rows on a page
  NoLink,     \* the last page: "next" is empty
  BadLink     \* a "next" that is not a URL

Queries == UNION {[D -> Values] : D \in SUBSET Names}

ASSUME StartAssumption == Start \in Queries
ASSUME LinkAssumption  == NoLink \notin Queries /\ BadLink \notin Queries
                          /\ NoLink # BadLink
ASSUME SizeAssumption  == PageSize \in Nat

VARIABLES
  at,       \* "fetch" a page, hand over its "rows", or the walk is "over"
  cur,      \* the query of the current page
  seen,     \* the queries already used
  page,     \* the rows of the current page
  handed,   \* how many of them the consumer has
  link,     \* the "next" of the current page
  outcome,  \* how the walk ended: "complete", "stopped" by the consumer,
            \* "failed" with an error; "none" before that
  asked,    \* history: the queries sent, in order
  served,   \* history: the rows of all pages fetched
  got       \* history: the rows handed to the consumer

state == <<at, cur, seen, page, handed, link, outcome>>
walk  == <<state, asked, served, got>>

PageRows == UNION {[1..n -> Rows] : n \in 0..PageSize}
Links    == Queries \cup {NoLink, BadLink}

Init ==
  /\ at = "fetch"
  /\ cur = Start
  /\ seen = {Start}
  /\ page = <<>>
  /\ handed = 0
  /\ link = NoLink
  /\ outcome = "none"
  /\ asked = <<>>
  /\ served = <<>>
  /\ got = <<>>

End(how) ==
  /\ at' = "over"
  /\ outcome' = how

(* Mutant of Overlay: the link alone is the next query.                    *)
OverlayLinkAlone(q, l) == l

(* nextQuery: the parameters of the link laid over the current ones.       *)
Overlay(q, l) ==
  [k \in DOMAIN q \cup DOMAIN l |-> IF k \in DOMAIN l THEN l[k] ELSE q[k]]

-----------------------------------------------------------------------------
(* listPage returned a page.                                               *)
Fetch(rows, next) ==
  /\ at = "fetch"
  /\ at' = "rows"
  /\ page' = rows
  /\ handed' = 0
  /\ link' = next
  /\ asked' = Append(asked, cur)
  /\ served' = served \o rows
  /\ UNCHANGED <<cur, seen, outcome, got>>

(* listPage returned an error: a transport failure, a non-2xx status, a    *)
(* body that is not a list.                                                *)
FetchFails ==
  /\ at = "fetch"
  /\ End("failed")
  /\ asked' = Append(asked, cur)
  /\ UNCHANGED <<cur, seen, page, handed, link, served, got>>

(* Mutant of Yield: every row handed over is the first one of its page.    *)
YieldFirst(goOn) ==
  /\ at = "rows"
  /\ handed < Len(page)
  /\ handed' = handed + 1
  /\ got' = Append(got, page[1])
  /\ IF goOn THEN UNCHANGED <<at, outcome>> ELSE End("stopped")
  /\ UNCHANGED <<cur, seen, page, link, asked, served>>

(* yield hands over one row; the consumer goes on or breaks off.           *)
Yield(goOn) ==
  /\ at = "rows"
  /\ handed < Len(page)
  /\ handed' = handed + 1
  /\ got' = Append(got, page[handed + 1])
  /\ IF goOn THEN UNCHANGED <<at, outcome>> ELSE End("stopped")
  /\ UNCHANGED <<cur, seen, page, link, asked, served>>

HandedOver == at = "rows" /\ handed = Len(page)

LastPage ==
  /\ HandedOver
  /\ link = NoLink
  /\ End("complete")
  /\ UNCHANGED <<cur, seen, page, handed, link, asked, served, got>>

(* Mutant of LeadsOn: nothing remembers the queries already used.          *)
LeadsOnAgain ==
  /\ link \notin {NoLink, BadLink}
  /\ page # <<>>

(* The link leads on: from a page that had rows, as a URL, to a query the  *)
(* walk has not used before.                                               *)
LeadsOn ==
  /\ link \notin {NoLink, BadLink}
  /\ page # <<>>
  /\ Overlay(cur, link) \notin seen

(* Mutants of DeadEnd: a link that leads nowhere is taken for the end; or  *)
(* it is passed over, and only an empty page ends the walk.                *)
DeadEndSilent ==
  /\ HandedOver
  /\ link # NoLink
  /\ ~LeadsOn
  /\ End("complete")
  /\ UNCHANGED <<cur, seen, page, handed, link, asked, served, got>>

DeadEndPassedOver ==
  /\ HandedOver
  /\ link # NoLink
  /\ page = <<>>
  /\ End("failed")
  /\ UNCHANGED <<cur, seen, page, handed, link, asked, served, got>>

DeadEnd ==
  /\ HandedOver
  /\ link # NoLink
  /\ ~LeadsOn
  /\ End("failed")
  /\ UNCHANGED <<cur, seen, page, handed, link, asked, served, got>>

TurnPage ==
  /\ HandedOver
  /\ LeadsOn
  /\ cur' = Overlay(cur, link)
  /\ seen' = seen \cup {Overlay(cur, link)}
  /\ at' = "fetch"
  /\ page' = <<>>
  /\ handed' = 0
  /\ link' = NoLink
  /\ UNCHANGED <<outcome, asked, served, got>>

Turn == LastPage \/ DeadEnd \/ TurnPage

Consume == \E goOn \in BOOLEAN : Yield(goOn)

Next ==
  \/ \E rows \in PageRows, next \in Links : Fetch(rows, next)
  \/ FetchFails
  \/ Consume
  \/ Turn

Spec == Init /\ [][Next]_walk

(* A fetch is bounded by the client's timeout, and the consumer's loop     *)
(* body returns.                                                           *)
FairSpec == Spec /\ WF_walk(Next)

-----------------------------------------------------------------------------
(* Every variable of the walk has its type, and the position is on the    *)
(* page.                                                                   *)
TypeOK ==
  /\ at \in {"fetch", "rows", "over"}
  /\ cur \in Queries
  /\ seen \subseteq Queries
  /\ page \in Seq(Rows)
  /\ handed \in 0..Len(page)
  /\ link \in Links
  /\ outcome \in {"none", "complete", "stopped", "failed"}
  /\ asked \in Seq(Queries)
  /\ served \in Seq(Rows)
  /\ got \in Seq(Rows)

(* The walk never sends a query twice, whatever the links say: a server    *)
(* that repeats a page ends the walk instead of looping it (iterate, the   *)
(* seen set).                                                              *)
AsksOnce ==
  \A i, j \in 1..Len(asked) : asked[i] = asked[j] => i = j

(* A walk that ends as complete has handed over every row of every page it *)
(* fetched, in order, and the last page had no link left to follow: an     *)
(* early end is always an error (comment of iterate).                      *)
CompleteIsWhole == outcome = "complete" => got = served /\ link = NoLink

(* However it ends, what the consumer got is what the server served, in    *)
(* order and without a gap.                                                *)
InOrder ==
  /\ Len(got) <= Len(served)
  /\ \A i \in 1..Len(got) : got[i] = served[i]

(* Every walk ends, even over a server that links in circles forever.      *)
Terminates == <>(at = "over")
=============================================================================
