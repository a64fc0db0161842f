----------------------------- MODULE PunchExport -----------------------------
(***************************************************************************)
(* The export of module PunchWindows as the client performs it: a run is a *)
(* walk (TransactionService.All) over pages, by page number, of the rows   *)
(* the window selects, in the order "punch_time,id".  The rows of a page   *)
(* are handed over in one step; module Walk has the single rows.  Uploads  *)
(* go on between two pages, and any page may fail.                         *)
(***************************************************************************)
EXTENDS PunchWindows, FiniteSets

CONSTANT PageSize   \* rows on a page

ASSUME PageSizeAssumption == PageSize \in Nat \ {0}

VARIABLES
  id,        \* the identifiers of the punches on the server
  page       \* the number of the page to fetch next; 0 when there is none

xvars == <<pvars, id, page>>

(* Mutant of Before: "punch_time" alone, so that rows with equal times     *)
(* have another order on every other page.                                 *)
BeforeByTime(p, q) ==
  \/ PunchTime(p) < PunchTime(q)
  \/ PunchTime(p) = PunchTime(q) /\ (IF page % 2 = 1 THEN id[p] < id[q]
                                                      ELSE id[q] < id[p])

(* Ordering "punch_time,id".                                               *)
Before(p, q) ==
  \/ PunchTime(p) < PunchTime(q)
  \/ PunchTime(p) = PunchTime(q) /\ id[p] < id[q]

(* The rows that come before p.                                            *)
Rank(p) == Cardinality({q \in Window : Before(q, p)})

PageRows(n) ==
  {p \in Window : (n - 1) * PageSize <= Rank(p) /\ Rank(p) < n * PageSize}

XInit ==
  /\ PInit
  /\ id = [p \in {} |-> 0]
  /\ page = 0

XUpload(p) ==
  /\ Upload(p)
  /\ id' = [q \in arrived' |-> IF q = p THEN Cardinality(arrived') ELSE id[q]]
  /\ UNCHANGED page

XBegin ==
  /\ Begin
  /\ page' = 1
  /\ UNCHANGED id

(* Mutant of FetchPage: the walk ends at the first page.                   *)
FetchPageOnce ==
  /\ page > 0
  /\ Deliver(PageRows(page))
  /\ page' = 0
  /\ UNCHANGED id

(* A page is fetched and handed over; the server links to another one if   *)
(* there are more rows.                                                    *)
FetchPage ==
  /\ page > 0
  /\ Deliver(PageRows(page))
  /\ page' = IF page * PageSize < Cardinality(Window) THEN page + 1 ELSE 0
  /\ UNCHANGED id

XClose ==
  /\ page = 0
  /\ Close
  /\ UNCHANGED <<id, page>>

XAbandon ==
  /\ page > 0
  /\ Abandon
  /\ page' = 0
  /\ UNCHANGED id

XNext ==
  \/ \E p \in Punches : XUpload(p) \/ (Punch(p) /\ UNCHANGED <<id, page>>)
  \/ Tick /\ UNCHANGED <<id, page>>
  \/ XBegin \/ FetchPage \/ XClose \/ XAbandon

XSpec == XInit /\ [][XNext]_xvars

-----------------------------------------------------------------------------
(* The pages of a run stand still: none shows a row again that an earlier  *)
(* page of the same run had, because nothing is inserted into a window     *)
(* that has settled (README.md, Exporting punches, steps 1 and 2).         *)
PagesStandStill ==
  [][page > 0 /\ page' # page /\ till' # NoTime => PageRows(page) \cap out = {}]_xvars

(* A walk over pages is a run of module PunchWindows: it hands over rows   *)
(* of its window alone, and when it ends without an error it has handed    *)
(* over every row that was in the window when it began.                    *)
WindowsSpec == PSpec
=============================================================================
