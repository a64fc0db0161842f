----------------------------- MODULE ListServer -----------------------------
(***************************************************************************)
(* Walk composed with the server the documentation describes and with the  *)
(* two consumers the package has: an export, which takes every row, and    *)
(* EmployeeService.GetByCode (employees.go), which scans the candidates    *)
(* for one exact code.  The server paginates by page number over a live    *)
(* table in ascending order of identifier; rows are appended, and a few    *)
(* deleted, between two pages.  It matches the code exactly or as a        *)
(* prefix, and its links repeat the filter or carry the page alone.        *)
(***************************************************************************)
EXTENDS Walk, Functions

CONSTANTS
  MaxCandidates,  \* maxCodeCandidates
  MaxDeleted      \* bound: rows deleted in a behaviour

ASSUME ServerAssumption == /\ Rows \subseteq Nat /\ IsFiniteSet(Rows)
                           /\ MaxCandidates \in Nat \ {0}
                           /\ PageSize > 0

(* Queries have the two parameters of this server, and there is a number   *)
(* for each page that the rows may need.  A walk begins on the first page. *)
ASSUME QueryAssumption ==
  /\ {"emp_code", "page"} \subseteq Names
  /\ {n \in 1..(Cardinality(Rows) + 1) : (n - 1) * PageSize < Cardinality(Rows)} \subseteq Values
  /\ "page" \notin DOMAIN Start

Codes     == {"exact", "longer", "other"}
Consumers == {"export", "lookup"}

VARIABLES
  code,      \* how the code of each row relates to the one asked for
  prefix,    \* whether the server matches codes by prefix
  echo,      \* whether its links repeat the whole query
  consumer,
  table,     \* the rows on the server now
  deleted,   \* the rows that were deleted since the walk began
  original,  \* history: the rows on the server when the walk began
  scanned,   \* GetByCode: seen
  found      \* GetByCode: the employees it returned, one at most

fixed  == <<code, prefix, echo, consumer, original>>
server == <<table, deleted>>
lookup == <<scanned, found>>
lvars  == <<walk, fixed, server, lookup>>

LInit ==
  /\ Init
  /\ code \in [Rows -> Codes]
  /\ prefix \in BOOLEAN
  /\ echo \in BOOLEAN
  /\ consumer \in Consumers
  /\ consumer = "lookup" => "emp_code" \in DOMAIN Start
  /\ table \in {{r \in Rows : r <= n} : n \in Rows \cup {0}}
  /\ deleted = {}
  /\ original = table
  /\ scanned = 0
  /\ found = {}

-----------------------------------------------------------------------------
(* The server.  A query without the filter selects the whole table.        *)

Matches(r, q) ==
  "emp_code" \in DOMAIN q => (code[r] = "exact" \/ (prefix /\ code[r] = "longer"))

Selected(q) == {r \in table : Matches(r, q)}

Total(q) == Cardinality(Selected(q))

(* The selected rows that come before r.                                   *)
Rank(r, q) == Cardinality({s \in Selected(q) : s < r})

PageNumber(q) == IF "page" \in DOMAIN q THEN q["page"] ELSE 1

(* The selected rows on the pages before the one asked for.                *)
First(q) == (PageNumber(q) - 1) * PageSize

(* A full page of rows in their order, or as many as are left.             *)
Length(q) == IF First(q) + PageSize <= Total(q) THEN PageSize ELSE Total(q) - First(q)

PageOf(q) ==
  [i \in 1..Length(q) |-> CHOOSE r \in Selected(q) : Rank(r, q) = First(q) + i - 1]

NextOf(q) ==
  LET following == [k \in {"page"} |-> PageNumber(q) + 1]
  IN  IF PageNumber(q) * PageSize >= Total(q) THEN NoLink
      ELSE IF echo THEN Overlay(q, following) ELSE following

(* A page past the end of the table, which only a deletion can bring       *)
(* about, is a 404 from Django REST framework.                             *)
InRange(q) == PageNumber(q) = 1 \/ First(q) < Total(q)

Serve ==
  /\ IF InRange(cur) THEN Fetch(PageOf(cur), NextOf(cur)) ELSE FetchFails
  /\ UNCHANGED <<fixed, server, lookup>>

ServeError ==
  /\ FetchFails
  /\ UNCHANGED <<fixed, server, lookup>>

Insert(r) ==
  /\ at # "over"
  /\ \A s \in table \cup deleted : s < r
  /\ table' = table \cup {r}
  /\ UNCHANGED <<walk, fixed, deleted, lookup>>

Delete(r) ==
  /\ at # "over"
  /\ r \in table
  /\ Cardinality(deleted) < MaxDeleted
  /\ table' = table \ {r}
  /\ deleted' = deleted \cup {r}
  /\ UNCHANGED <<walk, fixed, lookup>>

-----------------------------------------------------------------------------
(* The consumers: the body of the caller's range loop.                     *)

Row == page[handed + 1]

Export ==
  /\ consumer = "export"
  /\ Yield(TRUE)
  /\ UNCHANGED <<fixed, server, lookup>>

(* Mutant of Match: a prefix is a match.                                   *)
MatchPrefix ==
  /\ consumer = "lookup"
  /\ at = "rows" /\ handed < Len(page) /\ code[Row] # "other"
  /\ Yield(FALSE)
  /\ found' = {Row}
  /\ UNCHANGED <<fixed, server, scanned>>

(* GetByCode compares each candidate before it counts it.                  *)
Match ==
  /\ consumer = "lookup"
  /\ at = "rows" /\ handed < Len(page) /\ code[Row] = "exact"
  /\ Yield(FALSE)
  /\ found' = {Row}
  /\ UNCHANGED <<fixed, server, scanned>>

(* Mutant of Pass: the limit is one too high.                              *)
PassOneMore ==
  /\ consumer = "lookup"
  /\ at = "rows" /\ handed < Len(page) /\ code[Row] # "exact"
  /\ scanned' = scanned + 1
  /\ Yield(scanned' <= MaxCandidates)
  /\ UNCHANGED <<fixed, server, found>>

Pass ==
  /\ consumer = "lookup"
  /\ at = "rows" /\ handed < Len(page) /\ code[Row] # "exact"
  /\ scanned' = scanned + 1
  /\ Yield(scanned' < MaxCandidates)
  /\ UNCHANGED <<fixed, server, found>>

LNext ==
  \/ Serve \/ ServeError
  \/ \E r \in Rows : Insert(r) \/ Delete(r)
  \/ Export \/ Match \/ Pass
  \/ Turn /\ UNCHANGED <<fixed, server, lookup>>

LSpec == LInit /\ [][LNext]_lvars

(* What GetByCode returns once its loop is over.                           *)
Answer ==
  IF found # {} THEN "employee"
  ELSE IF outcome = "stopped" THEN "ErrTooManyCandidates"
  ELSE IF outcome = "complete" THEN "ErrNotFound"
  ELSE "error"

-----------------------------------------------------------------------------
(* A walk in the order of a unique, growing key hands over each row once   *)
(* and in order, and none the filter excludes, whether the server's links  *)
(* repeat the filter or not.  A complete export of a table that only grows *)
(* has every row that was there when it began; each row deleted meanwhile  *)
(* moves the later ones forward, past the end of the page fetched last,    *)
(* and costs the export at most one row that was there all the time        *)
(* (comments of ListOptions, iterate and nextQuery).                       *)
LossIsBounded ==
  outcome = "complete" =>
    LET kept == {r \in original \ deleted : Matches(r, Start)} IN
    /\ Cardinality(kept \ Range(got)) <= Cardinality(deleted)
    /\ \A i \in 1..Len(got) : Matches(got[i], Start)
    /\ \A i, j \in 1..Len(got) : i < j => got[i] < got[j]

(* The three answers of GetByCode are right about the table it scanned: an *)
(* employee it returns has the code, "not found" means that no such        *)
(* employee was there when the lookup began, and "too many candidates"     *)
(* means that a server that matches prefixes really has that many others   *)
(* (employees.go, GetByCode).                                              *)
LookupVerdict ==
  consumer = "lookup" /\ at = "over" /\ deleted = {} =>
    CASE Answer = "employee"    -> \A r \in found : code[r] = "exact"
      [] Answer = "ErrNotFound" -> \A r \in original : code[r] # "exact"
      [] Answer = "ErrTooManyCandidates" ->
           /\ prefix
           /\ Cardinality({r \in table : code[r] = "longer"}) >= MaxCandidates
      [] OTHER -> TRUE

(* A lookup never reads more than maxCodeCandidates rows nor asks for more *)
(* than the pages that hold them, however large the table is               *)
(* (maxCodeCandidates, employees.go).                                      *)
ScanIsBounded ==
  consumer = "lookup" => /\ Len(got) <= MaxCandidates
                         /\ (Len(asked) - 1) * PageSize < MaxCandidates
=============================================================================
