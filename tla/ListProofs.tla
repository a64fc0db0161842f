----------------------------- MODULE ListProofs -----------------------------
(***************************************************************************)
(* A walk over a live table, for any filter, any page size, any number of  *)
(* rows and of rows deleted on the way, and any limit on the candidates of *)
(* a lookup.                                                               *)
(***************************************************************************)
EXTENDS ListServer, WalkProofs, FiniteSetTheorems

(* The table grows at its end alone, and what was served came from it.     *)
Kept ==
  /\ table \subseteq Rows /\ deleted \subseteq Rows /\ table \cap deleted = {}
  /\ original \subseteq table \cup deleted
  /\ \A i \in 1..Len(served) : served[i] \in table \cup deleted
  /\ code \in [Rows -> Codes] /\ consumer \in Consumers

(* The query asks for the page after those asked for, under the filter the *)
(* walk started with, and so does a link.                                  *)
Follows ==
  /\ "emp_code" \in DOMAIN cur <=> "emp_code" \in DOMAIN Start
  /\ PageNumber(cur) = IF at = "fetch" THEN Len(asked) + 1 ELSE Len(asked)
  /\ at = "rows" /\ link # NoLink =>
       /\ "page" \in DOMAIN link /\ link["page"] = Len(asked) + 1
       /\ "emp_code" \in DOMAIN link => "emp_code" \in DOMAIN Start

(* A page with a link to another one was full.                             *)
Full ==
  at = "fetch" \/ (at = "rows" /\ link # NoLink) => Len(served) = Len(asked) * PageSize

(* The rows served are selected, each later than the one before.           *)
Rising ==
  /\ \A i \in 1..Len(served) : Matches(served[i], Start)
  /\ \A i, j \in 1..Len(served) : i < j => served[i] < served[j]

(* The selected rows on the server that the walk has passed: no more than  *)
(* it was served.                                                          *)
Passed == {r \in table : Matches(r, Start) /\ \E i \in 1..Len(served) : r <= served[i]}

Behind ==
  /\ Cardinality(Passed) <= Len(served)
  /\ (at = "rows" /\ link = NoLink) \/ outcome = "complete" =>
       {r \in original \ deleted : Matches(r, Start)} \subseteq Passed

(* A lookup counts the rows it has, none of which has the code, and stops  *)
(* at one that has, or at the limit.                                       *)
Counts ==
  /\ \A r \in found : code[r] = "exact"
  /\ consumer = "lookup" =>
       /\ "emp_code" \in DOMAIN Start
       /\ found = {} => /\ scanned = Len(got)
                        /\ \A i \in 1..Len(got) : code[got[i]] # "exact"
       /\ outcome = "stopped" \/ scanned < MaxCandidates
       /\ found = {} /\ outcome = "stopped" => scanned = MaxCandidates
       /\ Len(got) <= MaxCandidates
       /\ at # "over" => found = {}
       /\ (Len(asked) - 1) * PageSize < MaxCandidates

LInv == Kept /\ Follows /\ Full /\ Rising /\ Behind /\ Counts

-----------------------------------------------------------------------------
(* What is selected is a finite set of numbers.                            *)
LEMMA Finite ==
  ASSUME Kept
  PROVE  /\ IsFiniteSet(Rows) /\ Cardinality(Rows) \in Nat
         /\ IsFiniteSet(table) /\ IsFiniteSet(deleted)
         /\ \A q : /\ IsFiniteSet(Selected(q)) /\ Selected(q) \subseteq Rows
                   /\ Total(q) \in Nat /\ Total(q) <= Cardinality(Rows)
<1>1. IsFiniteSet(Rows) /\ Cardinality(Rows) \in Nat
  BY ServerAssumption, FS_CardinalityType
<1>2. IsFiniteSet(table) /\ IsFiniteSet(deleted)
  BY <1>1, FS_Subset DEF Kept
<1>3. ASSUME NEW q
      PROVE  /\ IsFiniteSet(Selected(q)) /\ Selected(q) \subseteq Rows
             /\ Total(q) \in Nat /\ Total(q) <= Cardinality(Rows)
  <2>1. Selected(q) \subseteq Rows
    BY DEF Selected, Kept
  <2>2. IsFiniteSet(Selected(q)) /\ Cardinality(Selected(q)) <= Cardinality(Rows)
    BY <1>1, <2>1, FS_Subset
  <2>3. Cardinality(Selected(q)) \in Nat
    BY <2>2, FS_CardinalityType
  <2> QED
    BY <2>1, <2>2, <2>3 DEF Total
<1> QED
  BY <1>1, <1>2, <1>3

(* The rank of a row is below the number of the rows.                      *)
LEMMA RankRange ==
  ASSUME Kept, NEW q, NEW r \in Selected(q)
  PROVE  Rank(r, q) \in 0..(Total(q) - 1)
<1> DEFINE S == Selected(q)
           B == {s \in S : s < r}
<1>1. IsFiniteSet(S) /\ S \subseteq Nat /\ Cardinality(S) \in Nat
  BY Finite, ServerAssumption DEF Total
<1>2. IsFiniteSet(S \ {r}) /\ Cardinality(S \ {r}) = Cardinality(S) - 1
  BY <1>1, FS_RemoveElement
<1>3. B \subseteq S \ {r}
  BY <1>1
<1>4. IsFiniteSet(B) /\ Cardinality(B) <= Cardinality(S \ {r})
  BY <1>2, <1>3, FS_Subset
<1>5. Cardinality(B) \in Nat
  BY <1>4, FS_CardinalityType
<1>6. Cardinality(B) \in 0..(Cardinality(S) - 1)
  BY <1>1, <1>2, <1>4, <1>5
<1> QED
  BY <1>6 DEF Rank, Total

(* A row and those before it are one more than its rank.                   *)
LEMMA UpTo ==
  ASSUME Kept, NEW q, NEW r \in Selected(q)
  PROVE  /\ IsFiniteSet({s \in Selected(q) : s <= r})
         /\ Cardinality({s \in Selected(q) : s <= r}) = Rank(r, q) + 1
<1> DEFINE S == Selected(q)
           B == {s \in S : s < r}
<1>1. IsFiniteSet(S) /\ S \subseteq Nat
  BY Finite, ServerAssumption
<1>2. IsFiniteSet(B)
  BY <1>1, FS_Subset
<1>3. {s \in S : s <= r} = B \cup {r} /\ r \notin B
  BY <1>1
<1>4. IsFiniteSet(B \cup {r}) /\ Cardinality(B \cup {r}) = Cardinality(B) + 1
  BY <1>2, <1>3, FS_AddElement
<1> QED
  BY <1>3, <1>4 DEF Rank

(* A later row has a higher rank.                                          *)
LEMMA RankGrows ==
  ASSUME Kept, NEW q, NEW r \in Selected(q), NEW s \in Selected(q), r < s
  PROVE  Rank(r, q) < Rank(s, q)
<1> DEFINE S == Selected(q)
           B == {x \in S : x <= r}
           C == {x \in S : x < s}
<1>1. IsFiniteSet(S) /\ S \subseteq Nat
  BY Finite, ServerAssumption
<1>2. Cardinality(B) = Rank(r, q) + 1
  BY UpTo
<1>3. IsFiniteSet(C)
  BY <1>1, FS_Subset
<1>4. B \in SUBSET C
  BY <1>1
<1>5. Cardinality(B) <= Cardinality(C)
  BY <1>3, <1>4, FS_Subset
<1>6. Cardinality(C) = Rank(s, q)
  BY DEF Rank
<1>7. Rank(r, q) \in Int /\ Rank(s, q) \in Int
  BY RankRange, Finite
<1> QED
  BY <1>2, <1>5, <1>6, <1>7

(* There is a row of every rank below the number of the rows.              *)
LEMMA EveryRank ==
  ASSUME Kept, NEW q, NEW n \in 0..(Total(q) - 1)
  PROVE  \E r \in Selected(q) : Rank(r, q) = n
<1> DEFINE S == Selected(q)
           T == 0..(Total(q) - 1)
           f == [r \in S |-> Rank(r, q)]
<1>1. IsFiniteSet(S) /\ S \subseteq Nat /\ Total(q) \in Nat
  BY Finite, ServerAssumption
<1>2. IsFiniteSet(T) /\ Cardinality(T) = Cardinality(S)
  <2> DEFINE m == Total(q) - 1
  <2>1. IsFiniteSet(T) /\ Cardinality(T) = IF 0 > m THEN 0 ELSE m - 0 + 1
    <3>1. m \in Int /\ 0 \in Int
      BY <1>1
    <3> HIDE DEF m
    <3>2. IsFiniteSet(0..m) /\ Cardinality(0..m) = IF 0 > m THEN 0 ELSE m - 0 + 1
      BY <3>1, FS_Interval
    <3> QED
      BY <3>2 DEF m
  <2>2. Total(q) = Cardinality(S)
    BY DEF Total
  <2> QED
    BY <1>1, <2>1, <2>2
<1>3. f \in [S -> T]
  BY RankRange
<1>4. ASSUME NEW r \in S, NEW s \in S, f[r] = f[s]
      PROVE  r = s
  <2>1. Rank(r, q) = Rank(s, q)
    BY <1>4
  <2>2. Rank(r, q) \in 0..(Total(q) - 1)
    BY RankRange
  <2>3. Rank(r, q) \in Int
    BY <1>1, <2>2
  <2>4. ~(r < s) /\ ~(s < r)
    BY <2>1, <2>3, RankGrows
  <2> QED
    BY <1>1, <2>4
<1>5. f \in Injection(S, T)
  BY <1>3, <1>4 DEF Injection, IsInjective
<1>6. f \in Surjection(S, T)
  BY <1>2, <1>5, FS_Injection
<1>7. \E r \in S : f[r] = n
  BY <1>6 DEF Surjection
<1> QED
  BY <1>7

(* The page a query in the range of the table shows.                       *)
LEMMA PageShown ==
  ASSUME Kept, NEW q, First(q) \in Nat, InRange(q), PageNumber(q) = 1 => First(q) = 0
  PROVE  /\ PageOf(q) \in PageRows
         /\ Len(PageOf(q)) = Length(q) /\ Length(q) \in 0..PageSize
         /\ First(q) + Length(q) <= Total(q)
         /\ \A i \in 1..Length(q) : /\ PageOf(q)[i] \in Selected(q)
                                    /\ Rank(PageOf(q)[i], q) = First(q) + i - 1
<1> DEFINE n == Length(q)
           Row_(i) == CHOOSE r \in Selected(q) : Rank(r, q) = First(q) + i - 1
<1>1. /\ Total(q) \in Nat /\ Selected(q) \subseteq Rows
      /\ PageSize \in Nat /\ PageSize > 0
  BY Finite, SizeAssumption, ServerAssumption
<1>2. n \in 0..PageSize /\ First(q) + n <= Total(q)
  <2>1. First(q) <= Total(q)
    BY <1>1 DEF InRange
  <2> QED
    BY <1>1, <2>1 DEF Length
<1>3. ASSUME NEW i \in 1..n
      PROVE  Row_(i) \in Selected(q) /\ Rank(Row_(i), q) = First(q) + i - 1
  <2> DEFINE k == First(q) + i - 1
  <2>1. k \in 0..(Total(q) - 1)
    BY <1>1, <1>2
  <2> HIDE DEF k
  <2>2. \E r \in Selected(q) : Rank(r, q) = k
    BY <2>1, EveryRank
  <2> QED
    BY <2>2 DEF k
<1>4. PageOf(q) = [i \in 1..n |-> Row_(i)]
  BY DEF PageOf
<1> HIDE DEF Row_
<1>5. /\ DOMAIN PageOf(q) = 1..n
      /\ \A i \in 1..n : PageOf(q)[i] = Row_(i)
  BY <1>4
<1>6. PageOf(q) \in [1..n -> Rows]
  BY <1>1, <1>3, <1>4
<1> HIDE DEF n
<1>7. PageOf(q) \in PageRows
  BY <1>2, <1>6 DEF PageRows
<1>8. Len(PageOf(q)) = n
  BY <1>2, <1>6, <1>1
<1> QED
  BY <1>2, <1>3, <1>5, <1>7, <1>8 DEF n

(* A link leads to the page that follows, under the same filter, and is    *)
(* given when rows are left.                                               *)
LEMMA NextShown ==
  ASSUME Kept, NEW q \in Queries, NEW n \in Nat \ {0}, PageNumber(q) = n
  PROVE  /\ NextOf(q) \in Links
         /\ NextOf(q) # NoLink =>
              /\ n * PageSize < Total(q)
              /\ "page" \in DOMAIN NextOf(q) /\ NextOf(q)["page"] = n + 1
              /\ "emp_code" \in DOMAIN NextOf(q) => "emp_code" \in DOMAIN q
         /\ NextOf(q) = NoLink => Total(q) <= n * PageSize
<1> DEFINE following == [k \in {"page"} |-> PageNumber(q) + 1]
<1>1. /\ PageSize \in Nat /\ PageSize > 0 /\ Total(q) \in Nat
      /\ Total(q) <= Cardinality(Rows) /\ Cardinality(Rows) \in Nat
  BY Finite, SizeAssumption, ServerAssumption
<1>2. n * PageSize \in Nat /\ n * PageSize >= n
  BY <1>1
<1>3. CASE n * PageSize >= Total(q)
  <2>1. NextOf(q) = NoLink
    BY <1>3 DEF NextOf
  <2> QED
    BY <1>1, <1>2, <1>3, <2>1 DEF Links
<1>4. CASE ~ n * PageSize >= Total(q)
  <2>1. n * PageSize < Total(q)
    BY <1>1, <1>2, <1>4
  <2>2. n + 1 \in Values
    <3>1. /\ n + 1 \in 1..(Cardinality(Rows) + 1)
          /\ ((n + 1) - 1) * PageSize < Cardinality(Rows)
      BY <1>1, <1>2, <2>1
    <3> QED
      BY <3>1, QueryAssumption
  <2>3. following \in [{"page"} -> Values]
    BY <2>2
  <2>4. {"page"} \in SUBSET Names
    BY QueryAssumption
  <2>5. following \in Queries
    BY <2>3, <2>4 DEF Queries
  <2>6. DOMAIN following = {"page"} /\ following["page"] = n + 1
    OBVIOUS
  <2>7. NextOf(q) = IF echo THEN Overlay(q, following) ELSE following
    BY <1>4 DEF NextOf
  <2> HIDE DEF following
  <2>8. /\ Overlay(q, following) \in Queries
        /\ "page" \in DOMAIN Overlay(q, following)
        /\ Overlay(q, following)["page"] = n + 1
        /\ "emp_code" \in DOMAIN Overlay(q, following) => "emp_code" \in DOMAIN q
    <3>1. Overlay(q, following) \in Queries
      BY <2>5, OverlayTyped
    <3>2. DOMAIN Overlay(q, following) = DOMAIN q \cup {"page"}
      BY <2>6 DEF Overlay
    <3>3. Overlay(q, following)["page"] = n + 1
      BY <2>6 DEF Overlay
    <3> QED
      BY <3>1, <3>2, <3>3
  <2>9. /\ NextOf(q) \in Queries
        /\ "page" \in DOMAIN NextOf(q) /\ NextOf(q)["page"] = n + 1
        /\ "emp_code" \in DOMAIN NextOf(q) => "emp_code" \in DOMAIN q
    <3>1. CASE echo
      BY <2>7, <2>8, <3>1
    <3>2. CASE ~echo
      BY <2>5, <2>6, <2>7, <3>2
    <3> QED
      BY <3>1, <3>2
  <2>10. NextOf(q) # NoLink
    BY <2>9, LinkAssumption
  <2> QED
    BY <2>1, <2>9, <2>10 DEF Links
<1> QED
  BY <1>3, <1>4

(* A row selected under a query of the walk is one of the walk's.          *)
LEMMA SameFilter ==
  ASSUME Follows
  PROVE  Selected(cur) = {r \in table : Matches(r, Start)}
BY DEF Follows, Selected, Matches

(* Numbers in rising order are as many as their places.                    *)
LEMMA RisingCount ==
  ASSUME NEW s \in Seq(Rows), \A i, j \in 1..Len(s) : i < j => s[i] < s[j]
  PROVE  /\ IsFiniteSet(Range(s))
         /\ Cardinality(Range(s)) = Len(s)
<1> DEFINE D == 1..Len(s)
           f == [i \in D |-> s[i]]
<1>1. Len(s) \in Nat /\ DOMAIN s = D
  OBVIOUS
<1>2. Range(s) = {s[i] : i \in D}
  BY <1>1 DEF Range
<1>3. f \in [D -> Range(s)]
  BY <1>2
<1>4. ASSUME NEW i \in D, NEW j \in D, f[i] = f[j]
      PROVE  i = j
  <2>1. s[i] = s[j] /\ s[i] \in Nat /\ s[j] \in Nat
    <3>1. s[i] \in Rows /\ s[j] \in Rows
      OBVIOUS
    <3> QED
      BY <1>4, <3>1, ServerAssumption
  <2>2. ~(i < j) /\ ~(j < i)
    BY <2>1
  <2> QED
    BY <1>1, <2>2
<1>5. f \in Injection(D, Range(s))
  BY <1>3, <1>4 DEF Injection, IsInjective
<1>6. f \in Surjection(D, Range(s))
  BY <1>2, <1>3 DEF Surjection
<1>7. ExistsBijection(D, Range(s))
  BY <1>5, <1>6 DEF ExistsBijection, Bijection
<1>8. IsFiniteSet(D) /\ Cardinality(D) = Len(s)
  <2> DEFINE n == Len(s)
  <2>1. n \in Int /\ 1 \in Int /\ n \in Nat
    BY <1>1
  <2> HIDE DEF n
  <2>2. IsFiniteSet(1..n) /\ Cardinality(1..n) = IF 1 > n THEN 0 ELSE n - 1 + 1
    BY <2>1, FS_Interval
  <2>3. IsFiniteSet(1..n) /\ Cardinality(1..n) = n
    BY <2>1, <2>2
  <2> QED
    BY <2>3 DEF n
<1> QED
  BY <1>7, <1>8, FS_Bijection

(* Those of the rows passed that were not served are no more than those    *)
(* that were served and then deleted.                                      *)
Missed == Passed \ Range(served)

(* Rows that were passed over are no more than the rows deleted: those     *)
(* handed over and still there, or deleted, make up for all the others.    *)
LEMMA MissedFew ==
  ASSUME served \in Seq(Rows), Kept, Rising, Cardinality(Passed) <= Len(served)
  PROVE  /\ IsFiniteSet(Missed) /\ IsFiniteSet(deleted)
         /\ Cardinality(Missed) <= Cardinality(deleted)
<1> DEFINE R == Range(served)
           A == R \cap table
           B == R \cap deleted
<1>1. IsFiniteSet(R) /\ Cardinality(R) = Len(served)
  BY RisingCount DEF Rising
<1>2. Len(served) \in Nat /\ R = {served[i] : i \in 1..Len(served)}
  BY DEF Range
<1>3. IsFiniteSet(table) /\ IsFiniteSet(deleted) /\ IsFiniteSet(Rows)
  BY Finite
<1>4. R = A \cup B /\ A \cap B = {}
  BY <1>2 DEF Kept
<1>5. /\ IsFiniteSet(A) /\ IsFiniteSet(B)
      /\ Cardinality(A) \in Nat /\ Cardinality(B) \in Nat
  BY <1>1, FS_Intersection, FS_CardinalityType
<1>6. Cardinality(A) + Cardinality(B) = Len(served)
  <2>1. Cardinality(A \cup B) = Cardinality(A) + Cardinality(B) - Cardinality(A \cap B)
    BY <1>5, FS_Union
  <2>2. Cardinality(A \cap B) = 0
    BY <1>4, FS_EmptySet
  <2>3. Cardinality(A \cup B) = Len(served)
    BY <1>1, <1>4
  <2> HIDE DEF A, B
  <2> QED
    BY <1>5, <2>1, <2>2, <2>3
<1>7. IsFiniteSet(Passed) /\ Cardinality(Passed) \in Nat
  <2>1. Passed \subseteq table
    BY DEF Passed
  <2> QED
    BY <1>3, <2>1, FS_Subset, FS_CardinalityType
<1>8. Passed \cap R = A
  <2>1. ASSUME NEW r \in A
        PROVE  r \in Passed
    <3>1. PICK i \in 1..Len(served) : r = served[i]
      BY <1>2
    <3>2. r \in table /\ Matches(r, Start)
      BY <3>1 DEF Rising
    <3>3. r <= served[i]
      BY <3>1, <3>2, ServerAssumption DEF Kept
    <3> QED
      BY <3>2, <3>3 DEF Passed
  <2>2. Passed \cap R \subseteq A
    BY DEF Passed
  <2> QED
    BY <2>1, <2>2
<1>9. /\ IsFiniteSet(Missed)
      /\ Cardinality(Missed) = Cardinality(Passed) - Cardinality(A)
  <2>1. /\ IsFiniteSet(Passed \ R)
        /\ Cardinality(Passed \ R) = Cardinality(Passed) - Cardinality(Passed \cap R)
    BY <1>7, FS_Difference
  <2> QED
    BY <1>8, <2>1 DEF Missed
<1>10. Cardinality(B) <= Cardinality(deleted) /\ Cardinality(deleted) \in Nat
  <2>1. B \in SUBSET deleted
    OBVIOUS
  <2> QED
    BY <1>3, <2>1, FS_Subset, FS_CardinalityType
<1> HIDE DEF A, B, R
<1> QED
  BY <1>2, <1>3, <1>5, <1>6, <1>7, <1>9, <1>10

(* The page asked for begins after the rows served, and its rows come      *)
(* after them, in rising order.                                            *)
LEMMA PageIsAhead ==
  ASSUME IInv, LInv, at = "fetch", InRange(cur)
  PROVE  LET rows == PageOf(cur) IN
         /\ PageNumber(cur) = Len(asked) + 1 /\ First(cur) = Len(served)
         /\ rows \in PageRows /\ Len(rows) = Length(cur) /\ Len(rows) \in 0..PageSize
         /\ Len(served) + Len(rows) <= Total(cur)
         /\ \A i \in 1..Len(rows) : /\ rows[i] \in Selected(cur) /\ rows[i] \in Nat
                                    /\ Rank(rows[i], cur) = Len(served) + i - 1
         /\ \A i \in 1..Len(rows), j \in 1..Len(served) : served[j] < rows[i]
         /\ \A i, j \in 1..Len(rows) : i < j => rows[i] < rows[j]
<1> DEFINE rows == PageOf(cur)
           L == Len(served)
<1>1. /\ served \in Seq(Rows) /\ asked \in Seq(Queries) /\ Kept /\ Follows
  BY DEF IInv, TypeOK, LInv
<1>2. L \in Nat /\ Len(asked) \in Nat
  BY <1>1
<1>3. PageNumber(cur) = Len(asked) + 1
  BY DEF LInv, Follows
<1>4. First(cur) = L
  <2>1. Len(served) = Len(asked) * PageSize
    BY DEF LInv, Full
  <2>2. (PageNumber(cur) - 1) = Len(asked)
    BY <1>2, <1>3
  <2> QED
    BY <2>1, <2>2 DEF First
<1>5. PageNumber(cur) = 1 => First(cur) = 0
  <2>1. PageNumber(cur) = 1 => Len(asked) = 0
    BY <1>2, <1>3
  <2>2. 0 * PageSize = 0
    BY SizeAssumption
  <2>3. Len(served) = Len(asked) * PageSize
    BY DEF LInv, Full
  <2> QED
    BY <1>4, <2>1, <2>2, <2>3
<1>6. /\ rows \in PageRows /\ Len(rows) = Length(cur) /\ Length(cur) \in 0..PageSize
      /\ L + Length(cur) <= Total(cur)
      /\ \A i \in 1..Length(cur) : /\ rows[i] \in Selected(cur)
                                   /\ Rank(rows[i], cur) = L + i - 1
  <2>1. First(cur) \in Nat
    BY <1>2, <1>4
  <2> QED
    BY <1>1, <1>4, <1>5, <2>1, PageShown
<1>7. Selected(cur) \subseteq Nat
  BY <1>1, Finite, ServerAssumption
<1> HIDE DEF rows
<1>8. /\ Len(rows) \in Nat
      /\ \A i \in 1..Len(rows) : /\ rows[i] \in Selected(cur) /\ rows[i] \in Nat
                                 /\ Rank(rows[i], cur) = L + i - 1
  BY <1>6, <1>7, SizeAssumption
<1>9. ASSUME NEW i \in 1..Len(rows), NEW j \in 1..L
      PROVE  served[j] < rows[i]
  <2>1. served[j] \in Nat
    <3>1. served[j] \in Rows
      BY <1>1
    <3> QED
      BY <3>1, ServerAssumption
  <2>2. SUFFICES ASSUME rows[i] <= served[j]
                 PROVE  FALSE
    BY <1>8, <2>1
  <2> DEFINE B == {s \in Selected(cur) : s <= rows[i]}
  <2>3. IsFiniteSet(B) /\ Cardinality(B) = Rank(rows[i], cur) + 1
    BY <1>1, <1>8, UpTo
  <2>4. B \in SUBSET Passed
    <3>1. Selected(cur) = {r \in table : Matches(r, Start)}
      BY <1>1, SameFilter
    <3>2. \A s \in B : s \in Nat /\ s <= served[j]
      BY <1>7, <1>8, <2>1, <2>2
    <3> QED
      BY <3>1, <3>2 DEF Passed
  <2>5. IsFiniteSet(Passed)
    <3>1. Passed \subseteq table
      BY DEF Passed
    <3> QED
      BY <1>1, <3>1, Finite, FS_Subset
  <2>6. Cardinality(B) <= Cardinality(Passed) /\ Cardinality(Passed) \in Nat
    BY <2>4, <2>5, FS_Subset, FS_CardinalityType
  <2>7. Cardinality(Passed) <= L
    BY DEF LInv, Behind
  <2>8. Cardinality(B) = L + i
    BY <1>2, <1>8, <2>3
  <2> HIDE DEF B, L
  <2>9. i \in Nat /\ i >= 1
    BY <1>8
  <2> QED
    BY <1>2, <2>6, <2>7, <2>8, <2>9
<1>10. ASSUME NEW i \in 1..Len(rows), NEW j \in 1..Len(rows), i < j
       PROVE  rows[i] < rows[j]
  <2>1. SUFFICES ASSUME ~(rows[i] < rows[j])
                 PROVE  FALSE
    OBVIOUS
  <2>2. Rank(rows[i], cur) = L + i - 1 /\ Rank(rows[j], cur) = L + j - 1
    BY <1>8
  <2>3. rows[i] = rows[j] \/ rows[j] < rows[i]
    BY <1>8, <2>1
  <2>4. CASE rows[i] = rows[j]
    BY <1>2, <1>8, <1>10, <2>2, <2>4
  <2>5. CASE rows[j] < rows[i]
    <3>1. Rank(rows[j], cur) < Rank(rows[i], cur)
      BY <1>1, <1>8, <2>5, RankGrows
    <3> QED
      BY <1>2, <1>8, <1>10, <2>2, <3>1
  <2> QED
    BY <2>3, <2>4, <2>5
<1>11. Len(rows) = Length(cur) /\ Len(rows) \in 0..PageSize /\ L + Len(rows) <= Total(cur)
  BY <1>6
<1> QED
  BY <1>3, <1>4, <1>6, <1>8, <1>9, <1>10, <1>11 DEF rows

-----------------------------------------------------------------------------
(* Where nothing is served and the table does not change, what was served  *)
(* and what was passed stay as they are.                                   *)
LEMMA Stays ==
  ASSUME LInv, UNCHANGED <<served, table, deleted, original, code, prefix, consumer>>
  PROVE  Kept' /\ Rising' /\ Passed' = Passed
<1>1. Kept'
  BY DEF LInv, Kept
<1>2. \A r : Matches(r, Start)' <=> Matches(r, Start)
  BY DEF Matches
<1>3. Rising'
  BY <1>2 DEF LInv, Rising
<1>4. Passed' = Passed
  BY <1>2 DEF Passed
<1> QED
  BY <1>1, <1>3, <1>4

(* A lookup that asks for a page has less than its limit of rows.          *)
LEMMA RoomLeft ==
  ASSUME IInv, LInv, at = "fetch", asked' = Append(asked, cur), consumer = "lookup"
  PROVE  (Len(asked') - 1) * PageSize < MaxCandidates
<1>1. asked \in Seq(Queries) /\ Len(served) = Len(got)
  <2>1. Len(served) = Len(got) + (Len(page) - handed) /\ page = <<>> /\ handed = 0
    BY DEF IInv, Account
  <2>2. Len(got) \in Nat /\ asked \in Seq(Queries)
    BY DEF IInv, TypeOK
  <2> QED
    BY <2>1, <2>2
<1>2. Len(asked') - 1 = Len(asked)
  <2>1. Len(asked') = Len(asked) + 1 /\ Len(asked) \in Nat
    BY <1>1
  <2> QED
    BY <2>1
<1>3. Len(served) = Len(asked) * PageSize
  BY DEF LInv, Full
<1>4. Len(got) = scanned /\ scanned < MaxCandidates
  <2>1. found = {} /\ outcome = "none"
    BY DEF IInv, Account, LInv, Counts
  <2> QED
    BY <2>1 DEF LInv, Counts
<1> QED
  BY <1>1, <1>2, <1>3, <1>4

(* An answer that is an error ends the walk where it is.                   *)
LEMMA StepFails ==
  ASSUME IInv, LInv, FetchFails, UNCHANGED <<fixed, server, lookup>>
  PROVE  LInv'
<1>1. /\ at = "fetch" /\ at' = "over" /\ outcome' = "failed" /\ asked' = Append(asked, cur)
      /\ UNCHANGED <<cur, link, served, got>>
      /\ UNCHANGED <<code, prefix, echo, consumer, original, table, deleted, scanned, found>>
  BY DEF FetchFails, End, fixed, server, lookup
<1>2. Kept' /\ Rising' /\ Passed' = Passed
  BY <1>1, Stays
<1>3. asked \in Seq(Queries) /\ Len(asked') = Len(asked) + 1
  <2>1. asked \in Seq(Queries)
    BY DEF IInv, TypeOK
  <2> QED
    BY <1>1, <2>1
<1>4. Follows'
  <2>1. PageNumber(cur)' = PageNumber(cur)
    BY <1>1 DEF PageNumber
  <2>2. PageNumber(cur) = Len(asked) + 1
    BY <1>1 DEF LInv, Follows
  <2> QED
    BY <1>1, <1>3, <2>1, <2>2 DEF LInv, Follows
<1>5. Full'
  BY <1>1 DEF Full
<1>6. Behind'
  BY <1>1, <1>2 DEF LInv, Behind
<1>7. Counts'
  <2>1. consumer = "lookup" => (Len(asked') - 1) * PageSize < MaxCandidates
    BY <1>1, RoomLeft
  <2>2. outcome = "none"
    BY <1>1 DEF IInv, Account
  <2>3. consumer = "lookup" => scanned < MaxCandidates /\ Len(got) <= MaxCandidates
    BY <2>2 DEF LInv, Counts
  <2> QED
    BY <1>1, <2>1, <2>3 DEF LInv, Counts
<1> QED
  BY <1>2, <1>4, <1>5, <1>6, <1>7 DEF LInv

(* What is passed after a page: the selected rows up to its last one.      *)
LEMMA PassedByPage ==
  ASSUME IInv, LInv, at = "fetch", InRange(cur),
         served' = served \o PageOf(cur),
         UNCHANGED <<table, deleted, original, code, prefix, consumer>>
  PROVE  /\ Cardinality(Passed') <= Len(served')
         /\ Total(cur) <= (Len(asked) + 1) * PageSize =>
              {r \in original \ deleted : Matches(r, Start)} \subseteq Passed'
<1> DEFINE rows == PageOf(cur)
           L == Len(served)
           S == Selected(cur)
           m == Len(rows)
<1>1. /\ served \in Seq(Rows) /\ Kept /\ Follows
  BY DEF IInv, TypeOK, LInv
<1>2. /\ PageNumber(cur) = Len(asked) + 1 /\ First(cur) = L
      /\ rows \in PageRows /\ m = Length(cur) /\ m \in 0..PageSize
      /\ L + m <= Total(cur)
      /\ \A i \in 1..m : rows[i] \in S /\ rows[i] \in Nat /\ Rank(rows[i], cur) = L + i - 1
      /\ \A i \in 1..m, j \in 1..L : served[j] < rows[i]
      /\ \A i, j \in 1..m : i < j => rows[i] < rows[j]
  BY PageIsAhead
<1>3. rows \in Seq(Rows)
  BY <1>2, RowsTyped
<1>4. L \in Nat /\ m \in Nat /\ PageSize \in Nat /\ PageSize > 0
  BY <1>1, <1>3, SizeAssumption, ServerAssumption
<1> HIDE DEF rows
<1>5. /\ Len(served') = L + m
      /\ \A i \in 1..L : served'[i] = served[i]
      /\ \A i \in 1..m : served'[L + i] = rows[i]
  BY <1>1, <1>3, <1>4 DEF rows
<1>6. S = {r \in table : Matches(r, Start)} /\ \A r : Matches(r, Start)' <=> Matches(r, Start)
  BY <1>1, SameFilter DEF Matches
<1>7. IsFiniteSet(S) /\ S \subseteq Nat /\ Total(cur) = Cardinality(S) /\ Total(cur) \in Nat
  BY <1>1, Finite, ServerAssumption DEF Total
<1>8. {r \in original \ deleted : Matches(r, Start)} \subseteq S
  BY <1>1, <1>6 DEF Kept
<1>9. CASE m = 0
  <2>1. Passed' = Passed
    <3>1. Len(served') = L /\ \A i \in 1..L : served'[i] = served[i]
      BY <1>4, <1>5, <1>9
    <3>2. \A r : (\E i \in 1..Len(served') : r <= served'[i])
                  <=> (\E i \in 1..L : r <= served[i])
      BY <3>1
    <3> QED
      BY <1>6, <3>2 DEF Passed
  <2>2. Cardinality(Passed) <= L
    BY DEF LInv, Behind
  <2>3. Total(cur) = L
    <3>1. m = IF L + PageSize <= Total(cur) THEN PageSize ELSE Total(cur) - L
      BY <1>2 DEF Length
    <3> HIDE DEF L, m
    <3> QED
      BY <1>4, <1>7, <1>9, <3>1
  <2>4. S = {}
    <3>1. PageNumber(cur) = 1
      BY <1>2, <1>4, <2>3 DEF InRange
    <3>2. First(cur) = 0
      BY <3>1, <1>4 DEF First
    <3>3. Cardinality(S) = 0
      BY <1>2, <1>7, <2>3, <3>2
    <3> QED
      BY <1>7, <3>3, FS_EmptySet
  <2> QED
    BY <1>4, <1>5, <1>8, <1>9, <2>1, <2>2, <2>4
<1>10. CASE m > 0
  <2> DEFINE z == rows[m]
  <2>1. m \in 1..m /\ L + m \in 1..(L + m)
    BY <1>4, <1>10
  <2>2. z \in S /\ z \in Nat /\ Rank(z, cur) = L + m - 1
    BY <1>2, <2>1
  <2>3. served'[L + m] = z
    BY <1>5, <2>1
  <2>4. ASSUME NEW i \in 1..(L + m)
        PROVE  served'[i] \in Nat /\ served'[i] <= z
    <3>1. CASE i \in 1..L
      <4>1. served'[i] = served[i] /\ served[i] < z
        BY <1>2, <1>5, <2>1, <3>1
      <4>2. served[i] \in Rows
        BY <1>1, <3>1
      <4>3. served[i] \in Nat
        BY <4>2, ServerAssumption
      <4> QED
        BY <2>2, <4>1, <4>3
    <3>2. CASE i \notin 1..L
      <4> DEFINE k == i - L
      <4>1. k \in 1..m /\ i = L + k
        BY <1>4, <3>2
      <4>2. served'[i] = rows[k] /\ rows[k] \in Nat
        BY <1>2, <1>5, <4>1
      <4>3. k = m \/ k < m
        BY <1>4, <4>1
      <4>4. rows[k] <= z
        <5>1. CASE k = m
          BY <2>2, <5>1
        <5>2. CASE k < m
          BY <1>2, <2>1, <2>2, <4>1, <4>2, <5>2
        <5> QED
          BY <4>3, <5>1, <5>2
      <4> QED
        BY <4>2, <4>4
    <3> QED
      BY <3>1, <3>2
  <2>5. Passed' = {s \in S : s <= z}
    <3>1. ASSUME NEW s \in Passed'
          PROVE  s \in S /\ s <= z
      <4>1. PICK i \in 1..Len(served') : s <= served'[i]
        BY DEF Passed
      <4>2. s \in S /\ s \in Nat
        BY <1>6, <1>7 DEF Passed
      <4>3. served'[i] \in Nat /\ served'[i] <= z
        BY <1>5, <2>4
      <4> QED
        BY <2>2, <4>1, <4>2, <4>3
    <3>2. ASSUME NEW s \in S, s <= z
          PROVE  s \in Passed'
      <4>1. L + m \in 1..Len(served') /\ s <= served'[L + m]
        BY <1>5, <2>1, <2>3, <3>2
      <4> QED
        BY <1>6, <4>1 DEF Passed
    <3> QED
      BY <3>1, <3>2
  <2>6. IsFiniteSet(Passed') /\ Cardinality(Passed') = L + m
    <3>1. /\ IsFiniteSet({s \in S : s <= z})
          /\ Cardinality({s \in S : s <= z}) = Rank(z, cur) + 1
      BY <1>1, <2>2, UpTo
    <3> QED
      BY <1>4, <2>2, <2>5, <3>1
  <2>7. ASSUME Total(cur) <= (Len(asked) + 1) * PageSize
        PROVE  S \subseteq Passed'
    <3>1. Len(asked) \in Nat /\ L = Len(asked) * PageSize
      BY DEF IInv, TypeOK, LInv, Full
    <3>2. (Len(asked) + 1) * PageSize = L + PageSize
      BY <1>4, <3>1
    <3>3. L + m = Total(cur)
      <4>1. m = IF L + PageSize <= Total(cur) THEN PageSize ELSE Total(cur) - L
        BY <1>2 DEF Length
      <4>2. Total(cur) <= L + PageSize
        BY <2>7, <3>2
      <4> HIDE DEF L, m
      <4> QED
        BY <1>4, <1>7, <4>1, <4>2
    <3>4. Passed' \in SUBSET S
      BY <2>5
    <3> QED
      BY <1>7, <2>6, <3>3, <3>4, FS_Subset
  <2> QED
    BY <1>4, <1>5, <1>8, <2>6, <2>7
<1> QED
  BY <1>4, <1>9, <1>10

(* A page that is fetched continues what was served, with the first rows   *)
(* the walk has not passed.                                                *)
LEMMA StepFetched ==
  ASSUME IInv, LInv, InRange(cur), Fetch(PageOf(cur), NextOf(cur)),
         UNCHANGED <<fixed, server, lookup>>
  PROVE  LInv' /\ PageOf(cur) \in PageRows /\ NextOf(cur) \in Links
<1> DEFINE rows == PageOf(cur)
           next == NextOf(cur)
           L == Len(served)
           m == Len(rows)
           n == Len(asked) + 1
<1>1. /\ at = "fetch" /\ at' = "rows" /\ link' = next /\ asked' = Append(asked, cur)
      /\ served' = served \o rows
      /\ UNCHANGED <<cur, outcome, got>>
      /\ UNCHANGED <<code, prefix, echo, consumer, original, table, deleted, scanned, found>>
  BY DEF Fetch, fixed, server, lookup
<1>2. /\ served \in Seq(Rows) /\ asked \in Seq(Queries) /\ cur \in Queries
      /\ Kept /\ Follows /\ Rising /\ Behind /\ Counts
  BY DEF IInv, TypeOK, LInv
<1>3. /\ PageNumber(cur) = n /\ First(cur) = L
      /\ rows \in PageRows /\ m = Length(cur) /\ m \in 0..PageSize
      /\ \A i \in 1..m : rows[i] \in Selected(cur) /\ rows[i] \in Nat
      /\ \A i \in 1..m, j \in 1..L : served[j] < rows[i]
      /\ \A i, j \in 1..m : i < j => rows[i] < rows[j]
  BY <1>1, PageIsAhead
<1>4. L \in Nat /\ m \in Nat /\ n \in Nat \ {0} /\ Len(asked) \in Nat
      /\ PageSize \in Nat /\ PageSize > 0
  BY <1>2, <1>3, SizeAssumption, ServerAssumption
<1>5. rows \in Seq(Rows)
  BY <1>3, RowsTyped
<1>6. /\ next \in Links
      /\ next # NoLink => /\ n * PageSize < Total(cur)
                          /\ "page" \in DOMAIN next /\ next["page"] = n + 1
                          /\ "emp_code" \in DOMAIN next => "emp_code" \in DOMAIN cur
      /\ next = NoLink => Total(cur) <= n * PageSize
  BY <1>2, <1>3, <1>4, NextShown
<1>7. Len(asked') = n
  BY <1>1, <1>2
<1>8. PageNumber(cur)' = PageNumber(cur)
  BY <1>1 DEF PageNumber
<1> HIDE DEF rows, next
<1>9. /\ Len(served') = L + m
      /\ \A i \in 1..L : served'[i] = served[i]
      /\ \A i \in 1..m : served'[L + i] = rows[i]
  BY <1>1, <1>2, <1>5
<1>10. ASSUME NEW i \in 1..Len(served')
       PROVE  \/ i \in 1..L /\ served'[i] = served[i]
              \/ i - L \in 1..m /\ served'[i] = rows[i - L] /\ i > L
  <2>1. i \in 1..(L + m)
    BY <1>9
  <2>2. CASE i \in 1..L
    BY <1>9, <2>2
  <2>3. CASE i \notin 1..L
    <3>1. i - L \in 1..m /\ i = L + (i - L) /\ i > L
      BY <1>4, <2>1, <2>3
    <3> QED
      BY <1>9, <3>1
  <2> QED
    BY <2>2, <2>3
<1>11. Selected(cur) = {r \in table : Matches(r, Start)}
       /\ \A r : Matches(r, Start)' <=> Matches(r, Start)
  BY <1>1, <1>2, SameFilter DEF Matches
<1>12. Kept'
  <2>1. \A i \in 1..Len(served') : served'[i] \in table \cup deleted
    BY <1>2, <1>3, <1>10, <1>11 DEF Kept
  <2> QED
    BY <1>1, <1>2, <2>1 DEF Kept
<1>13. Follows'
  <2>1. "emp_code" \in DOMAIN cur <=> "emp_code" \in DOMAIN Start
    BY <1>2 DEF Follows
  <2> QED
    BY <1>1, <1>3, <1>6, <1>7, <1>8, <2>1 DEF Follows
<1>14. Full'
  <2>1. ASSUME next # NoLink
        PROVE  L + m = n * PageSize
    <3>1. L = Len(asked) * PageSize
      BY <1>1 DEF LInv, Full
    <3>2. n * PageSize = L + PageSize
      BY <1>4, <3>1
    <3>3. m = IF L + PageSize <= Total(cur) THEN PageSize ELSE Total(cur) - L
      BY <1>3 DEF Length
    <3>4. L + PageSize < Total(cur) /\ Total(cur) \in Nat
      BY <1>2, <1>6, <2>1, <3>2, Finite
    <3>5. L + PageSize <= Total(cur)
      BY <1>4, <3>4
    <3> QED
      BY <3>2, <3>3, <3>5
  <2> QED
    BY <1>1, <1>7, <1>9, <2>1 DEF Full
<1>15. Rising'
  <2>1. ASSUME NEW i \in 1..Len(served')
        PROVE  Matches(served'[i], Start)
    <3>1. CASE i \in 1..L /\ served'[i] = served[i]
      BY <1>2, <1>11, <3>1 DEF Rising
    <3>2. CASE i - L \in 1..m /\ served'[i] = rows[i - L]
      <4>1. rows[i - L] \in Selected(cur)
        BY <1>3, <3>2
      <4> QED
        BY <1>11, <3>2, <4>1
    <3> QED
      BY <1>10, <3>1, <3>2
  <2>2. ASSUME NEW i \in 1..Len(served'), NEW j \in 1..Len(served'), i < j
        PROVE  served'[i] < served'[j]
    <3>1. CASE i \in 1..L /\ served'[i] = served[i] /\ j \in 1..L /\ served'[j] = served[j]
      BY <1>2, <2>2, <3>1 DEF Rising
    <3>2. CASE /\ i \in 1..L /\ served'[i] = served[i]
               /\ j - L \in 1..m /\ served'[j] = rows[j - L]
      BY <1>3, <3>2
    <3>3. CASE /\ i - L \in 1..m /\ served'[i] = rows[i - L]
               /\ j - L \in 1..m /\ served'[j] = rows[j - L]
      <4>1. i - L < j - L
        BY <1>4, <1>9, <2>2
      <4> QED
        BY <1>3, <3>3, <4>1
    <3>4. ~(i > L /\ j \in 1..L)
      BY <1>4, <1>9, <2>2
    <3> QED
      BY <1>10, <3>1, <3>2, <3>3, <3>4
  <2>3. \A i \in 1..Len(served') : Matches(served'[i], Start)
    BY <2>1
  <2> QED
    BY <1>1, <2>2, <2>3 DEF Rising, Matches
<1>16. Behind'
  <2>1. /\ Cardinality(Passed') <= Len(served')
        /\ Total(cur) <= (Len(asked) + 1) * PageSize =>
             {r \in original \ deleted : Matches(r, Start)} \subseteq Passed'
    BY <1>1, PassedByPage DEF rows
  <2>2. outcome = "none"
    BY <1>1 DEF IInv, Account
  <2>3. {r \in original \ deleted : Matches(r, Start)}'
          = {r \in original \ deleted : Matches(r, Start)}
    BY <1>1, <1>11
  <2> QED
    BY <1>1, <1>6, <2>1, <2>2, <2>3 DEF Behind
<1>17. Counts'
  <2>1. consumer = "lookup" => (Len(asked') - 1) * PageSize < MaxCandidates
    BY <1>1, RoomLeft
  <2>2. outcome = "none"
    BY <1>1 DEF IInv, Account
  <2> QED
    BY <1>1, <1>2, <2>1, <2>2 DEF Counts
<1> QED
  BY <1>3, <1>6, <1>12, <1>13, <1>14, <1>15, <1>16, <1>17 DEF LInv, rows, next

(* The server answers a request with the page asked for, or with 404.      *)
LEMMA StepServe ==
  ASSUME IInv, LInv, Serve
  PROVE  LInv' /\ Next
<1>1. CASE InRange(cur)
  <2>1. Fetch(PageOf(cur), NextOf(cur)) /\ UNCHANGED <<fixed, server, lookup>>
    BY <1>1 DEF Serve
  <2>2. LInv' /\ PageOf(cur) \in PageRows /\ NextOf(cur) \in Links
    BY <1>1, <2>1, StepFetched
  <2> QED
    BY <2>1, <2>2 DEF Next
<1>2. CASE ~InRange(cur)
  <2>1. FetchFails /\ UNCHANGED <<fixed, server, lookup>>
    BY <1>2 DEF Serve
  <2> QED
    BY <2>1, StepFails DEF Next
<1> QED
  BY <1>1, <1>2

(* A row that is appended comes after all the walk has passed.             *)
LEMMA StepInsert ==
  ASSUME IInv, LInv, NEW r \in Rows, Insert(r)
  PROVE  LInv'
<1>1. /\ \A s \in table \cup deleted : s < r
      /\ table' = table \cup {r}
      /\ UNCHANGED <<at, cur, link, outcome, asked, served, got>>
      /\ UNCHANGED <<code, prefix, echo, consumer, original, deleted, scanned, found>>
  BY DEF Insert, walk, state, fixed, lookup
<1>2. Kept /\ Follows /\ Full /\ Rising /\ Behind /\ Counts
  BY DEF LInv
<1>3. table \cup deleted \subseteq Rows /\ Rows \subseteq Nat
  BY <1>2, ServerAssumption DEF Kept
<1>4. r \notin table \cup deleted
  BY <1>1, <1>3
<1>5. Kept'
  BY <1>1, <1>2, <1>4 DEF Kept
<1>6. Follows' /\ Full'
  <2>1. PageNumber(cur)' = PageNumber(cur)
    BY <1>1 DEF PageNumber
  <2> QED
    BY <1>1, <1>2, <2>1 DEF Follows, Full
<1>7. Rising' /\ Counts'
  BY <1>1, <1>2 DEF Rising, Matches, Counts
<1>8. Passed' = Passed
  <2>1. \A i \in 1..Len(served) : served[i] \in table \cup deleted
    BY <1>2 DEF Kept
  <2>2. ASSUME NEW i \in 1..Len(served)
        PROVE  ~(r <= served[i])
    <3>1. served[i] \in Nat /\ served[i] < r /\ r \in Nat
      BY <1>1, <1>3, <2>1
    <3> QED
      BY <3>1
  <2>3. \A s : s \in table' <=> s \in table \/ s = r
    BY <1>1
  <2>4. \A s : Matches(s, Start)' <=> Matches(s, Start)
    BY <1>1 DEF Matches
  <2> QED
    BY <1>1, <2>2, <2>3, <2>4 DEF Passed
<1>9. Behind'
  BY <1>1, <1>2, <1>8 DEF Behind, Matches
<1> QED
  BY <1>5, <1>6, <1>7, <1>9 DEF LInv

(* A row that is deleted is no longer one the walk has passed.             *)
LEMMA StepDelete ==
  ASSUME IInv, LInv, NEW r \in Rows, Delete(r)
  PROVE  LInv'
<1>1. /\ r \in table /\ table' = table \ {r} /\ deleted' = deleted \cup {r}
      /\ UNCHANGED <<at, cur, link, outcome, asked, served, got>>
      /\ UNCHANGED <<code, prefix, echo, consumer, original, scanned, found>>
  BY DEF Delete, walk, state, fixed, lookup
<1>2. Kept /\ Follows /\ Full /\ Rising /\ Behind /\ Counts
  BY DEF LInv
<1>3. Kept'
  <2>1. table' \cup deleted' = table \cup deleted /\ table' \cap deleted' = {}
    BY <1>1, <1>2 DEF Kept
  <2>2. table' \subseteq Rows /\ deleted' \subseteq Rows
    BY <1>1, <1>2 DEF Kept
  <2> QED
    BY <1>1, <1>2, <2>1, <2>2 DEF Kept
<1>4. Follows' /\ Full'
  <2>1. PageNumber(cur)' = PageNumber(cur)
    BY <1>1 DEF PageNumber
  <2> QED
    BY <1>1, <1>2, <2>1 DEF Follows, Full
<1>5. Rising' /\ Counts'
  BY <1>1, <1>2 DEF Rising, Matches, Counts
<1>6. Passed' = Passed \ {r}
  <2>1. \A s : Matches(s, Start)' <=> Matches(s, Start)
    BY <1>1 DEF Matches
  <2> QED
    BY <1>1, <2>1 DEF Passed
<1>7. Cardinality(Passed') <= Cardinality(Passed) /\ Cardinality(Passed') \in Nat
      /\ Cardinality(Passed) \in Nat
  <2>1. IsFiniteSet(Passed)
    <3>1. Passed \subseteq table
      BY DEF Passed
    <3> QED
      BY <1>2, <3>1, Finite, FS_Subset
  <2>2. Passed' \in SUBSET Passed
    BY <1>6
  <2> QED
    BY <2>1, <2>2, FS_Subset, FS_CardinalityType
<1>8. Cardinality(Passed') <= Len(served')
  <2>1. Cardinality(Passed) <= Len(served) /\ Len(served) \in Nat
    BY <1>2 DEF Behind, IInv, TypeOK
  <2> QED
    BY <1>1, <1>7, <2>1
<1>9. Behind'
  <2>1. {s \in original' \ deleted' : Matches(s, Start)}
          = {s \in original \ deleted : Matches(s, Start)} \ {r}
    BY <1>1
  <2>2. {s \in original \ deleted : Matches(s, Start)}'
          = {s \in original' \ deleted' : Matches(s, Start)}
    BY <1>1 DEF Matches
  <2> QED
    BY <1>1, <1>2, <1>6, <1>8, <2>1, <2>2 DEF Behind
<1> QED
  BY <1>3, <1>4, <1>5, <1>9 DEF LInv

(* The next query is that of the page the link names, under the filter of  *)
(* the walk; a walk that ends here has passed all it should.               *)
LEMMA StepTurn ==
  ASSUME IInv, LInv, Turn, UNCHANGED <<fixed, server, lookup>>
  PROVE  LInv'
<1>1. /\ at = "rows" /\ UNCHANGED <<asked, served, got>>
      /\ UNCHANGED <<code, prefix, echo, consumer, original, table, deleted, scanned, found>>
  BY DEF Turn, LastPage, DeadEnd, TurnPage, HandedOver, fixed, server, lookup
<1>2. Kept /\ Follows /\ Full /\ Rising /\ Behind /\ Counts
  BY DEF LInv
<1>3. Kept' /\ Rising' /\ Passed' = Passed
  BY <1>1, Stays
<1>4. {r \in original \ deleted : Matches(r, Start)}'
        = {r \in original \ deleted : Matches(r, Start)}
  BY <1>1 DEF Matches
<1>5. outcome = "none"
  BY <1>1 DEF IInv, Account
<1>6. CASE LastPage \/ DeadEnd
  <2>1. /\ at' = "over" /\ cur' = cur
        /\ \/ link = NoLink /\ outcome' = "complete"
           \/ outcome' = "failed"
    BY <1>6 DEF LastPage, DeadEnd, End
  <2>2. PageNumber(cur)' = PageNumber(cur)
    BY <2>1 DEF PageNumber
  <2>3. Follows' /\ Full'
    BY <1>1, <1>2, <2>1, <2>2 DEF Follows, Full
  <2>4. Behind'
    BY <1>1, <1>2, <1>3, <1>4, <2>1 DEF Behind
  <2>5. Counts'
    BY <1>1, <1>2, <1>5, <2>1 DEF Counts
  <2> QED
    BY <1>3, <2>3, <2>4, <2>5 DEF LInv
<1>7. CASE TurnPage
  <2>1. /\ at' = "fetch" /\ cur' = Overlay(cur, link) /\ outcome' = outcome
        /\ link # NoLink
    BY <1>7 DEF TurnPage, LeadsOn
  <2>2. /\ "page" \in DOMAIN link /\ link["page"] = Len(asked) + 1
        /\ "emp_code" \in DOMAIN link => "emp_code" \in DOMAIN Start
        /\ "emp_code" \in DOMAIN cur <=> "emp_code" \in DOMAIN Start
    BY <1>1, <1>2, <2>1 DEF Follows
  <2>3. /\ DOMAIN cur' = DOMAIN cur \cup DOMAIN link
        /\ cur'["page"] = Len(asked) + 1
    BY <2>1, <2>2 DEF Overlay
  <2>4. PageNumber(cur)' = Len(asked) + 1
    BY <2>2, <2>3 DEF PageNumber
  <2>5. Follows'
    BY <1>1, <2>1, <2>2, <2>3, <2>4 DEF Follows
  <2>6. Full'
    BY <1>1, <1>2, <2>1 DEF Full
  <2>7. Behind'
    BY <1>1, <1>2, <1>3, <1>5, <2>1 DEF Behind
  <2>8. Counts'
    BY <1>1, <1>2, <1>5, <2>1 DEF Counts
  <2> QED
    BY <1>3, <2>5, <2>6, <2>7, <2>8 DEF LInv
<1> QED
  BY <1>6, <1>7 DEF Turn

(* A lookup goes on past a row while it is below its limit.                *)
LEMMA PassGoesOn ==
  ASSUME Pass
  PROVE  IF scanned' < MaxCandidates THEN Yield(TRUE) ELSE Yield(FALSE)
<1>1. CASE scanned' < MaxCandidates
  BY <1>1 DEF Pass, Yield
<1>2. CASE ~(scanned' < MaxCandidates)
  BY <1>2 DEF Pass, Yield
<1> QED
  BY <1>1, <1>2

(* A row is handed over: the lookup counts it, or returns it, or stops.    *)
LEMMA StepYield ==
  ASSUME IInv, LInv, Export \/ Match \/ Pass
  PROVE  LInv' /\ Consume
<1>1. /\ at = "rows" /\ handed < Len(page) /\ got' = Append(got, Row)
      /\ UNCHANGED <<cur, link, asked, served>>
      /\ UNCHANGED <<code, prefix, echo, consumer, original, table, deleted>>
      /\ (at' = at /\ outcome' = outcome) \/ (at' = "over" /\ outcome' = "stopped")
      /\ Consume
  <2>1. /\ UNCHANGED <<code, prefix, echo, consumer, original, table, deleted>>
        /\ Yield(TRUE) \/ Yield(FALSE)
    <3>1. CASE Export
      BY <3>1 DEF Export, fixed, server
    <3>2. CASE Match
      BY <3>2 DEF Match, fixed, server
    <3>3. CASE Pass
      BY <3>3, PassGoesOn DEF Pass, fixed, server
    <3> QED
      BY <3>1, <3>2, <3>3
  <2>2. Consume
    BY <2>1 DEF Consume
  <2>3. /\ at = "rows" /\ handed < Len(page) /\ got' = Append(got, Row)
        /\ UNCHANGED <<cur, link, asked, served>>
        /\ (at' = at /\ outcome' = outcome) \/ (at' = "over" /\ outcome' = "stopped")
    BY <2>1 DEF Yield, End, Row
  <2> QED
    BY <2>1, <2>2, <2>3
<1>2. Kept /\ Follows /\ Full /\ Rising /\ Behind /\ Counts
  BY DEF LInv
<1>3. Kept' /\ Rising' /\ Passed' = Passed
  BY <1>1, Stays
<1>4. outcome = "none"
  BY <1>1 DEF IInv, Account
<1>5. Follows' /\ Full'
  <2>1. PageNumber(cur)' = PageNumber(cur)
    BY <1>1 DEF PageNumber
  <2> QED
    BY <1>1, <1>2, <2>1 DEF Follows, Full
<1>6. Behind'
  <2>1. {r \in original \ deleted : Matches(r, Start)}'
          = {r \in original \ deleted : Matches(r, Start)}
    BY <1>1 DEF Matches
  <2> QED
    BY <1>1, <1>2, <1>3, <1>4, <2>1 DEF Behind
<1>7. /\ got \in Seq(Rows) /\ Len(got) \in Nat /\ Len(got') = Len(got) + 1
      /\ \A i \in 1..Len(got) : got'[i] = got[i]
      /\ got'[Len(got) + 1] = Row
  <2>1. got \in Seq(Rows)
    BY DEF IInv, TypeOK
  <2> QED
    BY <1>1, <2>1
<1>8. MaxCandidates \in Nat
  BY ServerAssumption
<1>9. Counts'
  <2>1. CASE Export
    <3>1. consumer = "export" /\ UNCHANGED <<found, scanned>>
      BY <2>1 DEF Export, lookup
    <3> QED
      BY <1>1, <1>2, <3>1 DEF Counts
  <2>2. CASE Match
    <3>1. /\ consumer = "lookup" /\ code[Row] = "exact" /\ found' = {Row}
          /\ scanned' = scanned /\ at' = "over" /\ outcome' = "stopped"
      BY <2>2 DEF Match, Yield, End, Row
    <3>2. found = {} /\ scanned = Len(got) /\ scanned < MaxCandidates
      BY <1>1, <1>2, <1>4, <3>1 DEF Counts
    <3>3. Len(got') <= MaxCandidates
      BY <1>7, <1>8, <3>2
    <3> QED
      BY <1>1, <1>2, <3>1, <3>3 DEF Counts
  <2>3. CASE Pass
    <3>1. /\ consumer = "lookup" /\ code[Row] # "exact" /\ found' = found
          /\ scanned' = scanned + 1
      BY <2>3 DEF Pass, Row
    <3>2. \/ scanned' < MaxCandidates /\ at' = at /\ outcome' = outcome
          \/ ~(scanned' < MaxCandidates) /\ at' = "over" /\ outcome' = "stopped"
      <4>1. Yield(TRUE) => at' = at /\ outcome' = outcome
        BY DEF Yield
      <4>2. Yield(FALSE) => at' = "over" /\ outcome' = "stopped"
        BY DEF Yield, End
      <4> QED
        BY <2>3, <4>1, <4>2, PassGoesOn
    <3>3. /\ found = {} /\ scanned = Len(got) /\ scanned < MaxCandidates
          /\ \A i \in 1..Len(got) : code[got[i]] # "exact"
      BY <1>1, <1>2, <1>4, <3>1 DEF Counts
    <3>4. scanned' = Len(got') /\ Len(got') <= MaxCandidates
      BY <1>7, <1>8, <3>1, <3>3
    <3>5. ~(scanned' < MaxCandidates) => scanned' = MaxCandidates
      BY <1>7, <1>8, <3>1, <3>3
    <3>6. \A i \in 1..Len(got') : code[got'[i]] # "exact"
      <4>1. ASSUME NEW i \in 1..Len(got')
            PROVE  i \in 1..Len(got) \/ i = Len(got) + 1
        BY <1>7
      <4> QED
        BY <1>7, <3>1, <3>3, <4>1
    <3> QED
      BY <1>1, <1>2, <1>4, <3>1, <3>2, <3>3, <3>4, <3>5, <3>6 DEF Counts
  <2> QED
    BY <2>1, <2>2, <2>3
<1> QED
  BY <1>1, <1>3, <1>5, <1>6, <1>9 DEF LInv

(* A walk over the live table begins at its first page, with nothing.      *)
LEMMA InitLInv == LInit => IInv /\ LInv
<1> SUFFICES ASSUME LInit PROVE IInv /\ LInv
  OBVIOUS
<1>1. IInv
  BY InitIInv DEF LInit
<1>2. /\ at = "fetch" /\ cur = Start /\ outcome = "none" /\ asked = <<>> /\ served = <<>>
      /\ got = <<>> /\ code \in [Rows -> Codes] /\ consumer \in Consumers
      /\ consumer = "lookup" => "emp_code" \in DOMAIN Start
      /\ table \subseteq Rows /\ deleted = {} /\ original = table /\ scanned = 0
      /\ found = {}
  BY DEF LInit, Init
<1>3. Len(asked) = 0 /\ Len(served) = 0 /\ Len(got) = 0
  BY <1>2
<1>4. Kept
  BY <1>2, <1>3 DEF Kept
<1>5. Follows
  BY <1>2, <1>3, QueryAssumption DEF Follows, PageNumber
<1>6. Full
  BY <1>2, <1>3, SizeAssumption DEF Full
<1>7. Rising
  BY <1>3 DEF Rising
<1>8. Behind
  <2>1. Passed = {}
    BY <1>3 DEF Passed
  <2>2. Cardinality(Passed) = 0
    BY <2>1, FS_EmptySet
  <2> QED
    BY <1>2, <1>3, <2>2 DEF Behind
<1>9. Counts
  <2>1. (Len(asked) - 1) * PageSize < MaxCandidates
    BY <1>3, SizeAssumption, ServerAssumption
  <2>2. MaxCandidates \in Nat \ {0}
    BY ServerAssumption
  <2> QED
    BY <1>2, <1>3, <2>1, <2>2 DEF Counts
<1> QED
  BY <1>1, <1>4, <1>5, <1>6, <1>7, <1>8, <1>9 DEF LInv

(* Every step over the live table keeps the invariant, and is a step of a  *)
(* walk or leaves the walk where it is.                                    *)
LEMMA StepList ==
  ASSUME IInv, LInv, [LNext]_lvars
  PROVE  LInv' /\ [Next]_walk
<1>1. CASE Serve
  BY <1>1, StepServe
<1>2. CASE ServeError
  BY <1>2, StepFails DEF ServeError, Next
<1>3. ASSUME NEW r \in Rows, Insert(r)
      PROVE  LInv' /\ [Next]_walk
  BY <1>3, StepInsert DEF Insert
<1>4. ASSUME NEW r \in Rows, Delete(r)
      PROVE  LInv' /\ [Next]_walk
  BY <1>4, StepDelete DEF Delete
<1>5. CASE Export \/ Match \/ Pass
  BY <1>5, StepYield DEF Next
<1>6. CASE Turn /\ UNCHANGED <<fixed, server, lookup>>
  BY <1>6, StepTurn DEF Next
<1>7. CASE UNCHANGED lvars
  <2>1. /\ UNCHANGED <<at, cur, link, outcome, asked, served, got>>
        /\ UNCHANGED <<code, prefix, echo, consumer, original, table, deleted, scanned, found>>
        /\ UNCHANGED walk
    BY <1>7 DEF lvars, walk, state, fixed, server, lookup
  <2>2. Kept' /\ Rising' /\ Passed' = Passed
    BY <2>1, Stays
  <2>3. PageNumber(cur)' = PageNumber(cur)
    BY <2>1 DEF PageNumber
  <2>4. Follows' /\ Full' /\ Counts'
    BY <2>1, <2>3 DEF LInv, Follows, Full, Counts
  <2>5. {r \in original \ deleted : Matches(r, Start)}'
          = {r \in original \ deleted : Matches(r, Start)}
    BY <2>1 DEF Matches
  <2>6. Behind'
    BY <2>1, <2>2, <2>5 DEF LInv, Behind
  <2> QED
    BY <2>1, <2>2, <2>4, <2>6 DEF LInv
<1> QED
  BY <1>1, <1>2, <1>3, <1>4, <1>5, <1>6, <1>7 DEF LNext

-----------------------------------------------------------------------------
(* In every state of a walk over a live table, the walk has passed no more *)
(* selected rows than it was served, in order, and the rows of a lookup    *)
(* are the ones it counted.                                                *)
THEOREM ListInductive == LSpec => [](IInv /\ LInv)
<1>1. LInit => IInv /\ LInv
  BY InitLInv
<1>2. IInv /\ LInv /\ [LNext]_lvars => (IInv /\ LInv)'
  <2> SUFFICES ASSUME IInv, LInv, [LNext]_lvars
               PROVE  IInv' /\ LInv'
    OBVIOUS
  <2>1. LInv' /\ [Next]_walk
    BY StepList
  <2>2. IInv'
    BY <2>1, StepIInv
  <2> QED
    BY <2>1, <2>2
<1> QED
  BY <1>1, <1>2, PTL DEF LSpec

(* A walk over the live table is a walk, over a server that pages by page  *)
(* number: what holds of a walk over any server holds of it.               *)
THEOREM ListIsAWalk == LSpec => Spec
<1>1. LInit => Init
  BY DEF LInit
<1>2. IInv /\ LInv /\ [LNext]_lvars => [Next]_walk
  BY StepList
<1> QED
  BY <1>1, <1>2, ListInductive, PTL DEF LSpec, Spec

(* A row the walk has passed is a row it was served, or there is a deleted *)
(* one to make up for it; a complete export misses no more.                *)
THEOREM LossKept == LSpec => []LossIsBounded
<1>1. ASSUME IInv, LInv
      PROVE  LossIsBounded
  <2>1. SUFFICES ASSUME outcome = "complete"
                 PROVE  LET kept == {r \in original \ deleted : Matches(r, Start)} IN
                        /\ Cardinality(kept \ Range(got)) <= Cardinality(deleted)
                        /\ \A i \in 1..Len(got) : Matches(got[i], Start)
                        /\ \A i, j \in 1..Len(got) : i < j => got[i] < got[j]
    BY DEF LossIsBounded
  <2> DEFINE kept == {r \in original \ deleted : Matches(r, Start)}
  <2>2. got = served
    BY <1>1, <2>1, IInvWhole DEF CompleteIsWhole
  <2>3. kept \subseteq Passed /\ Cardinality(Passed) <= Len(served)
    BY <1>1, <2>1 DEF LInv, Behind
  <2>4. /\ IsFiniteSet(Missed) /\ IsFiniteSet(deleted)
        /\ Cardinality(Missed) <= Cardinality(deleted)
    <3>1. served \in Seq(Rows) /\ Kept /\ Rising
      BY <1>1 DEF IInv, TypeOK, LInv
    <3> QED
      BY <2>3, <3>1, MissedFew
  <2>5. kept \ Range(got) \in SUBSET Missed
    BY <2>2, <2>3 DEF Missed
  <2>6. Cardinality(kept \ Range(got)) <= Cardinality(deleted)
    <3> HIDE DEF kept
    <3>1. Cardinality(kept \ Range(got)) <= Cardinality(Missed)
      BY <2>4, <2>5, FS_Subset
    <3>2. IsFiniteSet(kept \ Range(got))
      BY <2>4, <2>5, FS_Subset
    <3>3. /\ Cardinality(kept \ Range(got)) \in Nat /\ Cardinality(Missed) \in Nat
          /\ Cardinality(deleted) \in Nat
      BY <2>4, <3>2, FS_CardinalityType
    <3> QED
      BY <2>4, <3>1, <3>3
  <2>7. Rising
    BY <1>1 DEF LInv
  <2> QED
    BY <2>2, <2>6, <2>7 DEF Rising
<1> QED
  BY <1>1, ListInductive, PTL

(* A lookup never reads more than its limit of rows, nor asks for more     *)
(* pages than hold them (maxCodeCandidates).                               *)
THEOREM ScansAreBounded == LSpec => []ScanIsBounded
<1>1. ASSUME IInv, LInv
      PROVE  ScanIsBounded
  BY <1>1 DEF LInv, Counts, ScanIsBounded
<1> QED
  BY <1>1, ListInductive, PTL

(* The three answers of GetByCode are right about the table it scanned, as *)
(* long as nothing was deleted from under it.                              *)
THEOREM LookupsAreRight == LSpec => []LookupVerdict
<1>1. ASSUME IInv, LInv
      PROVE  LookupVerdict
  <2>1. SUFFICES ASSUME consumer = "lookup", at = "over", deleted = {}
                 PROVE  CASE Answer = "employee"    -> \A r \in found : code[r] = "exact"
                          [] Answer = "ErrNotFound" -> \A r \in original : code[r] # "exact"
                          [] Answer = "ErrTooManyCandidates" ->
                               /\ prefix
                               /\ Cardinality({r \in table : code[r] = "longer"})
                                    >= MaxCandidates
                          [] OTHER -> TRUE
    BY DEF LookupVerdict
  <2>2. Kept /\ Rising /\ Behind /\ Counts
    BY <1>1 DEF LInv
  <2>3. /\ served \in Seq(Rows) /\ got \in Seq(Rows)
        /\ Len(got) \in Nat /\ Len(served) \in Nat
    BY <1>1 DEF IInv, TypeOK
  <2>4. \A i \in 1..Len(got) : i \in 1..Len(served) /\ got[i] = served[i]
    BY <1>1, <2>3 DEF IInv, InOrder
  <2>5. "emp_code" \in DOMAIN Start
    BY <2>1, <2>2 DEF Counts
  <2>6. \A r \in found : code[r] = "exact"
    BY <2>2 DEF Counts
  <2>7. ASSUME Answer = "ErrNotFound"
        PROVE  \A r \in original : code[r] # "exact"
    <3>1. found = {} /\ outcome = "complete"
      BY <2>7 DEF Answer
    <3>2. SUFFICES ASSUME NEW r \in original, code[r] = "exact"
                   PROVE  FALSE
      OBVIOUS
    <3>3. r \in Passed
      <4>1. Matches(r, Start)
        BY <3>2 DEF Matches
      <4> QED
        BY <2>1, <2>2, <3>1, <4>1 DEF Behind
    <3>4. Missed = {}
      <4>1. /\ IsFiniteSet(Missed) /\ Cardinality(Missed) <= Cardinality(deleted)
        BY <2>2, <2>3, MissedFew DEF Behind
      <4>2. Cardinality(deleted) = 0
        BY <2>1, FS_EmptySet
      <4>3. Cardinality(Missed) = 0
        BY <4>1, <4>2, FS_CardinalityType
      <4> QED
        BY <4>1, <4>3, FS_EmptySet
    <3>5. r \in Range(served)
      BY <3>3, <3>4 DEF Missed
    <3>6. got = served
      BY <1>1, <3>1, IInvWhole DEF CompleteIsWhole
    <3>7. PICK i \in 1..Len(got) : r = got[i]
      BY <2>3, <3>5, <3>6 DEF Range
    <3> QED
      BY <2>1, <2>2, <3>1, <3>2, <3>7 DEF Counts
  <2>8. ASSUME Answer = "ErrTooManyCandidates"
        PROVE  /\ prefix
               /\ Cardinality({r \in table : code[r] = "longer"}) >= MaxCandidates
    <3> DEFINE longer == {r \in table : code[r] = "longer"}
    <3>1. found = {} /\ outcome = "stopped"
      BY <2>8 DEF Answer
    <3>2. /\ Len(got) = MaxCandidates /\ MaxCandidates \in Nat /\ MaxCandidates >= 1
          /\ \A i \in 1..Len(got) : code[got[i]] # "exact"
      BY <2>1, <2>2, <3>1, ServerAssumption DEF Counts
    <3>3. ASSUME NEW i \in 1..Len(got)
          PROVE  prefix /\ got[i] \in longer
      <4>1. i \in 1..Len(served) /\ got[i] = served[i]
        BY <2>4
      <4>2. Matches(got[i], Start) /\ got[i] \in table
        BY <2>1, <2>2, <4>1 DEF Rising, Kept
      <4> QED
        BY <2>5, <3>2, <4>2 DEF Matches
    <3>4. prefix
      BY <3>2, <3>3
    <3>5. IsFiniteSet(Range(got)) /\ Cardinality(Range(got)) = Len(got)
      <4>1. \A i, j \in 1..Len(got) : i < j => got[i] < got[j]
        BY <2>2, <2>4 DEF Rising
      <4> QED
        BY <2>3, <4>1, RisingCount
    <3>6. Range(got) \in SUBSET longer
      BY <2>3, <3>3 DEF Range
    <3>7. IsFiniteSet(longer)
      <4>1. IsFiniteSet(table) /\ longer \in SUBSET table
        BY <2>2, Finite
      <4> QED
        BY <4>1, FS_Subset
    <3>8. Cardinality(Range(got)) <= Cardinality(longer) /\ Cardinality(longer) \in Nat
      BY <3>6, <3>7, FS_Subset, FS_CardinalityType
    <3> HIDE DEF longer
    <3>9. Cardinality(longer) >= MaxCandidates
      BY <3>2, <3>5, <3>8
    <3> QED
      BY <3>4, <3>9 DEF longer
  <2> QED
    BY <2>6, <2>7, <2>8
<1> QED
  BY <1>1, ListInductive, PTL
=============================================================================
