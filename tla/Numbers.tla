------------------------------- MODULE Numbers -------------------------------
(***************************************************************************)
(* The lenient numbers and references of types.go: FlexInt reads an        *)
(* integer from a JSON number or a string that holds one, and falls back   *)
(* to a float64 when it is not written as a plain integer; Ref reads a     *)
(* related object or its bare identifier.                                  *)
(*                                                                         *)
(* Numbers are exact: a count of parts, of which a whole has Parts.  The   *)
(* widths are parameters, powers of two of any size: an int64 of the       *)
(* program has Int64 = 2^63, a float64 a Significand of 2^53, and the int  *)
(* of a host 2^31 or 2^63.                                                 *)
(***************************************************************************)
EXTENDS Integers, FiniteSetsExt

CONSTANTS
  Powers,      \* the powers of two, as far as the other constants need them
  Parts,       \* the finest fraction of a whole
  Significand, \* integers below it are float64s, and so are all their halves,
               \* quarters, ... as far as the significand reaches
  Int64,       \* integers are -Int64 .. Int64 - 1
  HostInts,    \* the same bound for the int of each kind of host
  MaxWhole     \* bound: the texts name numbers between -MaxWhole and MaxWhole

ASSUME PowerAssumption ==
  /\ Powers \subseteq Nat \ {0}
  /\ \A s \in Powers : s = 1 \/ \E r \in Powers : s = 2 * r

ASSUME WidthAssumption ==
  /\ Parts \in Powers /\ Significand \in Powers /\ Int64 \in Powers
  /\ HostInts \subseteq {n \in Powers : n <= Int64}
  /\ MaxWhole \in Nat
  /\ \E s \in Powers : MaxWhole * Parts < Significand * s

Magnitude(n) == IF n < 0 THEN -n ELSE n

Fits(n, bound) == -bound <= n /\ n < bound

(* The distance of the float64s around a number of n parts.                *)
Spacing(n) == Min({s \in Powers : Magnitude(n) < Significand * s})

(* The float64 nearest to n parts; of two, the one with an even            *)
(* significand.                                                            *)
Float64(n) ==
  LET s     == Spacing(n)
      below == (n \div s) * s
      up    == \/ 2 * (n - below) > s
               \/ 2 * (n - below) = s /\ (below \div s) % 2 = 1
  IN  IF up THEN below + s ELSE below

-----------------------------------------------------------------------------
(* A text is a number, plain when it has neither point nor exponent, or    *)
(* one of the others: null and the blank string; NaN and the infinities,   *)
(* which a string may name; and what is no number.                         *)
Numerals == [form : {"plain", "decimal"},
             n : (-MaxWhole * Parts)..(MaxWhole * Parts)]

Texts == {t \in Numerals : t.form = "plain" => t.n % Parts = 0} \cup
         [form : {"null", "blank", "special", "word"}, n : {0}]

NoInt   == [ok |-> FALSE, int |-> 0]
AnInt(i) == [ok |-> TRUE, int |-> i]

(* Mutant of ToInt: a value that does not fit wraps around.                *)
ToIntWraps(i, host) == AnInt(((i + host) % (2 * host)) - host)

ToInt(i, host) == IF Fits(i, host) THEN AnInt(i) ELSE NoInt

(* What FlexInt accepts of a float64.                                      *)
Whole(f) == f % Parts = 0 /\ Fits(f, Int64 * Parts)

(* FlexInt.UnmarshalJSON on a host with the given int.                     *)
FlexInt(t, host) ==
  CASE t.form \in {"null", "blank"}   -> AnInt(0)
    [] t.form \in {"special", "word"} -> NoInt
    [] t.form = "plain" /\ Fits(t.n, Int64 * Parts) -> ToInt(t.n \div Parts, host)
    [] OTHER -> LET f == Float64(t.n) IN
                IF Whole(f) THEN ToInt(f \div Parts, host) ELSE NoInt

-----------------------------------------------------------------------------
(* Ref.UnmarshalJSON: t is the bare identifier, or the member "id" of an   *)
(* expanded object, which reads as null when it is missing.                *)
RefOf(t, expanded, host) ==
  LET id == FlexInt(t, host) IN
  [ok |-> id.ok, id |-> id.int, object |-> expanded]

(* Mutant of RefText: a reference to nothing is written as the number 0.   *)
RefTextZero(ref) == [form |-> "plain", n |-> ref.id * Parts]

(* Ref.MarshalJSON: the identifier alone, null for no reference.           *)
RefText(ref) ==
  IF ref.id = 0 /\ ~ref.object THEN [form |-> "null", n |-> 0]
  ELSE [form |-> "plain", n |-> ref.id * Parts]

VARIABLES
  text,      \* what the server sent
  expanded,  \* whether it is the identifier of an expanded object
  host,      \* the int of the host
  read,      \* whether it was decoded
  int,       \* what FlexInt made of the text
  ref        \* what Ref made of it

nvars == <<text, expanded, host, read, int, ref>>

NInit ==
  /\ text \in Texts
  /\ expanded \in BOOLEAN
  /\ host \in HostInts
  /\ read = FALSE
  /\ int = NoInt
  /\ ref = RefOf([form |-> "word", n |-> 0], FALSE, host)

NRead ==
  /\ ~read
  /\ read' = TRUE
  /\ int' = FlexInt(text, host)
  /\ ref' = RefOf(text, expanded, host)
  /\ UNCHANGED <<text, expanded, host>>

-----------------------------------------------------------------------------
(* An integer is read as the number the text names or not at all: it never *)
(* wraps on a host with a narrow int, a fraction that a float64 can hold   *)
(* is refused, and what is accepted is exact when it is written plainly or *)
(* within the reach of a float64, and else off by the rounding of a        *)
(* float64 and no more.  A plain integer that fits is always accepted      *)
(* (comments of FlexInt and of its UnmarshalJSON).                         *)
IntIsTheNumber ==
  read /\ text \in Numerals =>
    LET plain == text.form = "plain" /\ Fits(text.n, Int64 * Parts)
        off   == int.int * Parts - text.n
    IN  /\ int.ok => Fits(int.int, host)
        /\ int.ok /\ off # 0 => /\ ~plain
                                /\ Float64(text.n) # text.n
                                /\ 2 * Magnitude(off) <= Spacing(text.n)
        /\ plain /\ Fits(text.n, host * Parts) => int.ok

(* A reference that is written back names the object it was read from, on  *)
(* every host, and a reference to nothing is written as null and never as  *)
(* the object 0 (comment of Ref).                                          *)
RefIsKept ==
  read /\ ref.ok =>
    LET again == RefOf(RefText(ref), FALSE, host) IN
    /\ again.ok /\ again.id = ref.id
    /\ ref.id = 0 /\ ~expanded => RefText(ref).form = "null"
=============================================================================
