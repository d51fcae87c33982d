------------------------------- MODULE ClarAssert -------------------------------
(***************************************************************************)
(* The assertions: what the macros of clar.h make of their arguments, what *)
(* clar__assert, clar__assert_equal and clar__assert_compare_i/u decide,   *)
(* and what the description of a failure shows.  No state: ClarReports     *)
(* makes these assertions in its tests.                                    *)
(*                                                                         *)
(* A string is a sequence of characters, or NULL; wide strings are treated *)
(* alike.  An integer argument is its value, whatever its type.            *)
(***************************************************************************)
EXTENDS Integers, Sequences

CONSTANTS
  NULL,
  IntBits,   (* The width of int,                                           *)
  MaxBits,   (* and of intmax_t and uintmax_t.                              *)
  BufSize    (* sizeof(buf) in clar__assert_equal.                          *)

ASSUME AssertAssumption ==
  /\ IntBits \in Nat \ {0} /\ MaxBits \in Nat \ {0} /\ IntBits <= MaxBits
  /\ BufSize \in Nat \ {0}
  /\ NULL \notin Seq(Nat)

Comparisons == {"EQ", "LT", "LE", "GT", "GE"}
Macros == {"true", "pass", "fail", "failed", "equal_s", "equal_strn", "equal_b",
           "equal_p", "compare_i", "equal_i_fmt", "compare_u"}

\* The characters of a string, without the one that ends it.
String == Seq(Nat \ {0})
AssertionCalls ==
  {c \in [macro: Macros, should_abort: BOOLEAN, cmp: Comparisons, i: Int, j: Int,
          s: String \cup {NULL}, t: String \cup {NULL}, len: Nat] :
     c.macro \notin {"compare_i", "compare_u"} => c.cmp = "EQ"}

\* A call of a macro of clar.h.  "true" is cl_assert and cl_check, "pass" and
\* "fail" are cl_must_pass, cl_check_pass and so on, "failed" is cl_fail and
\* cl_warning.
Assertion(macro, should_abort) ==
  [macro |-> macro, should_abort |-> should_abort, cmp |-> "EQ",
   i |-> 0, j |-> 0, s |-> NULL, t |-> NULL, len |-> 0]
--------------------------------------------------------------------------------
(* Conversions *)

\* How many values w bits have.
Pow2[w \in 0..MaxBits] == IF w = 0 THEN 1 ELSE 2 * Pow2[w - 1]

Signed(x, w) == LET m == x % Pow2[w] IN IF 2 * m >= Pow2[w] THEN m - Pow2[w] ELSE m
to_int(x)       == Signed(x, IntBits)
to_intmax_t(x)  == Signed(x, MaxBits)
to_uintmax_t(x) == x % Pow2[MaxBits]
--------------------------------------------------------------------------------
(* Comparing strings *)

LesserOf(m, n) == IF m < n THEN m ELSE n
CharAt(s, k) == IF k <= Len(s) THEN s[k] ELSE 0

strcmp_equal(s, t) == s = t

\* Mutant of strncmp_equal: the precision is off by one.
strncmp_equal_short(s, t, n) ==
  \A k \in 1..LesserOf(n - 1, Len(s) + 1) : CharAt(s, k) = CharAt(t, k)

\* strncmp takes a size_t: a negative int compares all.
strncmp_equal(s, t, n) ==
  \A k \in 1..(IF n < 0 THEN Len(s) + 1 ELSE LesserOf(n, Len(s) + 1)) :
    CharAt(s, k) = CharAt(t, k)

BothStrings(s, t) == s # NULL /\ t # NULL

equal_s(s, t)         == IF BothStrings(s, t) THEN strcmp_equal(s, t) ELSE s = t
equal_strn(s, t, len) == IF BothStrings(s, t) THEN strncmp_equal(s, t, len) ELSE s = t

clar__assert_compare(cmp, value1, value2) ==
  \/ cmp = "EQ" /\ value1 = value2
  \/ cmp = "LT" /\ value1 < value2
  \/ cmp = "LE" /\ value1 <= value2
  \/ cmp = "GT" /\ value1 > value2
  \/ cmp = "GE" /\ value1 >= value2

\* The condition clar.c finds.
Holds(c) ==
  \/ c.macro = "true" /\ c.i # 0
  \/ c.macro = "pass" /\ c.i >= 0
  \/ c.macro = "fail" /\ c.i < 0
  \/ c.macro = "equal_s"    /\ equal_s(c.s, c.t)
  \/ c.macro = "equal_strn" /\ equal_strn(c.s, c.t, to_int(c.len))
  \/ c.macro = "equal_b"    /\ ((c.i # 0) <=> (c.j # 0))
  \/ c.macro = "equal_p"    /\ c.i = c.j
  \/ c.macro \in {"compare_i", "equal_i_fmt"}
     /\ clar__assert_compare(c.cmp, to_intmax_t(c.i), to_intmax_t(c.j))
  \/ c.macro = "compare_u"
     /\ clar__assert_compare(c.cmp, to_uintmax_t(c.i), to_uintmax_t(c.j))
--------------------------------------------------------------------------------
(* Describing a failure.  A text is a sequence of signs: a character, a       *)
(* letter of NULL, a quote, " != ", a number.                                 *)

Sign(kind, value) == <<kind, value>>
Text(s)  == [k \in 1..Len(s) |-> Sign("char", s[k])]
NullText == [k \in 1..4 |-> Sign("null", k)]
Quote    == <<Sign("quote", 0)>>
Unequal  == <<Sign("!=", 0)>>

\* "%.*s": a negative precision is none.
Cut(text, len) == IF len < 0 THEN text ELSE SubSeq(text, 1, LesserOf(len, Len(text)))
Quoted(s, len) == IF s = NULL THEN Cut(NullText, len) ELSE Quote \o Cut(Text(s), len) \o Quote

\* Mutant of FirstDifference: it is counted from one.
FirstDifferenceFromOne(s, t, upto) ==
  CHOOSE pos \in 1..(upto + 1) :
    /\ pos = upto + 1 \/ CharAt(s, pos) # CharAt(t, pos)
    /\ \A k \in 1..(pos - 1) : CharAt(s, k) = CharAt(t, k)

\* The loops that look for the differing byte: at most up to upto.
FirstDifference(s, t, upto) ==
  CHOOSE pos \in 0..upto :
    /\ pos = upto \/ CharAt(s, pos + 1) # CharAt(t, pos + 1)
    /\ \A k \in 1..pos : CharAt(s, k) = CharAt(t, k)

Offset(s, t, upto) ==
  IF BothStrings(s, t) THEN <<Sign("at", FirstDifference(s, t, upto))>> ELSE <<>>

\* snprintf into buf.
Printed(text) == SubSeq(text, 1, LesserOf(BufSize - 1, Len(text)))

Numbers(m, n) == <<Sign("number", m), Sign("!=", 0), Sign("number", n)>>

Describe(c) ==
  CASE c.macro = "equal_s" ->
         Printed(Quoted(c.s, -1) \o Unequal \o Quoted(c.t, -1)
                 \o Offset(c.s, c.t, IF BothStrings(c.s, c.t) THEN Len(c.s) + 1 ELSE 0))
    [] c.macro = "equal_strn" ->
         LET len == to_int(c.len)
         IN Printed(Quoted(c.s, len) \o Unequal \o Quoted(c.t, len)
                    \o Offset(c.s, c.t, IF len < 0 THEN 0 ELSE len))
    [] c.macro = "equal_b" -> Numbers(IF c.i # 0 THEN 1 ELSE 0, IF c.j # 0 THEN 1 ELSE 0)
    [] c.macro = "equal_p" -> Numbers(c.i, c.j)
    [] c.macro = "compare_i" -> Numbers(to_intmax_t(c.i), to_intmax_t(c.j))
    [] c.macro = "compare_u" -> Numbers(to_uintmax_t(c.i), to_uintmax_t(c.j))
    [] c.macro = "equal_i_fmt" -> Numbers(to_int(c.i), to_int(c.j))
    [] OTHER -> <<>>
--------------------------------------------------------------------------------
(* What the macros say *)

\* The arguments keep their value when they are converted; a length that does not
\* fit an int is at least longer than the strings.
InRange(c) ==
  CASE c.macro \in {"compare_i", "equal_i_fmt"} ->
         to_intmax_t(c.i) = c.i /\ to_intmax_t(c.j) = c.j
    [] c.macro = "compare_u" -> to_uintmax_t(c.i) = c.i /\ to_uintmax_t(c.j) = c.j
    [] c.macro = "equal_strn" ->
         \/ to_int(c.len) = c.len
         \/ to_int(c.len) < 0 /\ (BothStrings(c.s, c.t) => c.len >= Len(c.s) /\ c.len >= Len(c.t))
    [] OTHER -> TRUE

Prefix(s, n) == SubSeq(s, 1, LesserOf(n, Len(s)))

\* What an assertion means to its author, in the numbers and the strings
\* themselves.
Meant(c) ==
  CASE c.macro = "true" -> c.i # 0
    [] c.macro = "pass" -> c.i \in Nat
    [] c.macro = "fail" -> c.i \notin Nat
    [] c.macro = "failed" -> FALSE
    [] c.macro = "equal_s" -> c.s = c.t
    [] c.macro = "equal_strn" ->
         c.s = c.t \/ (BothStrings(c.s, c.t) /\ Prefix(c.s, c.len) = Prefix(c.t, c.len))
    [] c.macro = "equal_b" -> {c.i, c.j} = {0} \/ 0 \notin {c.i, c.j}
    [] c.macro = "equal_p" -> c.i = c.j
    [] OTHER ->
         LET d == c.i - c.j
         IN c.cmp \in (IF d = 0 THEN {"EQ", "LE", "GE"}
                       ELSE IF d < 0 THEN {"LT", "LE"} ELSE {"GT", "GE"})
================================================================================
