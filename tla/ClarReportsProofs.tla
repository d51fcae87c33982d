--------------------------- MODULE ClarReportsProofs ---------------------------
(***************************************************************************)
(* Theorems about ClarReports: its steps are those of ClarRun, so that all *)
(* that is proved of ClarRun holds of it; and every assertion fails exactly*)
(* when what it says is false.                                             *)
(***************************************************************************)
EXTENDS ClarReports, ClarRunProofs, Induction

(* Conversions *)

\* How many values w bits have: twice as many as one bit less.
LEMMA Pow2Is ==
  /\ Pow2[0] = 1
  /\ \A w \in 1..MaxBits : Pow2[w] = 2 * Pow2[w - 1]
  /\ \A w \in 0..MaxBits : Pow2[w] \in Nat \ {0}
<1> DEFINE step == [w \in 1..MaxBits |-> [x \in Nat |-> 2 * x]]
           Body(f, w) == IF w = 0 THEN 1 ELSE 2 * f[w - 1]
<1>1. step \in [1..MaxBits -> [Nat -> Nat]]
  OBVIOUS
<1>2. \A w \in 1..MaxBits, x \in Nat : step[w][x] = 2 * x
  OBVIOUS
<1> HIDE DEF step
<1>3. PICK f : Recurses(f, MaxBits, Nat, 1, step)
  BY <1>1, Recursion, AssertAssumption
<1>4. \A w \in 1..MaxBits : f[w - 1] \in Nat
  BY <1>3, AssertAssumption DEF Recurses
<1>5. \A w \in 0..MaxBits : f[w] = Body(f, w)
  <2>1. \A w \in 1..MaxBits : f[w] = 2 * f[w - 1]
    BY <1>2, <1>3, <1>4 DEF Recurses
  <2> QED BY <1>3, <2>1, AssertAssumption DEF Recurses
<1>6. f = [w \in 0..MaxBits |-> Body(f, w)]
  BY <1>3, <1>5 DEF Recurses
<1>7. Pow2 = [w \in 0..MaxBits |-> Body(Pow2, w)]
  BY <1>6 DEF Pow2
<1>8. \A w \in 0..MaxBits : Pow2[w] = Body(Pow2, w)
  BY <1>7
<1> HIDE DEF Body
<1>9. Pow2[0] = 1 /\ \A w \in 1..MaxBits : Pow2[w] = 2 * Pow2[w - 1]
  BY <1>8, AssertAssumption DEF Body
<1> DEFINE S == {w \in 0..MaxBits : Pow2[w] \in Nat \ {0}}
<1>10. 0 \in S /\ \A w \in 1..MaxBits : w - 1 \in S => w \in S
  BY <1>9, AssertAssumption
<1> HIDE DEF S
<1>11. \A w \in 0..MaxBits : w \in S
  BY <1>10, Inductive, AssertAssumption
<1> QED BY <1>9, <1>11 DEF S

\* A wider type has no fewer values.
LEMMA Pow2Grows ==
  ASSUME NEW v \in 0..MaxBits, NEW w \in 0..MaxBits, v <= w
  PROVE  Pow2[v] <= Pow2[w]
<1> DEFINE S == {n \in 0..(MaxBits - v) : Pow2[v] <= Pow2[v + n]}
<1>1. MaxBits \in Nat /\ v \in Nat /\ MaxBits - v \in Nat
  BY AssertAssumption
<1>2. 0 \in S
  BY <1>1, Pow2Is
<1>3. ASSUME NEW n \in 1..(MaxBits - v), n - 1 \in S PROVE n \in S
  <2>1. Pow2[v + n] = 2 * Pow2[v + (n - 1)] /\ Pow2[v + (n - 1)] \in Nat
    BY <1>1, Pow2Is
  <2>2. Pow2[v] <= Pow2[v + (n - 1)] /\ Pow2[v] \in Nat
    BY <1>1, <1>3, Pow2Is
  <2> QED BY <1>1, <2>1, <2>2
<1> HIDE DEF S
<1>4. w - v \in S
  BY <1>1, <1>2, <1>3, Inductive
<1> QED BY <1>1, <1>4 DEF S

\* What an int can hold, intmax_t can.
LEMMA WiderKeeps ==
  ASSUME NEW x \in Int, to_int(x) = x
  PROVE  to_intmax_t(x) = x
<1> DEFINE p == Pow2[IntBits]
           q == Pow2[MaxBits]
<1>1. p \in Nat \ {0} /\ q \in Nat \ {0} /\ p <= q
  BY Pow2Is, Pow2Grows, AssertAssumption
<1>2. x = IF 2 * (x % p) >= p THEN (x % p) - p ELSE x % p
  BY DEF to_int, Signed
<1> HIDE DEF p, q
<1>3. x % p \in 0..(p - 1)
  BY <1>1
<1>4. -p <= 2 * x /\ 2 * x < p
  BY <1>1, <1>2, <1>3
<1>5. x % q = IF x >= 0 THEN x ELSE x + q
  BY <1>1, <1>4
<1>6. x = IF 2 * (x % q) >= q THEN (x % q) - q ELSE x % q
  BY <1>1, <1>4, <1>5
<1> QED BY <1>6 DEF to_intmax_t, Signed, q
--------------------------------------------------------------------------------
(* Comparing strings *)

\* What strcmp finds, character by character up to the end of one string.
LEMMA AllAlike ==
  ASSUME NEW s \in String, NEW t \in String
  PROVE  (\A k \in 1..(Len(s) + 1) : CharAt(s, k) = CharAt(t, k)) <=> s = t
<1>1. SUFFICES ASSUME \A k \in 1..(Len(s) + 1) : CharAt(s, k) = CharAt(t, k)
               PROVE  s = t
  OBVIOUS
<1>2. Len(s) \in Nat /\ Len(t) \in Nat
  BY DEF String
<1>3. \A k \in 1..Len(s) : s[k] # 0 /\ k <= Len(t) /\ s[k] = t[k]
  <2>1. \A k \in 1..Len(s) : s[k] # 0
    BY DEF String
  <2>2. \A k \in 1..Len(s) : k \in 1..(Len(s) + 1) /\ CharAt(s, k) = s[k]
    BY <1>2 DEF CharAt
  <2> QED BY <1>1, <2>1, <2>2 DEF CharAt
<1>4. ~(Len(s) + 1 <= Len(t))
  <2>1. CharAt(s, Len(s) + 1) = 0
    BY <1>2 DEF CharAt
  <2>2. Len(s) + 1 <= Len(t) => CharAt(t, Len(s) + 1) # 0
    BY <1>2 DEF CharAt, String
  <2> QED BY <1>1, <1>2, <2>1, <2>2
<1>5. Len(s) = Len(t)
  BY <1>2, <1>3, <1>4
<1> QED BY <1>2, <1>3, <1>5 DEF String

\* What strncmp finds: the same, in the first n characters.
LEMMA PrefixAlike ==
  ASSUME NEW s \in String, NEW t \in String, NEW n \in Nat
  PROVE  (\A k \in 1..LesserOf(n, Len(s) + 1) : CharAt(s, k) = CharAt(t, k))
           <=> Prefix(s, n) = Prefix(t, n)
<1>1. Len(s) \in Nat /\ Len(t) \in Nat
  BY DEF String
<1>2. \A k \in 1..Len(s) : s[k] # 0
  BY DEF String
<1>3. \A k \in 1..Len(t) : t[k] # 0
  BY DEF String
<1> DEFINE Alike == \A k \in 1..LesserOf(n, Len(s) + 1) : CharAt(s, k) = CharAt(t, k)
           ps == Prefix(s, n)
           pt == Prefix(t, n)
<1>4. /\ ps \in String /\ Len(ps) = LesserOf(n, Len(s))
      /\ \A k \in 1..LesserOf(n, Len(s)) : ps[k] = s[k]
  BY <1>1 DEF Prefix, LesserOf, String
<1>5. /\ pt \in String /\ Len(pt) = LesserOf(n, Len(t))
      /\ \A k \in 1..LesserOf(n, Len(t)) : pt[k] = t[k]
  BY <1>1 DEF Prefix, LesserOf, String
<1> HIDE DEF ps, pt
<1>6. ASSUME Alike PROVE ps = pt
  <2>1. \A k \in 1..LesserOf(n, Len(s)) : k <= Len(t) /\ s[k] = t[k]
    BY <1>1, <1>2, <1>6 DEF CharAt, LesserOf
  <2>2. n > Len(s) => Len(t) <= Len(s)
    <3>1. n > Len(s) => CharAt(t, Len(s) + 1) = 0
      BY <1>1, <1>6 DEF CharAt, LesserOf
    <3> QED BY <1>1, <1>3, <3>1 DEF CharAt
  <2>3. LesserOf(n, Len(s)) = LesserOf(n, Len(t))
    BY <1>1, <2>1, <2>2 DEF LesserOf
  <2>4. Len(ps) = Len(pt) /\ \A k \in 1..Len(ps) : ps[k] = pt[k]
    BY <1>4, <1>5, <2>1, <2>3
  <2> QED BY <1>4, <1>5, <2>4 DEF String
<1>7. ASSUME ps = pt PROVE Alike
  <2>1. LesserOf(n, Len(s)) = LesserOf(n, Len(t))
    BY <1>4, <1>5, <1>7
  <2>2. \A k \in 1..LesserOf(n, Len(s)) : CharAt(s, k) = CharAt(t, k)
    BY <1>1, <1>4, <1>5, <1>7, <2>1 DEF CharAt, LesserOf
  <2>3. n > Len(s) => CharAt(s, Len(s) + 1) = 0 /\ CharAt(t, Len(s) + 1) = 0
    BY <1>1, <2>1 DEF CharAt, LesserOf
  <2> QED BY <1>1, <2>2, <2>3 DEF LesserOf
<1> QED BY <1>6, <1>7 DEF ps, pt

\* In the range of its conversions, an assertion holds exactly if what it says of its
\* arguments is true (clar__assert, clar__assert_equal, clar__assert_compare_i and _u).
LEMMA HoldsAsMeant ==
  ASSUME NEW c \in AssertionCalls, InRange(c)
  PROVE  Holds(c) <=> Meant(c)
<1>1. /\ c.macro \in Macros /\ c.cmp \in Comparisons /\ c.i \in Int /\ c.j \in Int
      /\ c.s \in String \cup {NULL} /\ c.t \in String \cup {NULL} /\ c.len \in Nat
  BY DEF AssertionCalls
<1>2. CASE c.macro \in {"true", "pass", "fail", "failed", "equal_b", "equal_p"}
  <2>1. CASE c.macro \in {"true", "failed", "equal_p"}
    BY <2>1 DEF Holds, Meant
  <2>2. CASE c.macro \in {"pass", "fail"}
    BY <1>1, <2>2 DEF Holds, Meant
  <2>3. CASE c.macro = "equal_b"
    <3>1. Holds(c) <=> ((c.i # 0) <=> (c.j # 0))
      BY <2>3 DEF Holds
    <3>2. Meant(c) <=> {c.i, c.j} = {0} \/ 0 \notin {c.i, c.j}
      BY <2>3 DEF Meant
    <3> QED BY <3>1, <3>2
  <2> QED BY <1>2, <2>1, <2>2, <2>3
<1>3. CASE c.macro \in {"compare_i", "equal_i_fmt", "compare_u"}
  <2>1. Holds(c) <=> clar__assert_compare(c.cmp, c.i, c.j)
    BY <1>3 DEF Holds, InRange
  <2>2. Meant(c) <=> c.cmp \in (IF c.i - c.j = 0 THEN {"EQ", "LE", "GE"}
                       ELSE IF c.i - c.j < 0 THEN {"LT", "LE"} ELSE {"GT", "GE"})
    BY <1>3 DEF Meant
  <2> QED BY <1>1, <2>1, <2>2 DEF clar__assert_compare, Comparisons
<1>4. CASE c.macro = "equal_s"
  <2>1. Holds(c) <=> c.s = c.t
    BY <1>4 DEF Holds, equal_s, strcmp_equal
  <2> QED BY <1>4, <2>1 DEF Meant
<1>5. CASE c.macro = "equal_strn"
  <2>1. Holds(c) <=> equal_strn(c.s, c.t, to_int(c.len))
    BY <1>5 DEF Holds
  <2>2. Meant(c) <=> \/ c.s = c.t
                     \/ BothStrings(c.s, c.t) /\ Prefix(c.s, c.len) = Prefix(c.t, c.len)
    BY <1>5 DEF Meant
  <2>3. CASE ~BothStrings(c.s, c.t)
    BY <2>1, <2>2, <2>3 DEF equal_strn
  <2>4. CASE BothStrings(c.s, c.t)
    <3>1. c.s \in String /\ c.t \in String
      BY <1>1, <2>4 DEF BothStrings
    <3>2. CASE to_int(c.len) = c.len
      BY <1>1, <2>1, <2>2, <2>4, <3>1, <3>2, PrefixAlike DEF equal_strn, strncmp_equal
    <3>3. CASE to_int(c.len) # c.len
      <4>1. to_int(c.len) < 0 /\ c.len >= Len(c.s) /\ c.len >= Len(c.t)
        BY <1>5, <2>4, <3>3 DEF InRange
      <4>2. Prefix(c.s, c.len) = c.s /\ Prefix(c.t, c.len) = c.t
        BY <1>1, <3>1, <4>1 DEF Prefix, LesserOf, String
      <4>3. equal_strn(c.s, c.t, to_int(c.len)) <=> c.s = c.t
        BY <2>4, <3>1, <4>1, AllAlike DEF equal_strn, strncmp_equal
      <4> QED BY <2>1, <2>2, <2>4, <4>2, <4>3
    <3> QED BY <3>2, <3>3
  <2> QED BY <2>3, <2>4
<1> QED BY <1>1, <1>2, <1>3, <1>4, <1>5 DEF Macros
--------------------------------------------------------------------------------
(* Describing a failure *)

\* The loop that looks for the differing byte stops at the first one, or at its bound.
LEMMA FirstDifferenceIs ==
  ASSUME NEW s \in String, NEW t \in String, NEW upto \in Nat
  PROVE  LET pos == FirstDifference(s, t, upto)
         IN /\ pos \in 0..upto
            /\ pos = upto \/ CharAt(s, pos + 1) # CharAt(t, pos + 1)
            /\ \A k \in 1..pos : CharAt(s, k) = CharAt(t, k)
<1> DEFINE T == {pos \in 0..upto : pos = upto \/ CharAt(s, pos + 1) # CharAt(t, pos + 1)}
<1>1. PICK pos \in T : \A m \in T : pos <= m
  <2>1. T \in SUBSET Nat /\ upto \in T
    OBVIOUS
  <2> HIDE DEF T
  <2> QED BY <2>1, LeastNumber
<1>2. \A k \in 1..pos : CharAt(s, k) = CharAt(t, k)
  <2> SUFFICES ASSUME NEW k \in 1..pos PROVE CharAt(s, k) = CharAt(t, k)
    OBVIOUS
  <2>1. k - 1 \in 0..upto /\ k - 1 \notin T /\ (k - 1) + 1 = k
    BY <1>1
  <2> QED BY <2>1
<1> QED BY <1>1, <1>2 DEF FirstDifference

\* A concatenation begins as its first part.
LEMMA ConcatBegins ==
  ASSUME NEW S, NEW a \in Seq(S), NEW b \in Seq(S), Len(a) > 0
  PROVE  a \o b \in Seq(S) /\ Len(a \o b) > 0 /\ (a \o b)[1] = a[1]
<1>1. Len(a) \in Nat /\ Len(b) \in Nat
  BY LenProperties
<1>2. /\ a \o b \in Seq(S) /\ Len(a \o b) = Len(a) + Len(b)
      /\ \A i \in 1..Len(a) + Len(b) :
           (a \o b)[i] = IF i <= Len(a) THEN a[i] ELSE b[i - Len(a)]
  BY ConcatProperties
<1> QED BY <1>1, <1>2

\* The signs of what is quoted, and of " != ".
Plain == {"char", "null", "quote", "!="} \X Nat

LEMMA QuotedIsPlain ==
  ASSUME NEW s \in String \cup {NULL}, NEW len \in Int
  PROVE  /\ Quoted(s, len) \in Seq(Plain)
         /\ s = NULL => Quoted(s, len) = <<>> \/ Quoted(s, len)[1][1] = "null"
         /\ s # NULL => Quoted(s, len) # <<>> /\ Quoted(s, len)[1][1] = "quote"
<1>1. CASE s = NULL
  <2>1. /\ NullText \in Seq(Plain) /\ Len(NullText) = 4
        /\ NullText[1][1] = "null"
    BY DEF NullText, Sign, Plain
  <2> HIDE DEF Plain
  <2>2. /\ Cut(NullText, len) \in Seq(Plain)
        /\ Cut(NullText, len) = <<>> \/ Cut(NullText, len)[1] = NullText[1]
    BY <2>1 DEF Cut, LesserOf
  <2> QED BY <1>1, <2>1, <2>2 DEF Quoted
<1>2. CASE s # NULL
  <2>1. Text(s) \in Seq(Plain) /\ Quote \in Seq(Plain) /\ Len(Quote) = 1
        /\ Quote[1][1] = "quote"
    BY <1>2 DEF Text, Quote, Sign, Plain, String
  <2> HIDE DEF Plain
  <2>2. Cut(Text(s), len) \in Seq(Plain)
    BY <2>1 DEF Cut, LesserOf
  <2> DEFINE body == Cut(Text(s), len)
  <2> HIDE DEF body
  <2>3. /\ Quote \o body \in Seq(Plain) /\ Len(Quote \o body) > 0
        /\ (Quote \o body)[1] = Quote[1]
    BY <2>1, <2>2, ConcatBegins DEF body
  <2> DEFINE opened == Quote \o body
  <2> HIDE DEF opened
  <2>4. /\ opened \o Quote \in Seq(Plain)
        /\ Len(opened \o Quote) > 0
        /\ (opened \o Quote)[1] = opened[1]
    BY <2>1, <2>3, ConcatBegins DEF opened
  <2>5. opened \o Quote # <<>>
    BY <2>4, EmptySeq
  <2> QED BY <1>2, <2>1, <2>3, <2>4, <2>5 DEF Quoted, body, opened
<1> QED BY <1>1, <1>2

\* What is printed whole was not cut.
LEMMA PrintedWhole ==
  ASSUME NEW S, NEW text \in Seq(S), Len(Printed(text)) < BufSize - 1
  PROVE  Printed(text) = text
<1>1. BufSize - 1 \in Nat /\ Len(text) \in Nat
  BY AssertAssumption
<1>2. Len(Printed(text)) = LesserOf(BufSize - 1, Len(text))
  BY <1>1 DEF Printed, LesserOf
<1> QED BY <1>1, <1>2 DEF Printed, LesserOf

\* The two halves of a description.
LEMMA Halves ==
  ASSUME NEW left \in Seq(Plain), NEW right \in Seq(Plain)
  PROVE  LET text == left \o Unequal \o right
             k    == Len(left) + 1
         IN /\ text \in Seq(Plain) /\ k \in DOMAIN text
            /\ Len(text) \in Nat \ {0} /\ text[Len(text)] \in Plain
            /\ text[k] = Sign("!=", 0)
            /\ SubSeq(text, 1, k - 1) = left
            /\ SubSeq(text, k + 1, Len(text)) = right
<1>1. Unequal \in Seq(Plain) /\ Len(Unequal) = 1 /\ Unequal[1] = Sign("!=", 0)
  BY DEF Unequal, Plain, Sign
<1> HIDE DEF Plain
<1> DEFINE text == left \o Unequal \o right
           k    == Len(left) + 1
           upto == left \o Unequal
<1>2. /\ upto \in Seq(Plain) /\ Len(upto) = Len(left) + 1 /\ Len(left) \in Nat
      /\ \A i \in 1..Len(left) : upto[i] = left[i]
      /\ upto[Len(left) + 1] = Sign("!=", 0)
  <2>1. /\ upto \in Seq(Plain) /\ Len(upto) = Len(left) + Len(Unequal)
        /\ \A i \in 1..Len(left) + Len(Unequal) :
             upto[i] = IF i <= Len(left) THEN left[i] ELSE Unequal[i - Len(left)]
    BY <1>1, ConcatProperties
  <2>2. Len(left) \in Nat
    BY LenProperties
  <2> HIDE DEF upto
  <2>3. upto[Len(left) + 1] = Unequal[1]
    BY <1>1, <2>1, <2>2
  <2> QED BY <1>1, <2>1, <2>2, <2>3
<1> HIDE DEF upto
<1>3. /\ upto \o right \in Seq(Plain) /\ Len(upto \o right) = Len(upto) + Len(right)
      /\ \A i \in 1..Len(upto) : (upto \o right)[i] = upto[i]
      /\ \A i \in 1..Len(right) : (upto \o right)[Len(upto) + i] = right[i]
      /\ Len(right) \in Nat
  <2>1. Len(upto) \in Nat /\ Len(right) \in Nat
    BY <1>2, LenProperties
  <2>2. /\ upto \o right \in Seq(Plain) /\ Len(upto \o right) = Len(upto) + Len(right)
        /\ \A i \in 1..Len(upto) + Len(right) :
             (upto \o right)[i] = IF i <= Len(upto) THEN upto[i] ELSE right[i - Len(upto)]
    BY <1>2, ConcatProperties
  <2>3. \A i \in 1..Len(right) :
          /\ Len(upto) + i \in 1..Len(upto) + Len(right)
          /\ ~(Len(upto) + i <= Len(upto)) /\ (Len(upto) + i) - Len(upto) = i
    BY <2>1
  <2> QED BY <2>1, <2>2, <2>3
<1>4. /\ text \in Seq(Plain) /\ Len(text) = Len(left) + 1 + Len(right)
      /\ Len(left) \in Nat /\ Len(right) \in Nat
      /\ \A i \in 1..Len(left) : text[i] = left[i]
      /\ text[k] = Sign("!=", 0)
      /\ \A i \in 1..Len(right) : text[k + i] = right[i]
  BY <1>2, <1>3 DEF upto
<1> HIDE DEF text
<1>5. SubSeq(text, 1, k - 1) = left
  <2>1. \A i \in 1..(k - 1) : text[i] \in Plain
    BY <1>4, ElementOfSeq
  <2>2. /\ SubSeq(text, 1, k - 1) \in Seq(Plain)
        /\ Len(SubSeq(text, 1, k - 1)) = Len(left)
        /\ \A i \in 1..Len(left) : SubSeq(text, 1, k - 1)[i] = text[i]
    BY <1>4, <2>1, SubSeqProperties
  <2> QED BY <1>4, <2>2, SeqEqual
<1>6. SubSeq(text, k + 1, Len(text)) = right
  <2>1. \A i \in (k + 1)..Len(text) : text[i] \in Plain
    BY <1>4, ElementOfSeq
  <2>2. /\ SubSeq(text, k + 1, Len(text)) \in Seq(Plain)
        /\ Len(SubSeq(text, k + 1, Len(text))) = Len(right)
        /\ \A i \in 1..Len(right) : SubSeq(text, k + 1, Len(text))[i] = text[k + i]
    BY <1>4, <2>1, SubSeqProperties
  <2> QED BY <1>4, <2>2, SeqEqual
<1> QED BY <1>4, <1>5, <1>6, ElementOfSeq DEF text

\* The description of two strings, or of a string and NULL, or cut at a length.
LEMMA StringsDescribed ==
  ASSUME NEW c, NEW s \in String \cup {NULL}, NEW t \in String \cup {NULL},
         c.s = s, c.t = t, s = NULL => t # NULL,
         NEW len \in Int, NEW upto \in Nat,
         BothStrings(s, t) => \E k \in 1..upto : CharAt(s, k) # CharAt(t, k),
         c.macro = "equal_strn" => upto = to_int(c.len),
         NEW text, text = Printed(Quoted(s, len) \o Unequal \o Quoted(t, len)
                                  \o Offset(s, t, upto))
  PROVE  ShowsDifference(c, text)
<1> DEFINE left  == Quoted(s, len)
           right == Quoted(t, len)
           whole == left \o Unequal \o right
           k     == Len(left) + 1
<1>1. ~BothStrings(s, t) => left # right
  <2>1. /\ s = NULL => left = <<>> \/ left[1][1] = "null"
        /\ s # NULL => left # <<>> /\ left[1][1] = "quote"
    BY QuotedIsPlain
  <2>2. /\ t = NULL => right = <<>> \/ right[1][1] = "null"
        /\ t # NULL => right # <<>> /\ right[1][1] = "quote"
    BY QuotedIsPlain
  <2> HIDE DEF left, right
  <2>3. ~BothStrings(s, t) => (s = NULL /\ t # NULL) \/ (t = NULL /\ s # NULL)
    BY DEF BothStrings
  <2> QED BY <2>1, <2>2, <2>3
<1>2. left \in Seq(Plain) /\ right \in Seq(Plain)
  BY QuotedIsPlain
<1> HIDE DEF left, right
<1>3. /\ whole \in Seq(Plain) /\ k \in DOMAIN whole
      /\ Len(whole) \in Nat \ {0} /\ whole[Len(whole)] \in Plain
      /\ whole[k] = Sign("!=", 0)
      /\ SubSeq(whole, 1, k - 1) = left
      /\ SubSeq(whole, k + 1, Len(whole)) = right
  BY <1>2, Halves
<1> HIDE DEF whole, k
<1>4. SUFFICES ASSUME Len(text) < BufSize - 1
               PROVE  ShowsDifference(c, text)
  BY DEF ShowsDifference
<1>5. CASE ~BothStrings(s, t)
  <2>1. whole \o <<>> = whole
    BY <1>3, ConcatEmptySeq
  <2>2. text = whole
    BY <1>3, <1>4, <1>5, <2>1, PrintedWhole DEF Offset, left, right, whole
  <2>3. whole[Len(whole)][1] \notin {"at", "number"}
    BY <1>3 DEF Plain
  <2> QED BY <1>1, <1>3, <1>5, <2>2, <2>3 DEF ShowsDifference
<1>6. CASE BothStrings(s, t)
  <2> DEFINE pos == FirstDifference(s, t, upto)
             end == Sign("at", pos)
             S   == Plain \cup {end}
  <2>1. s \in String /\ t \in String
    BY <1>6 DEF BothStrings
  <2>2. /\ pos \in 0..upto
        /\ pos = upto \/ CharAt(s, pos + 1) # CharAt(t, pos + 1)
        /\ \A i \in 1..pos : CharAt(s, i) = CharAt(t, i)
    BY <2>1, FirstDifferenceIs
  <2> HIDE DEF pos
  <2>3. pos < upto /\ pos \in Nat
    BY <1>6, <2>2
  <2>4. CharAt(s, pos + 1) # CharAt(t, pos + 1)
    BY <2>2, <2>3
  <2>5. Prefix(s, pos) = Prefix(t, pos)
    <3>1. Len(s) \in Nat
      BY <2>1 DEF String
    <3>2. \A i \in 1..LesserOf(pos, Len(s) + 1) : CharAt(s, i) = CharAt(t, i)
      BY <2>2, <2>3, <3>1 DEF LesserOf
    <3> QED BY <2>1, <2>3, <3>2, PrefixAlike
  <2> HIDE DEF end, S
  <2>6. whole \in Seq(S) /\ <<end>> \in Seq(S) /\ Len(<<end>>) = 1
    <3>1. Plain \subseteq S /\ end \in S
      BY DEF S
    <3> QED BY <1>3, <3>1, SeqMonotonic
  <2>7. /\ whole \o <<end>> \in Seq(S) /\ Len(whole \o <<end>>) = Len(whole) + 1
        /\ (whole \o <<end>>)[Len(whole) + 1] = end
    BY <1>3, <2>6
  <2>8. text = whole \o <<end>>
    BY <1>4, <1>6, <2>7, PrintedWhole DEF Offset, left, right, whole, end, pos
  <2>9. text[Len(text)] = end /\ end[1] = "at" /\ end[2] = pos
    BY <2>7, <2>8 DEF end, Sign
  <2> QED BY <2>3, <2>4, <2>5, <2>9 DEF ShowsDifference
<1> QED BY <1>5, <1>6

\* The description of two numbers.
LEMMA NumbersDescribed ==
  ASSUME NEW c, NEW m, NEW n, NEW text, text = Numbers(m, n),
         ShowsAll(c) => ~clar__assert_compare(c.cmp, m, n)
  PROVE  ShowsDifference(c, text)
<1>1. text = <<Sign("number", m), Sign("!=", 0), Sign("number", n)>>
  BY DEF Numbers
<1>2. Len(text) = 3 /\ text[1][2] = m /\ text[3][2] = n /\ text[3][1] = "number"
  BY <1>1 DEF Sign
<1> QED BY <1>2 DEF ShowsDifference

\* The description of a failed assertion shows what differs.
LEMMA DescribesDifference ==
  ASSUME NEW c \in AssertionCalls, ~Holds(c)
  PROVE  ShowsDifference(c, Describe(c))
<1>1. /\ c.macro \in Macros /\ c.cmp \in Comparisons /\ c.i \in Int /\ c.j \in Int
      /\ c.s \in String \cup {NULL} /\ c.t \in String \cup {NULL} /\ c.len \in Nat
      /\ c.macro \notin {"compare_i", "compare_u"} => c.cmp = "EQ"
  BY DEF AssertionCalls
<1> DEFINE text == Describe(c)
<1>2. CASE c.macro \in {"true", "pass", "fail", "failed"}
  <2>1. text = <<>>
    BY <1>2 DEF Describe
  <2> QED BY <2>1 DEF ShowsDifference
<1>3. CASE c.macro = "equal_s"
  <2> DEFINE upto == IF BothStrings(c.s, c.t) THEN Len(c.s) + 1 ELSE 0
  <2>1. text = Printed(Quoted(c.s, -1) \o Unequal \o Quoted(c.t, -1)
                       \o Offset(c.s, c.t, upto))
    BY <1>3 DEF Describe
  <2>2. c.s # c.t
    BY <1>3 DEF Holds, equal_s, strcmp_equal
  <2>3. upto \in Nat /\ (BothStrings(c.s, c.t) => upto = Len(c.s) + 1)
    BY <1>1 DEF BothStrings, String
  <2> HIDE DEF upto
  <2>4. BothStrings(c.s, c.t) => \E k \in 1..upto : CharAt(c.s, k) # CharAt(c.t, k)
    BY <1>1, <2>2, <2>3, AllAlike DEF BothStrings
  <2>5. -1 \in Int /\ (c.s = NULL => c.t # NULL) /\ c.macro # "equal_strn"
    BY <1>3, <2>2
  <2> HIDE DEF text
  <2>6. ShowsDifference(c, text)
    BY ONLY <1>1, <2>1, <2>3, <2>4, <2>5, StringsDescribed
  <2> QED BY <2>6 DEF text
<1>4. CASE c.macro = "equal_strn"
  <2> DEFINE len  == to_int(c.len)
             upto == IF len < 0 THEN 0 ELSE len
  <2>1. text = Printed(Quoted(c.s, len) \o Unequal \o Quoted(c.t, len)
                       \o Offset(c.s, c.t, upto))
    BY <1>4 DEF Describe
  <2>2. ~equal_strn(c.s, c.t, len)
    BY <1>4 DEF Holds
  <2>3. len \in Int
    BY <1>1, Pow2Is, AssertAssumption DEF to_int, Signed
  <2> SUFFICES ASSUME ShowsAll(c) PROVE ShowsDifference(c, text)
    BY DEF ShowsDifference
  <2>4. len >= 0
    BY <1>4 DEF ShowsAll
  <2> HIDE DEF len, text
  <2>5. upto = len /\ upto \in Nat
    BY <2>3, <2>4
  <2> HIDE DEF upto
  <2>6. BothStrings(c.s, c.t) => \E k \in 1..upto : CharAt(c.s, k) # CharAt(c.t, k)
    <3>1. BothStrings(c.s, c.t) =>
            \E k \in 1..LesserOf(len, Len(c.s) + 1) : CharAt(c.s, k) # CharAt(c.t, k)
      BY <2>2, <2>3, <2>4 DEF equal_strn, strncmp_equal
    <3>2. BothStrings(c.s, c.t) =>
            \A k \in 1..LesserOf(len, Len(c.s) + 1) : k \in 1..upto
      BY <1>1, <2>5 DEF LesserOf, BothStrings, String
    <3> QED BY <3>1, <3>2
  <2>7. c.s = NULL => c.t # NULL
    BY <2>2 DEF equal_strn, BothStrings
  <2>8. upto = to_int(c.len)
    BY <2>5 DEF len
  <2> QED BY ONLY <1>1, <2>1, <2>3, <2>5, <2>6, <2>7, <2>8, StringsDescribed
<1>5. CASE c.macro \in {"equal_b", "equal_p", "compare_i", "compare_u", "equal_i_fmt"}
  <2>1. CASE c.macro = "equal_b"
    <3>1. text = Numbers(IF c.i # 0 THEN 1 ELSE 0, IF c.j # 0 THEN 1 ELSE 0)
      BY <2>1 DEF Describe
    <3>2. ~((c.i # 0) <=> (c.j # 0))
      BY <2>1 DEF Holds
    <3>3. ~clar__assert_compare(c.cmp, IF c.i # 0 THEN 1 ELSE 0, IF c.j # 0 THEN 1 ELSE 0)
      BY <1>1, <2>1, <3>2 DEF clar__assert_compare
    <3> HIDE DEF text
    <3>4. ShowsDifference(c, text)
      BY <3>1, <3>3, NumbersDescribed
    <3> QED BY <3>4 DEF text
  <2>2. CASE c.macro = "equal_p"
    <3>1. text = Numbers(c.i, c.j)
      BY <2>2 DEF Describe
    <3>2. c.i # c.j
      BY <2>2 DEF Holds
    <3>3. ~clar__assert_compare(c.cmp, c.i, c.j)
      BY <1>1, <2>2, <3>2 DEF clar__assert_compare
    <3> HIDE DEF text
    <3>4. ShowsDifference(c, text)
      BY <3>1, <3>3, NumbersDescribed
    <3> QED BY <3>4 DEF text
  <2>3. CASE c.macro = "compare_i"
    <3>1. text = Numbers(to_intmax_t(c.i), to_intmax_t(c.j))
      BY <2>3 DEF Describe
    <3>2. ~clar__assert_compare(c.cmp, to_intmax_t(c.i), to_intmax_t(c.j))
      BY <2>3 DEF Holds
    <3> HIDE DEF text
    <3>4. ShowsDifference(c, text)
      BY <3>1, <3>2, NumbersDescribed
    <3> QED BY <3>4 DEF text
  <2>4. CASE c.macro = "compare_u"
    <3>1. text = Numbers(to_uintmax_t(c.i), to_uintmax_t(c.j))
      BY <2>4 DEF Describe
    <3>2. ~clar__assert_compare(c.cmp, to_uintmax_t(c.i), to_uintmax_t(c.j))
      BY <2>4 DEF Holds
    <3> HIDE DEF text
    <3>4. ShowsDifference(c, text)
      BY <3>1, <3>2, NumbersDescribed
    <3> QED BY <3>4 DEF text
  <2>5. CASE c.macro = "equal_i_fmt"
    <3>1. text = Numbers(to_int(c.i), to_int(c.j))
      BY <2>5 DEF Describe
    <3>2. ~clar__assert_compare(c.cmp, to_intmax_t(c.i), to_intmax_t(c.j))
      BY <2>5 DEF Holds
    <3>3. ShowsAll(c) => /\ to_int(c.i) = c.i /\ to_intmax_t(c.i) = c.i
                         /\ to_int(c.j) = c.j /\ to_intmax_t(c.j) = c.j
      BY <1>1, <2>5, WiderKeeps DEF ShowsAll
    <3> HIDE DEF text
    <3>4. ShowsDifference(c, text)
      BY <3>1, <3>2, <3>3, NumbersDescribed
    <3> QED BY <3>4 DEF text
  <2> QED BY <1>5, <2>1, <2>2, <2>3, <2>4, <2>5
<1> QED BY <1>1, <1>2, <1>3, <1>4, <1>5 DEF Macros
--------------------------------------------------------------------------------
(* What ClarReports adds leaves the driver alone *)

\* Every step is one of the driver, or leaves its variables alone.
LEMMA DriverStep ==
  ASSUME ReportsNext PROVE Next \/ UNCHANGED vars
<1>1. Drives \/ Returns => Next \/ UNCHANGED vars
  BY DEF Drives, Returns, AssertionHolds, CheckFails, AssertionFails, Starts,
     PrintsSuite, PrintsTest, Aborts, FsCleanupAborts, Shutdown, Quietly,
     Next, CallsApi, RunsTest, RunsSuites
<1>2. FcloseTwiceCrashes => Next
  BY DEF FcloseTwiceCrashes, Next, RunsSuites
<1>3. WritesSummary /\ ~FcloseTwiceCrashes => UNCHANGED vars
  BY DEF WritesSummary, SummarySteps, clar_summary_shutdown, WriteTestsuites,
     WriteTestsuite, WriteTestcase, WriteFailure, WriteSkipped, CloseTestcase,
     CloseTestsuite, CloseTestsuites, Fclose, FcloseOnError
<1> QED BY <1>1, <1>2, <1>3 DEF ReportsNext

\* The driver that prints and writes its summary implements the driver of ClarRun.
THEOREM ImplementsRun == ReportsSpec => Spec
<1>1. ReportsInit => Init
  BY DEF ReportsInit
<1>2. [ReportsNext]_reportsVars => [Next]_vars
  BY DriverStep DEF reportsVars
<1> QED BY <1>1, <1>2, PTL DEF ReportsSpec, Spec

\* So the inductive invariant of ClarRun holds of it, and all that follows from it.
THEOREM ReportsInvariance == ReportsSpec => []IInv
BY ImplementsRun, Invariance, PTL
--------------------------------------------------------------------------------
(* The verdict of an assertion *)

\* After every step but an assertion there is none to speak of.
LEMMA AssertedStep ==
  ASSUME ReportsNext
  PROVE  \/ AssertionHolds \/ CheckFails \/ AssertionFails \/ asserted' = NoAssertion
<1>1. Drives \/ Returns \/ FcloseTwiceCrashes =>
        \/ AssertionHolds \/ CheckFails \/ AssertionFails \/ asserted' = NoAssertion
  BY DEF Drives, Returns, FcloseTwiceCrashes, Starts, PrintsSuite, PrintsTest,
     Aborts, FsCleanupAborts, Shutdown, Quietly, Meanwhile
<1>2. WritesSummary /\ ~FcloseTwiceCrashes => asserted' = NoAssertion
  BY DEF WritesSummary, SummarySteps, clar_summary_shutdown, WriteTestsuites,
     WriteTestsuite, WriteTestcase, WriteFailure, WriteSkipped, CloseTestcase,
     CloseTestsuite, CloseTestsuites, Fclose, FcloseOnError
<1> QED BY <1>1, <1>2 DEF ReportsNext

\* The assertions a test can make are calls of the macros.
LEMMA ChoiceIsCall ==
  ASSUME NEW b \in BOOLEAN, NEW c \in Choices(b)
  PROVE  c \in AssertionCalls /\ c.should_abort = b
<1>1. Assertion("failed", b) \in AssertionCalls
  BY DEF Assertion, AssertionCalls, Macros, Comparisons
<1> QED BY <1>1, ReportsAssumption DEF Choices

\* The report of a test that an assertion has failed in.
LEMMA FailedReport ==
  ASSUME IInv, cl_check \/ cl_assert
  PROVE  reports'[Current'].status = "FAILURE" /\ reports'[Current'].errors # <<>>
<1>1. /\ reports # <<>> /\ Rewritten("FAILURE", Append(reports[Current].errors, Where))
      /\ NewErrors
  BY FailsEffect DEF Fails
<1>2. Current' = Current
  BY <1>1 DEF Rewritten, Current
<1> QED BY <1>1, <1>2 DEF Rewritten, NewErrors

\* An assertion fails exactly if what it says of its arguments is false, for all strings
\* and numbers in the range of its conversions, and then its test has failed and, unless
\* it was a check, was left (clar__assert, clar__assert_equal, clar__assert_compare_i
\* and _u).
THEOREM VerdictsAreRight == ReportsSpec => []VerdictIsRight
<1>1. ReportsInit => VerdictIsRight
  BY DEF ReportsInit, VerdictIsRight
<1>2. ASSUME IInv, VerdictIsRight, [ReportsNext]_reportsVars
      PROVE  VerdictIsRight'
  <2>1. CASE UNCHANGED reportsVars
    BY <1>2, <2>1 DEF VerdictIsRight, reportsVars, vars, results, Current, Failed
  <2>2. CASE asserted' = NoAssertion
    BY <2>2 DEF VerdictIsRight
  <2>3. CASE AssertionHolds
    <3>1. PICK c \in Choices(TRUE) \cup Choices(FALSE) : Holds(c) /\ asserted' = Made(c)
      BY <2>3 DEF AssertionHolds
    <3>2. c \in AssertionCalls
      BY <3>1, ChoiceIsCall
    <3>3. asserted'.call = c /\ asserted'.failed = FALSE
      BY <3>1 DEF Made
    <3>4. InRange(c) => Meant(c)
      BY <3>1, <3>2, HoldsAsMeant
    <3> QED BY <3>3, <3>4 DEF VerdictIsRight
  <2>4. CASE CheckFails \/ AssertionFails
    <3>1. PICK b \in BOOLEAN : \E c \in Choices(b) :
            /\ ~Holds(c) /\ asserted' = Made(c)
            /\ b => pc' \notin UserCode
      <4>1. CASE CheckFails
        BY <4>1 DEF CheckFails
      <4>2. CASE AssertionFails
        <5>1. pc' \notin UserCode
          BY <4>2 DEF AssertionFails, cl_assert, abort_test, Call, Exit, UserCode
        <5> QED BY <4>2, <5>1 DEF AssertionFails
      <4> QED BY <2>4, <4>1, <4>2
    <3>2. PICK c \in Choices(b) : /\ ~Holds(c) /\ asserted' = Made(c)
                                  /\ b => pc' \notin UserCode
      BY <3>1
    <3>3. c \in AssertionCalls /\ c.should_abort = b
      BY ChoiceIsCall
    <3>4. asserted'.call = c /\ asserted'.failed = TRUE
      BY <3>2 DEF Made
    <3>5. InRange(c) => ~Meant(c)
      BY <3>2, <3>3, HoldsAsMeant
    <3>6. reports'[Current'].status = "FAILURE" /\ reports'[Current'].errors # <<>>
      BY <1>2, <2>4, FailedReport DEF CheckFails, AssertionFails
    <3> QED BY <3>2, <3>3, <3>4, <3>5, <3>6 DEF VerdictIsRight, Failed
  <2> QED BY <1>2, <2>1, <2>2, <2>3, <2>4, AssertedStep
<1> QED BY <1>1, <1>2, ReportsInvariance, PTL DEF ReportsSpec

\* The description of a failure shows what differs, for all strings and numbers, every
\* precision and every width: the first byte that was compared and is not the same,
\* numbers that are not as asserted, or two sides that read differently
\* (clar__assert_equal and the formats of the macros).
THEOREM DifferencesAreShown == ReportsSpec => []DifferenceIsShown
<1>1. \A c : ShowsDifference(c, <<>>)
  BY DEF ShowsDifference
<1>2. ReportsInit => DifferenceIsShown
  <2>1. NoAssertion.text = <<>>
    BY DEF NoAssertion
  <2>2. ReportsInit => asserted = NoAssertion
    BY DEF ReportsInit
  <2> QED BY <1>1, <2>1, <2>2 DEF DifferenceIsShown
<1>3. ASSUME DifferenceIsShown, [ReportsNext]_reportsVars
      PROVE  DifferenceIsShown'
  <2>1. CASE UNCHANGED reportsVars
    BY <1>3, <2>1 DEF DifferenceIsShown, reportsVars
  <2>2. CASE asserted' = NoAssertion
    BY <1>1, <2>2 DEF DifferenceIsShown, NoAssertion
  <2>3. CASE AssertionHolds \/ CheckFails \/ AssertionFails
    <3>1. PICK b \in BOOLEAN : \E c \in Choices(b) : asserted' = Made(c)
      BY <2>3 DEF AssertionHolds, CheckFails, AssertionFails
    <3>2. PICK c \in AssertionCalls : asserted' = Made(c)
      BY <3>1, ChoiceIsCall
    <3>3. ShowsDifference(c, Made(c).text)
      BY <1>1, DescribesDifference DEF Made
    <3> QED BY <3>2, <3>3 DEF DifferenceIsShown, Made
  <2> QED BY <1>3, <2>1, <2>2, <2>3, AssertedStep
<1> QED BY <1>2, <1>3, PTL DEF ReportsSpec
================================================================================
