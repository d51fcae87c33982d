---------------------------- MODULE ClarArgsProofs ----------------------------
(***************************************************************************)
(* Theorems about ClarArgs, for every table of suites, every set of options*)
(* however they are spelled, and any number of them.                       *)
(***************************************************************************)
EXTENDS ClarArgsInv, Induction, SequenceTheorems

(* Sets of numbers *)

\* The greatest of some numbers.
LEMMA MaxIs ==
  ASSUME NEW N \in Nat, NEW S \in SUBSET (0..N), S # {}
  PROVE  Max(S) \in S /\ \A x \in S : x <= Max(S)
<1> DEFINE T == {N - x : x \in S}
<1>1. T \in SUBSET Nat /\ T # {}
  <2>1. \A x \in S : x \in Nat /\ N - x \in Nat
    OBVIOUS
  <2> QED BY <2>1
<1>2. PICK y \in T : \A z \in T : y <= z
  BY <1>1, LeastNumber
<1>3. PICK x \in S : y = N - x
  BY <1>2
<1>4. \A z \in S : x >= z
  <2> SUFFICES ASSUME NEW z \in S PROVE x >= z
    OBVIOUS
  <2>1. N - z \in T /\ y <= N - z
    BY <1>2
  <2> QED BY <1>3, <2>1
<1> QED BY <1>4 DEF Max

\* The least of them.
LEMMA MinIs ==
  ASSUME NEW N \in Nat, NEW S \in SUBSET (0..N), S # {}
  PROVE  Min(S) \in S /\ \A x \in S : Min(S) <= x
<1>1. PICK y \in S : \A z \in S : y <= z
  BY LeastNumber
<1> QED BY <1>1 DEF Min
--------------------------------------------------------------------------------
(* What a loop picks *)

\* All elements at the places, and no others.
Picks(t, V, s, places) ==
  /\ t \in Seq(V)
  /\ \A m \in DOMAIN t : \E k \in places \cap DOMAIN s : t[m] = s[k]
  /\ \A k \in places \cap DOMAIN s : \E m \in DOMAIN t : t[m] = s[k]

LEMMA PickedIs ==
  ASSUME NEW V, NEW s \in Seq(V), NEW places PROVE Picks(Picked(s, places), V, s, places)
<1> DEFINE N == Len(s)
           step == [n \in 1..N |-> [t \in Seq(V) |-> IF n \in places THEN Append(t, s[n])
                                                                     ELSE t]]
           Body(f, n) == IF n = 0 THEN <<>>
                         ELSE IF n \in places THEN Append(f[n - 1], s[n])
                         ELSE f[n - 1]
<1>1. /\ N \in Nat /\ DOMAIN s = 1..N /\ <<>> \in Seq(V)
      /\ step \in [1..N -> [Seq(V) -> Seq(V)]]
  OBVIOUS
<1>2. \A n \in 1..N, t \in Seq(V) :
        step[n][t] = IF n \in places THEN Append(t, s[n]) ELSE t
  OBVIOUS
<1> HIDE DEF step
<1>3. PICK f : Recurses(f, N, Seq(V), <<>>, step)
  BY <1>1, Recursion
<1>4. \A n \in 1..N : f[n - 1] \in Seq(V)
  BY <1>1, <1>3 DEF Recurses
<1>5. \A n \in 0..N : f[n] = Body(f, n)
  <2>1. \A n \in 1..N : f[n] = IF n \in places THEN Append(f[n - 1], s[n]) ELSE f[n - 1]
    BY <1>2, <1>3, <1>4 DEF Recurses
  <2>2. f[0] = <<>> /\ \A n \in 0..N : n = 0 \/ n \in 1..N
    BY <1>1, <1>3 DEF Recurses
  <2>3. \A n \in 1..N : n # 0
    BY <1>1
  <2> QED BY <2>1, <2>2, <2>3
<1>6. f = [n \in 0..N |-> Body(f, n)]
  BY <1>3, <1>5 DEF Recurses
<1> DEFINE g == CHOOSE g : g = [n \in 0..N |-> Body(g, n)]
<1>7. g = [n \in 0..N |-> Body(g, n)]
  BY <1>6
<1>8. Picked(s, places) = g[N]
  BY DEF Picked
<1> HIDE DEF g
<1>9. \A n \in 0..N : g[n] = Body(g, n)
  BY <1>7
<1> HIDE DEF Body
<1> DEFINE Holds(n) == /\ g[n] \in Seq(V)
                       /\ \A m \in DOMAIN g[n] :
                            \E k \in places \cap (1..n) : g[n][m] = s[k]
                       /\ \A k \in places \cap (1..n) :
                            \E m \in DOMAIN g[n] : g[n][m] = s[k]
           S == {n \in 0..N : Holds(n)}
<1>10. 0 \in S
  <2>1. g[0] = <<>>
    BY <1>1, <1>9 DEF Body
  <2>2. DOMAIN g[0] = {} /\ 1..0 = {} /\ 0 \in 0..N
    BY <1>1, <2>1
  <2> QED BY <1>1, <2>1, <2>2
<1>11. ASSUME NEW n \in 1..N, n - 1 \in S PROVE n \in S
  <2>1. Holds(n - 1) /\ n - 1 \in 0..N
    BY <1>11
  <2>2. g[n] = IF n \in places THEN Append(g[n - 1], s[n]) ELSE g[n - 1]
    BY <1>1, <1>9 DEF Body
  <2>3. \A k : k \in 1..n <=> (k \in 1..(n - 1) \/ k = n)
    BY <1>1
  <2>4. CASE n \notin places
    BY <2>1, <2>2, <2>3, <2>4
  <2>5. CASE n \in places
    <3> DEFINE t == g[n - 1]
    <3>1. t \in Seq(V) /\ g[n] = Append(t, s[n]) /\ s[n] \in V
      BY <1>1, <2>1, <2>2, <2>5
    <3>2. /\ g[n] \in Seq(V) /\ Len(g[n]) = Len(t) + 1 /\ g[n][Len(t) + 1] = s[n]
          /\ \A m \in 1..Len(t) : g[n][m] = t[m]
          /\ DOMAIN t = 1..Len(t) /\ DOMAIN g[n] = 1..(Len(t) + 1) /\ Len(t) \in Nat
      BY <3>1
    <3> HIDE DEF t
    <3>3. \A m \in DOMAIN t : \E k \in places \cap (1..(n - 1)) : t[m] = s[k]
      BY <2>1 DEF t
    <3>4. \A k \in places \cap (1..(n - 1)) : \E m \in DOMAIN t : t[m] = s[k]
      BY <2>1 DEF t
    <3>5. \A m \in DOMAIN g[n] : \E k \in places \cap (1..n) : g[n][m] = s[k]
      <4> SUFFICES ASSUME NEW m \in DOMAIN g[n]
                   PROVE  \E k \in places \cap (1..n) : g[n][m] = s[k]
        OBVIOUS
      <4>1. CASE m = Len(t) + 1
        BY <2>3, <2>5, <3>2, <4>1
      <4>2. CASE m # Len(t) + 1
        <5>1. m \in DOMAIN t /\ g[n][m] = t[m]
          BY <3>2, <4>2
        <5> QED BY <2>3, <3>3, <5>1
      <4> QED BY <4>1, <4>2
    <3>6. \A k \in places \cap (1..n) : \E m \in DOMAIN g[n] : g[n][m] = s[k]
      <4> SUFFICES ASSUME NEW k \in places \cap (1..n)
                   PROVE  \E m \in DOMAIN g[n] : g[n][m] = s[k]
        OBVIOUS
      <4>1. CASE k = n
        BY <3>2, <4>1
      <4>2. CASE k # n
        <5>1. PICK m \in DOMAIN t : t[m] = s[k]
          BY <2>3, <3>4, <4>2
        <5> QED BY <3>2, <5>1
      <4> QED BY <4>1, <4>2
    <3>7. Holds(n) /\ n \in 0..N
      BY <1>1, <3>2, <3>5, <3>6
    <3> QED BY <3>7
  <2> QED BY <2>4, <2>5
<1> HIDE DEF S, Holds, N
<1>12. \A n \in 0..N : n \in S
  BY <1>1, <1>10, <1>11, Inductive
<1>13. Holds(N)
  BY <1>1, <1>12 DEF S
<1> QED BY <1>1, <1>8, <1>13 DEF Holds, Picks
--------------------------------------------------------------------------------
(* The words of the options *)

\* Flattening goes on from one sequence to the next.
Flattens(f, V, s) ==
  /\ f \in [0..Len(s) -> Seq(V)] /\ f[0] = <<>>
  /\ \A n \in 1..Len(s) : f[n] = f[n - 1] \o s[n]
  /\ \A n \in 0..Len(s) : FlattenSeq([m \in 1..n |-> s[m]]) = f[n]

LEMMA FlattenIs ==
  ASSUME NEW V, NEW s \in Seq(Seq(V)) PROVE \E f : Flattens(f, V, s)
<1> DEFINE N == Len(s)
           step == [n \in 1..N |-> [t \in Seq(V) |-> t \o s[n]]]
<1>1. /\ N \in Nat /\ <<>> \in Seq(V) /\ \A n \in 1..N : s[n] \in Seq(V)
      /\ step \in [1..N -> [Seq(V) -> Seq(V)]]
  OBVIOUS
<1>2. \A n \in 1..N, t \in Seq(V) : step[n][t] = t \o s[n]
  OBVIOUS
<1> HIDE DEF step, N
<1>3. PICK f : Recurses(f, N, Seq(V), <<>>, step)
  BY <1>1, Recursion
<1>4. /\ f \in [0..N -> Seq(V)] /\ f[0] = <<>>
      /\ \A n \in 1..N : f[n - 1] \in Seq(V) /\ f[n] = f[n - 1] \o s[n]
  <2>1. f \in [0..N -> Seq(V)] /\ f[0] = <<>>
    BY <1>3 DEF Recurses
  <2>2. \A n \in 1..N : n - 1 \in 0..N
    BY <1>1
  <2> QED BY <1>2, <1>3, <2>1, <2>2 DEF Recurses
<1>5. ASSUME NEW n \in 0..N PROVE FlattenSeq([m \in 1..n |-> s[m]]) = f[n]
  <2> DEFINE p == [m \in 1..n |-> s[m]]
             Body(h, k) == IF k = 1 THEN p[k] ELSE h[k - 1] \o p[k]
             e == [k \in 1..n |-> f[k]]
             g == CHOOSE g : g = [k \in 1..n |-> Body(g, k)]
  <2>1. n \in Nat /\ \A m \in 1..n : m \in 1..N /\ p[m] = s[m]
    BY <1>1
  <2>2. Len(p) = n
    BY <1>1, <2>1
  <2>3. CASE n = 0
    <3>1. p = <<>>
      BY <2>2, <2>3
    <3> QED BY <1>4, <2>2, <2>3, <3>1 DEF FlattenSeq
  <2>4. CASE n # 0
    <3>1. FlattenSeq(p) = g[n]
      BY <2>2, <2>4 DEF FlattenSeq
    <3> HIDE DEF p
    <3>2. \A k \in 1..n : e[k] = Body(e, k)
      <4>1. \A k \in 1..n : e[k] = f[k]
        OBVIOUS
      <4> HIDE DEF e
      <4>2. ASSUME NEW k \in 1..n, k = 1 PROVE e[k] = Body(e, k)
        <5>1. 1 \in 1..N /\ 1 - 1 = 0 /\ e[1] = f[1] /\ p[1] = s[1]
          BY <2>1, <4>1, <4>2
        <5>2. f[1] = f[0] \o s[1] /\ f[0] = <<>> /\ s[1] \in Seq(V)
          BY <1>1, <1>4, <5>1
        <5>3. f[1] = s[1]
          BY <5>2
        <5> QED BY <4>2, <5>1, <5>3
      <4>3. ASSUME NEW k \in 1..n, k # 1 PROVE e[k] = Body(e, k)
        <5>1. k - 1 \in 1..n
          BY <2>1, <4>3
        <5> QED BY <1>4, <2>1, <4>1, <4>3, <5>1
      <4> QED BY <4>2, <4>3
    <3> HIDE DEF Body
    <3>3. e = [k \in 1..n |-> Body(e, k)]
      BY <3>2
    <3>4. g = [k \in 1..n |-> Body(g, k)]
      BY <3>3
    <3> HIDE DEF g
    <3>5. \A k \in 1..n : g[k] = Body(g, k)
      BY <3>4
    <3> DEFINE S == {k \in 0..n : k = 0 \/ g[k] = f[k]}
    <3>6. 0 \in S
      BY <2>1
    <3>7. ASSUME NEW k \in 1..n, k - 1 \in S PROVE k \in S
      <4>1. e[k] = f[k]
        OBVIOUS
      <4>2. k = 1 => Body(g, k) = Body(e, k)
        BY DEF Body
      <4>3. k # 1 => k - 1 \in 1..n /\ g[k - 1] = f[k - 1]
        BY <2>1, <3>7
      <4>4. k # 1 => g[k - 1] = e[k - 1]
        BY <4>3
      <4>5. Body(g, k) = Body(e, k)
        BY <4>2, <4>4 DEF Body
      <4> QED BY <2>1, <3>2, <3>5, <4>1, <4>5
    <3> HIDE DEF S
    <3>8. \A k \in 0..n : k \in S
      BY <2>1, <3>6, <3>7, Inductive
    <3>9. g[n] = f[n]
      BY <2>1, <2>4, <3>8 DEF S
    <3> QED BY <3>1, <3>9 DEF p
  <2> QED BY <2>3, <2>4
<1> QED BY <1>4, <1>5 DEF N, Flattens

\* What is added stays.
Continues(w, t, u) ==
  /\ Len(t) \in Nat /\ Len(u) \in Nat /\ Len(w) = Len(t) + Len(u)
  /\ \A k \in 1..Len(t) : w[k] = t[k]
  /\ \A k \in 1..Len(u) : w[Len(t) + k] = u[k]

LEMMA FlattenedGoesOn ==
  ASSUME NEW V, NEW s \in Seq(Seq(V)), NEW f, Flattens(f, V, s), NEW n \in 1..Len(s)
  PROVE  f[n] \in Seq(V) /\ Continues(f[n], f[n - 1], s[n])
<1>1. Len(s) \in Nat /\ n - 1 \in 0..Len(s) /\ n \in 0..Len(s) /\ s[n] \in Seq(V)
  OBVIOUS
<1>2. f[n - 1] \in Seq(V) /\ f[n] = f[n - 1] \o s[n]
  BY <1>1 DEF Flattens
<1>3. PICK t, u : t = f[n - 1] /\ u = s[n]
  OBVIOUS
<1>4. /\ t \in Seq(V) /\ u \in Seq(V) /\ f[n] = t \o u
  BY <1>1, <1>2, <1>3
<1>5. /\ t \o u \in Seq(V) /\ Len(t) \in Nat /\ Len(u) \in Nat /\ Len(t \o u) = Len(t) + Len(u)
      /\ \A k \in 1..Len(t) : (t \o u)[k] = t[k]
      /\ \A k \in 1..Len(u) : (t \o u)[Len(t) + k] = u[k]
  BY <1>4
<1>6. Continues(t \o u, t, u)
  BY <1>5 DEF Continues
<1> QED BY <1>3, <1>4, <1>5, <1>6

\* The words of an option stand where those of the options before it end.
LEMMA WordsStand ==
  ASSUME NEW V, NEW s \in Seq(Seq(V)), NEW n \in 1..Len(s)
  PROVE  LET all   == FlattenSeq([m \in 1..Len(s) |-> s[m]])
             start == Len(FlattenSeq([m \in 1..(n - 1) |-> s[m]]))
             end   == Len(FlattenSeq([m \in 1..n |-> s[m]]))
         IN /\ all \in Seq(V) /\ start \in Nat
            /\ end = start + Len(s[n]) /\ end <= Len(all)
            /\ n = Len(s) => end = Len(all)
            /\ \A k \in 1..Len(s[n]) : all[start + k] = s[n][k]
<1> DEFINE N == Len(s)
<1>1. PICK f : Flattens(f, V, s)
  BY FlattenIs
<1>2. N \in Nat /\ n \in 1..N /\ \A k \in 1..N : k = Len(s) <=> k = N
  OBVIOUS
<1>3. \A k \in 1..N : f[k] \in Seq(V) /\ Continues(f[k], f[k - 1], s[k])
  <2> SUFFICES ASSUME NEW k \in 1..N PROVE f[k] \in Seq(V) /\ Continues(f[k], f[k - 1], s[k])
    OBVIOUS
  <2> QED BY <1>1, FlattenedGoesOn
<1> HIDE DEF N
<1>4. PICK start, end : start = Len(f[n - 1]) /\ end = Len(f[n])
  OBVIOUS
<1>5. /\ start \in Nat /\ Len(s[n]) \in Nat /\ end = start + Len(s[n]) /\ end \in Nat
      /\ \A m \in 1..Len(s[n]) : f[n][start + m] = s[n][m]
  <2>1. Continues(f[n], f[n - 1], s[n])
    BY <1>2, <1>3
  <2>2. /\ start \in Nat /\ Len(s[n]) \in Nat /\ end = start + Len(s[n])
        /\ \A m \in 1..Len(s[n]) : f[n][start + m] = s[n][m]
    BY ONLY <1>4, <2>1 DEF Continues
  <2>3. end \in Nat
    BY ONLY <2>2
  <2> QED BY ONLY <2>2, <2>3
<1> DEFINE Goes(k) == end <= Len(f[k]) /\ \A m \in 1..end : f[k][m] = f[n][m]
           S == {k \in 0..(N - n) : Goes(n + k)}
<1>6. 0 \in S
  <2>1. n + 0 = n /\ 0 \in 0..(N - n)
    BY <1>2
  <2>2. Goes(n)
    BY <1>4, <1>5
  <2> QED BY <2>1, <2>2
<1>7. ASSUME NEW k \in 1..(N - n), k - 1 \in S PROVE k \in S
  <2>1. PICK j : j = n + k
    OBVIOUS
  <2>2. j \in 1..N /\ n + (k - 1) = j - 1 /\ k \in 0..(N - n)
    BY <1>2, <2>1
  <2>3. Goes(j - 1)
    BY <1>7, <2>2
  <2>4. /\ Len(f[j - 1]) \in Nat /\ Len(s[j]) \in Nat
        /\ Len(f[j]) = Len(f[j - 1]) + Len(s[j])
        /\ \A m \in 1..Len(f[j - 1]) : f[j][m] = f[j - 1][m]
    BY <1>3, <2>2 DEF Continues
  <2>5. end <= Len(f[j]) /\ \A m \in 1..end : m \in 1..Len(f[j - 1])
    <3>1. PICK p, q, r : p = Len(f[j - 1]) /\ q = Len(s[j]) /\ r = Len(f[j])
      OBVIOUS
    <3>2. p \in Nat /\ q \in Nat /\ r = p + q /\ end <= p /\ end \in Nat
      BY ONLY <1>5, <2>3, <2>4, <3>1
    <3>3. end <= r /\ \A m \in 1..end : m \in 1..p
      BY ONLY <3>2
    <3> QED BY ONLY <3>1, <3>3
  <2>6. Goes(j)
    BY <2>3, <2>4, <2>5
  <2> QED BY <2>1, <2>2, <2>6
<1> HIDE DEF S
<1>8. N - n \in Nat
  BY <1>2
<1>9. \A k \in 0..(N - n) : k \in S
  <2>1. \A k \in 1..(N - n) : k - 1 \in S => k \in S
    BY <1>7
  <2> QED BY ONLY <1>6, <1>8, <2>1, Inductive
<1>10. Goes(N)
  <2>1. N - n \in 0..(N - n) /\ n + (N - n) = N
    BY <1>2
  <2>2. N - n \in S
    BY <1>9, <2>1
  <2> QED BY <2>1, <2>2 DEF S
<1>11. \A k \in 1..Len(s[n]) : f[N][start + k] = s[n][k]
  <2> SUFFICES ASSUME NEW k \in 1..Len(s[n]) PROVE f[N][start + k] = s[n][k]
    OBVIOUS
  <2>1. start + k \in 1..end
    BY <1>5
  <2> QED BY <1>5, <1>10, <2>1
<1>12. f[N] \in Seq(V) /\ (n = N => end = Len(f[N]))
  <2>1. f[N] \in Seq(V)
    BY <1>2, <1>3
  <2> QED BY <1>4, <2>1
<1>13. /\ FlattenSeq([m \in 1..Len(s) |-> s[m]]) = f[N]
       /\ FlattenSeq([m \in 1..(n - 1) |-> s[m]]) = f[n - 1]
       /\ FlattenSeq([m \in 1..n |-> s[m]]) = f[n]
  <2>1. N \in 0..N /\ n - 1 \in 0..N /\ n \in 0..N
    BY <1>2
  <2> QED BY <1>1, <2>1 DEF Flattens, N
<1> HIDE DEF Goes
<1>14. end <= Len(f[N])
  BY <1>10 DEF Goes
<1> QED BY <1>2, <1>4, <1>5, <1>11, <1>12, <1>13, <1>14 DEF N

\* The next option that is read.
NextWords(n) == asked[n + 1].words

\* Where the first n options have been read, the words of the next stand there.
LEMMA Reads ==
  ASSUME TypeOK, InputInv, NEW n \in 0..Len(asked), Read(n)
  PROVE  /\ n = Len(asked) => i = Len(argv) + 1
         /\ n # Len(asked) =>
              /\ n + 1 \in DOMAIN asked /\ Len(NextWords(n)) \in Nat
              /\ \A k \in 1..Len(NextWords(n)) : argv[i + (k - 1)] = NextWords(n)[k]
              /\ i + Len(NextWords(n)) <= Len(argv) + 1
              /\ n + 1 = Len(asked) => i + Len(NextWords(n)) = Len(argv) + 1
              /\ i + Len(NextWords(n)) = Len(FlattenSeq([m \in 1..(n + 1) |-> asked[m].words])) + 1
<1> DEFINE s == [m \in 1..Len(asked) |-> asked[m].words]
<1>1. Len(asked) \in Nat /\ DOMAIN asked = 1..Len(asked)
  BY DEF TypeOK
<1>2. \A m \in 1..Len(asked) : asked[m].words \in Seq(String)
  <2>1. \A m \in 1..Len(asked) : asked[m] \in Option
    BY <1>1, ArgsAssumption DEF TypeOK
  <2> QED BY <2>1 DEF Option
<1>3. s \in Seq(Seq(String)) /\ Len(s) = Len(asked)
  BY <1>1, <1>2
<1>4. argv = FlattenSeq(s)
  BY <1>1 DEF InputInv
<1>5. \A m \in 1..Len(asked) : s[m] = asked[m].words
  OBVIOUS
<1> HIDE DEF s
<1>6. \A k \in 0..Len(asked) :
        [m \in 1..k |-> asked[m].words] = [m \in 1..k |-> s[m]]
  BY <1>1, <1>5
<1>7. s = [m \in 1..Len(s) |-> s[m]]
  BY <1>3
<1>8. CASE n = Len(asked)
  BY <1>1, <1>3, <1>4, <1>6, <1>7, <1>8 DEF Read
<1>9. CASE n # Len(asked)
  <2>1. PICK k : k = n + 1
    OBVIOUS
  <2>2. k \in 1..Len(s) /\ k - 1 = n /\ k \in 0..Len(asked) /\ k \in 1..Len(asked)
    <3>1. PICK N : N = Len(asked)
      OBVIOUS
    <3>2. N \in Nat /\ n \in 0..N /\ n # N
      BY ONLY <1>1, <1>9, <3>1, n \in 0..Len(asked)
    <3>3. k \in 1..N /\ k - 1 = n /\ k \in 0..N
      BY ONLY <2>1, <3>2
    <3> QED BY ONLY <1>3, <3>1, <3>3
  <2>3. PICK start, end, all :
          /\ start = Len(FlattenSeq([m \in 1..(k - 1) |-> s[m]]))
          /\ end = Len(FlattenSeq([m \in 1..k |-> s[m]]))
          /\ all = FlattenSeq([m \in 1..Len(s) |-> s[m]])
    OBVIOUS
  <2>4. /\ all \in Seq(String) /\ start \in Nat
        /\ end = start + Len(s[k]) /\ end <= Len(all)
        /\ k = Len(s) => end = Len(all)
        /\ \A m \in 1..Len(s[k]) : all[start + m] = s[k][m]
    BY <1>3, <2>2, <2>3, WordsStand
  <2>5. i = start + 1 /\ argv = all
    BY <1>4, <1>6, <1>7, <2>2, <2>3 DEF Read
  <2>6. end = Len(FlattenSeq([m \in 1..(n + 1) |-> asked[m].words]))
    BY <1>6, <2>1, <2>2, <2>3
  <2>7. s[k] = NextWords(n) /\ s[k] \in Seq(String) /\ Len(s[k]) \in Nat
    BY <1>2, <1>5, <2>1, <2>2 DEF NextWords
  <2>8. PICK l : l = Len(s[k])
    OBVIOUS
  <2>9. l \in Nat /\ \A m \in 1..l : start + m = i + (m - 1)
    BY <2>4, <2>5, <2>7, <2>8
  <2>10. Len(all) \in Nat
    BY <2>4
  <2>11. i + l = end + 1 /\ end + 1 <= Len(all) + 1
    <3>1. PICK L : L = Len(all)
      OBVIOUS
    <3>2. start \in Nat /\ end = start + l /\ end <= L /\ i = start + 1 /\ l \in Nat /\ L \in Nat
      BY ONLY <2>4, <2>5, <2>8, <2>9, <2>10, <3>1
    <3>3. i + l = end + 1 /\ end + 1 <= L + 1
      BY ONLY <3>2
    <3> QED BY ONLY <3>1, <3>3
  <2> QED BY <1>1, <1>3, <1>9, <2>1, <2>2, <2>4, <2>5, <2>6, <2>7, <2>8, <2>9, <2>11
<1> QED BY <1>8, <1>9
--------------------------------------------------------------------------------
(* What the first word of an option says *)

LEMMA OptionIs ==
  ASSUME NEW o \in Options
  PROVE  /\ o.letter \in Letters \cup {"misuse", "unfinished"}
         /\ o.name \in String /\ o.words \in Seq(String) /\ Spelled(o)
BY ArgsAssumption DEF Option

\* The beginnings of the words.
LEMMA BeginningsAre ==
  ASSUME NEW l \in Letters
  PROVE  /\ <<"-", l>> \in String /\ Len(<<"-", l>>) = 2
         /\ <<"-", l>> # <<>> /\ <<"-", l>>[1] = "-" /\ <<"-", l>>[2] = l
         /\ Rest(<<"-", l>>, 2) = <<>>
         /\ <<"-", l, "=">> \in String /\ Len(<<"-", l, "=">>) = 3
         /\ <<"-", l, "=">> # <<>> /\ <<"-", l, "=">>[1] = "-" /\ <<"-", l, "=">>[2] = l
         /\ <<"-", l, "=">>[3] = "=" /\ Rest(<<"-", l, "=">>, 3) = <<>>
<1>1. l \in Characters /\ "-" \in Characters /\ "=" \in Characters
  BY ArgsAssumption
<1> QED BY <1>1 DEF String, Rest

\* A name that is attached is the rest of the word.
Joins(w, p, name, n) ==
  /\ w \in String /\ Len(w) = n + Len(name) /\ Len(name) \in Nat
  /\ Rest(w, n) = name
  /\ \A k \in 1..n : w[k] = p[k]
  /\ name # <<>> => Len(name) > 0 /\ w[n + 1] = name[1]

LEMMA RestIs ==
  ASSUME NEW p \in String, NEW name \in String, NEW n \in Nat, n = Len(p)
  PROVE  Joins(p \o name, p, name, n)
<1>1. /\ p \o name \in String /\ Len(p \o name) = n + Len(name) /\ Len(name) \in Nat
      /\ \A k \in 1..n : (p \o name)[k] = p[k]
      /\ \A k \in 1..Len(name) : (p \o name)[n + k] = name[k]
  BY DEF String
<1>2. PICK w \in String, l \in Nat : w = p \o name /\ l = Len(name)
  BY <1>1
<1>3. Len(w) = n + l /\ \A k \in 1..l : w[n + k] = name[k]
  BY <1>1, <1>2
<1>4. Rest(w, n) = name
  <2>1. SubSeq(w, n + 1, n + l) \in Seq(Characters)
    BY <1>3 DEF String
  <2>2. /\ Len(SubSeq(w, n + 1, n + l)) = l
        /\ \A k \in 1..l : SubSeq(w, n + 1, n + l)[k] = w[n + k]
    BY <1>3 DEF String
  <2>3. SubSeq(w, n + 1, n + l) = name
    <3>1. PICK u : u = SubSeq(w, n + 1, n + l)
      OBVIOUS
    <3>2. /\ u \in Seq(Characters) /\ name \in Seq(Characters) /\ Len(u) = Len(name)
          /\ \A k \in 1..Len(u) : u[k] = name[k]
      BY <1>2, <1>3, <2>1, <2>2, <3>1 DEF String
    <3>3. u = name
      BY ONLY <3>2, SeqEqual
    <3> QED BY <3>1, <3>3
  <2> QED BY <1>3, <2>3 DEF Rest
<1>5. name # <<>> => l > 0
  BY <1>2 DEF String
<1>6. l > 0 => w[n + 1] = name[1]
  BY <1>2, <1>3
<1> QED BY <1>1, <1>2, <1>4, <1>5, <1>6 DEF Joins

\* A suite's option is known by its letter, and its name is attached or the next word.
LEMMA NameIsRead ==
  ASSUME NEW o \in Options, o.letter \in NameLetters, word = o.words[1]
  PROVE  /\ letter = o.letter
         /\ \/ Len(o.words) = 1 /\ Attached = o.name /\ o.name # <<>>
            \/ Len(o.words) = 2 /\ Attached = <<>> /\ o.words[2] = o.name
<1> DEFINE l == o.letter  name == o.name  words == o.words
           short == <<"-", l>>  long == <<"-", l, "=">>
<1>1. name \in String /\ l \in Letters /\ l \in NameLetters
  BY OptionIs DEF Letters
<1>2. short \in String /\ long \in String /\ Len(short) = 2 /\ Len(long) = 3
  BY <1>1, BeginningsAre
<1>3. \/ name # <<>> /\ name[1] # "=" /\ words = <<short \o name>>
      \/ name # <<>> /\ words = <<long \o name>>
      \/ words = <<short, name>>
      \/ words = <<long, name>>
  BY OptionIs DEF Spelled, NameLetters, FlagLetters
<1>4. /\ short[1] = "-" /\ short[2] = l /\ short # <<>>
      /\ long[1] = "-" /\ long[2] = l /\ long[3] = "=" /\ long # <<>>
      /\ Rest(short, 2) = <<>> /\ Rest(long, 3) = <<>>
  BY <1>1, BeginningsAre
<1> HIDE DEF short, long, l, name, words
<1>5. CASE name # <<>> /\ name[1] # "=" /\ words = <<short \o name>>
  <2>1. /\ short \o name \in String /\ Len(short \o name) = 2 + Len(name) /\ Len(name) \in Nat
        /\ Rest(short \o name, 2) = name
        /\ \A k \in 1..2 : (short \o name)[k] = short[k]
        /\ Len(name) > 0 /\ (short \o name)[3] = name[1]
    <3>1. Joins(short \o name, short, name, 2)
      BY <1>1, <1>2, RestIs
    <3> QED BY <1>5, <3>1 DEF Joins
  <2>2. word = short \o name /\ Len(words) = 1
    BY <1>5 DEF words
  <2>3. word # <<>> /\ Len(word) > 2 /\ word[1] = "-" /\ word[2] = l /\ word[3] # "="
    BY <1>4, <1>5, <2>1, <2>2 DEF String
  <2> QED BY <1>5, <2>1, <2>2, <2>3 DEF letter, LetterOf, Attached, l, name, words
<1>6. CASE name # <<>> /\ words = <<long \o name>>
  <2>1. /\ long \o name \in String /\ Len(long \o name) = 3 + Len(name) /\ Len(name) \in Nat
        /\ Rest(long \o name, 3) = name
        /\ \A k \in 1..3 : (long \o name)[k] = long[k]
    <3>1. Joins(long \o name, long, name, 3)
      BY <1>1, <1>2, RestIs
    <3> QED BY <1>6, <3>1 DEF Joins
  <2>2. word = long \o name /\ Len(words) = 1
    BY <1>6 DEF words
  <2>3. word # <<>> /\ Len(word) > 2 /\ word[1] = "-" /\ word[2] = l /\ word[3] = "="
    BY <1>4, <1>6, <2>1, <2>2 DEF String
  <2> QED BY <1>6, <2>1, <2>2, <2>3 DEF letter, LetterOf, Attached, l, name, words
<1>7. CASE words = <<short, name>>
  <2>1. word = short /\ Len(words) = 2 /\ words[2] = name
    BY <1>7 DEF words
  <2>2. Len(short) > 1 /\ ~(Len(short) > 2)
    BY <1>2
  <2>3. letter = l /\ Attached = <<>>
    BY ONLY <1>4, <2>1, <2>2 DEF letter, LetterOf, Attached
  <2> QED BY <2>1, <2>3 DEF l, name, words
<1>8. CASE words = <<long, name>>
  <2>1. word = long /\ Len(words) = 2 /\ words[2] = name
    BY <1>8 DEF words
  <2>2. Len(long) > 1 /\ Len(long) > 2
    BY <1>2
  <2>3. letter = l /\ Attached = <<>>
    BY ONLY <1>4, <2>1, <2>2 DEF letter, LetterOf, Attached
  <2> QED BY <2>1, <2>3 DEF l, name, words
<1> QED BY <1>3, <1>5, <1>6, <1>7, <1>8

\* A flag, or a summary, is known by its letter too.
LEMMA FlagIsRead ==
  ASSUME NEW o \in Options, o.letter \in FlagLetters, word = o.words[1]
  PROVE  letter = o.letter /\ Len(word) = 2 /\ Len(o.words) = 1
<1>1. o.words = << <<"-", o.letter>> >> /\ o.letter \in Letters
  BY OptionIs DEF Spelled, NameLetters, FlagLetters, Letters
<1>2. word = <<"-", o.letter>> /\ Len(o.words) = 1
  BY <1>1
<1>3. PICK w : w = word
  OBVIOUS
<1>4. w # <<>> /\ Len(w) = 2 /\ w[1] = "-" /\ w[2] = o.letter
  BY <1>1, <1>2, <1>3, BeginningsAre
<1> QED BY <1>2, <1>3, <1>4 DEF letter, LetterOf

LEMMA SummaryIsRead ==
  ASSUME NEW o \in Options, o.letter = "r", word = o.words[1]
  PROVE  /\ letter = "r" /\ Len(o.words) = 1
         /\ (IF Len(word) > 2 THEN Rest(word, 2) ELSE NoFile)
              = (IF o.name = <<>> THEN NoFile ELSE o.name)
<1> DEFINE short == <<"-", "r">>
<1>1. short \in String /\ Len(short) = 2 /\ short[1] = "-" /\ short[2] = "r"
  BY BeginningsAre DEF Letters
<1>2. o.words = <<short \o o.name>> /\ o.name \in String
  BY OptionIs DEF Spelled, NameLetters, FlagLetters
<1> HIDE DEF short
<1>3. word = short \o o.name /\ Len(o.words) = 1
  BY <1>2
<1>4. /\ word \in String /\ Len(word) = 2 + Len(o.name) /\ Len(o.name) \in Nat
      /\ Rest(word, 2) = o.name /\ \A k \in 1..2 : word[k] = short[k]
      /\ o.name # <<>> => Len(o.name) > 0
  <2>1. Joins(short \o o.name, short, o.name, 2)
    BY <1>1, <1>2, RestIs
  <2> QED BY <1>3, <2>1 DEF Joins
<1>5. word # <<>> /\ word[1] = "-" /\ word[2] = "r" /\ Len(word) > 1
  BY <1>1, <1>4 DEF String
<1>6. o.name = <<>> => Len(o.name) = 0
  OBVIOUS
<1> QED BY <1>2, <1>3, <1>4, <1>5, <1>6 DEF letter, LetterOf

\* A misused word is no option, or a flag that goes on.
LEMMA MisuseIsRead ==
  ASSUME NEW o \in Options, o.letter = "misuse", word = o.words[1]
  PROVE  /\ Len(o.words) = 1
         /\ letter \notin Letters \/ (letter \in FlagLetters /\ Len(word) # 2)
BY OptionIs DEF Spelled, NameLetters, FlagLetters, letter

\* A letter without a name has nothing attached.
LEMMA UnfinishedIsRead ==
  ASSUME NEW o \in Options, o.letter = "unfinished", word = o.words[1]
  PROVE  letter \in NameLetters /\ Attached = <<>> /\ Len(o.words) = 1
<1>1. PICK k \in NameLetters : o.words \in {<< <<"-", k>> >>, << <<"-", k, "=">> >>}
  BY OptionIs DEF Spelled, NameLetters, FlagLetters
<1>2. k \in Letters
  BY DEF Letters
<1>3. CASE o.words = << <<"-", k>> >>
  <2>1. word = <<"-", k>> /\ Len(o.words) = 1
    BY <1>3
  <2>2. PICK w : w = <<"-", k>>
    OBVIOUS
  <2>3. w # <<>> /\ Len(w) = 2 /\ w[1] = "-" /\ w[2] = k /\ Rest(w, 2) = <<>>
    BY ONLY <1>2, <2>2, BeginningsAre
  <2> QED BY <2>1, <2>2, <2>3 DEF letter, LetterOf, Attached
<1>4. CASE o.words = << <<"-", k, "=">> >>
  <2>1. word = <<"-", k, "=">> /\ Len(o.words) = 1
    BY <1>4
  <2>2. PICK w : w = <<"-", k, "=">>
    OBVIOUS
  <2>3. /\ w # <<>> /\ Len(w) = 3 /\ w[1] = "-" /\ w[2] = k /\ w[3] = "="
        /\ Rest(w, 3) = <<>>
    BY ONLY <1>2, <2>2, BeginningsAre
  <2> QED BY <2>1, <2>2, <2>3 DEF letter, LetterOf, Attached
<1> QED BY <1>1, <1>3, <1>4
--------------------------------------------------------------------------------
(* Names, and the suites they are of *)

LEMMA SuiteIs ==
  ASSUME NEW j \in Index
  PROVE  /\ Suites[j].name \in String /\ Suites[j].tests \in Seq(String)
         /\ Suites[j].enabled \in BOOLEAN /\ j \in Nat
<1>1. PICK S : S = [name: String, tests: Seq(String), enabled: BOOLEAN]
  OBVIOUS
<1>2. Suites \in Seq(S)
  BY <1>1, ArgsAssumption
<1>3. j \in Nat /\ Suites[j] \in S
  BY <1>2 DEF Index
<1> QED BY <1>1, <1>3

LEMMA PrefixIs ==
  ASSUME NEW s \in String, NEW t \in String
  PROVE  IsPrefix(s, t) <=> /\ Len(s) <= Len(t)
                            /\ \A k \in 1..Len(s) : s[k] = t[k]
<1>1. Len(s) \in Nat /\ Len(t) \in Nat /\ s \in Seq(Characters) /\ t \in Seq(Characters)
  BY DEF String
<1>2. CASE Len(s) <= Len(t)
  <2>1. PICK u, v : u = SubSeq(s, 1, Len(s)) /\ v = SubSeq(t, 1, Len(s))
    OBVIOUS
  <2>2. /\ u \in Seq(Characters) /\ Len(u) = Len(s) /\ \A k \in 1..Len(s) : u[k] = s[k]
        /\ v \in Seq(Characters) /\ Len(v) = Len(s) /\ \A k \in 1..Len(s) : v[k] = t[k]
    BY <1>1, <1>2, <2>1
  <2>3. ASSUME \A k \in 1..Len(s) : s[k] = t[k] PROVE u = v
    <3>1. \A k \in 1..Len(u) : u[k] = v[k]
      BY <2>2, <2>3
    <3> QED BY ONLY <2>2, <3>1, SeqEqual
  <2>4. u = v => \A k \in 1..Len(s) : s[k] = t[k]
    BY <2>2
  <2> QED BY <1>2, <2>1, <2>3, <2>4 DEF IsPrefix
<1>3. CASE ~(Len(s) <= Len(t))
  BY <1>3 DEF IsPrefix
<1> QED BY <1>2, <1>3

Colons == <<":", ":">>

LEMMA ColonsAre == Colons \in String /\ Len(Colons) = 2 /\ Colons[1] = ":" /\ Colons[2] = ":"
<1>1. ":" \in Characters
  BY ArgsAssumption
<1> QED BY <1>1 DEF Colons, String

\* A string goes on from another with two colons.
LEMMA GoesOnIs ==
  ASSUME NEW s \in String, NEW t \in String
  PROVE  IsPrefix(s \o Colons, t) <=>
           /\ Len(s) + 2 <= Len(t) /\ \A k \in 1..Len(s) : s[k] = t[k]
           /\ t[Len(s) + 1] = ":" /\ t[Len(s) + 2] = ":"
<1>1. PICK n \in Nat : n = Len(s)
  BY DEF String
<1>2. PICK u : u = s \o Colons
  OBVIOUS
<1>3. /\ u \in String /\ Len(u) = n + 2 /\ \A k \in 1..n : u[k] = s[k]
      /\ u[n + 1] = ":" /\ u[n + 2] = ":"
  <2>1. s \in Seq(Characters) /\ Colons \in Seq(Characters)
    BY ColonsAre DEF String
  <2>2. /\ u \in Seq(Characters) /\ Len(u) = n + Len(Colons)
        /\ \A k \in 1..n : u[k] = s[k]
        /\ \A k \in 1..Len(Colons) : u[n + k] = Colons[k]
    BY <1>1, <1>2, <2>1
  <2>3. 1 \in 1..2 /\ 2 \in 1..2
    OBVIOUS
  <2> QED BY <2>2, <2>3, ColonsAre DEF String
<1>4. IsPrefix(u, t) <=> /\ n + 2 <= Len(t)
                         /\ \A k \in 1..(n + 2) : u[k] = t[k]
  BY <1>3, PrefixIs
<1>5. \A k \in 1..(n + 2) : k \in 1..n \/ k = n + 1 \/ k = n + 2
  OBVIOUS
<1>6. n + 1 \in 1..(n + 2) /\ n + 2 \in 1..(n + 2) /\ \A k \in 1..n : k \in 1..(n + 2)
  OBVIOUS
<1> QED BY ONLY <1>1, <1>2, <1>3, <1>4, <1>5, <1>6

\* The loop takes a suite whose name begins with the argument, or from whose name the
\* argument goes on.
LEMMA HitIs ==
  ASSUME NEW name \in String, NEW j \in Index
  PROVE  Hit(name, j) <=> \/ IsPrefix(name, Suites[j].name)
                          \/ IsPrefix(Suites[j].name \o Colons, name)
<1>1. PICK s \in String : s = Suites[j].name
  BY SuiteIs
<1>2. PICK n, m : n = Len(s) /\ m = Len(name) /\ n \in Nat /\ m \in Nat
  <2>1. Len(s) \in Nat /\ Len(name) \in Nat
    BY DEF String
  <2> QED BY <2>1
<1>3. PICK r : r = Rest(name, n)
  OBVIOUS
<1>4. m > n => /\ r \in String /\ Len(r) = m - n
               /\ \A k \in 1..(m - n) : r[k] = name[n + k]
  BY <1>2, <1>3 DEF Rest, String
<1>5. Hit(name, j) <=> /\ IsPrefix(name, s) \/ IsPrefix(s, name)
                       /\ m > n => IsPrefix(Colons, r)
  BY <1>1, <1>2, <1>3 DEF Hit, Agree, Colons
<1>6. /\ IsPrefix(name, s) <=> m <= n /\ \A k \in 1..m : name[k] = s[k]
      /\ IsPrefix(s, name) <=> n <= m /\ \A k \in 1..n : s[k] = name[k]
      /\ IsPrefix(s \o Colons, name) <=>
           /\ n + 2 <= m /\ \A k \in 1..n : s[k] = name[k]
           /\ name[n + 1] = ":" /\ name[n + 2] = ":"
  BY <1>2, PrefixIs, GoesOnIs
<1>7. ASSUME m > n
      PROVE  IsPrefix(Colons, r) <=> n + 2 <= m /\ name[n + 1] = ":" /\ name[n + 2] = ":"
  <2>1. IsPrefix(Colons, r) <=> 2 <= m - n /\ \A k \in 1..2 : Colons[k] = r[k]
    <3>1. IsPrefix(Colons, r) <=> /\ Len(Colons) <= Len(r)
                                  /\ \A k \in 1..Len(Colons) : Colons[k] = r[k]
      BY <1>4, <1>7, ColonsAre, PrefixIs
    <3> QED BY <1>4, <1>7, <3>1, ColonsAre
  <2>2. (\A k \in 1..2 : Colons[k] = r[k]) <=> r[1] = ":" /\ r[2] = ":"
    BY ColonsAre
  <2>3. 2 <= m - n <=> n + 2 <= m
    BY <1>2
  <2>4. 2 <= m - n => r[1] = name[n + 1] /\ r[2] = name[n + 2]
    BY <1>2, <1>4, <1>7
  <2> QED BY <2>1, <2>2, <2>3, <2>4
<1>8. CASE m > n
  <2>1. ~(m <= n) /\ n <= m
    BY <1>2, <1>8
  <2> QED BY ONLY <1>1, <1>5, <1>6, <1>7, <1>8, <2>1
<1>9. CASE ~(m > n)
  <2>1. m <= n /\ ~(n + 2 <= m)
    BY <1>2, <1>9
  <2>2. IsPrefix(s, name) => IsPrefix(name, s)
    <3>1. n <= m => n = m
      BY <1>2, <1>9
    <3> QED BY <1>6, <2>1, <3>1
  <2> QED BY ONLY <1>1, <1>5, <1>6, <1>9, <2>1, <2>2
<1> QED BY <1>8, <1>9

\* Of the suites that the loop takes, the first is always found.
LEMMA FirstIsFound ==
  ASSUME NEW name, NEW j \in Index, Hit(name, j) PROVE Found(name) # {}
<1> DEFINE hits == {k \in Index : Hit(name, k)}
<1>1. hits \in SUBSET Nat /\ hits # {}
  BY SuiteIs
<1>2. PICK k \in hits : \A l \in hits : k <= l
  BY <1>1, LeastNumber
<1>3. k \in Found(name)
  BY <1>2 DEF Found
<1> QED BY <1>3

LEMMA FoundIsHit ==
  ASSUME NEW name, NEW j \in Found(name) PROVE j \in Index /\ Hit(name, j)
BY DEF Found

\* The loop finds no suite exactly where the argument means none, whatever the table.
LEMMA FoundWhereMeant ==
  ASSUME NEW name \in String
  PROVE  Found(name) = {} <=> \A j \in Index : ~Means(name, j)
<1>1. ASSUME NEW j \in Index, Means(name, j) PROVE Found(name) # {}
  <2>1. name = Suites[j].name => IsPrefix(name, Suites[j].name)
    BY DEF IsPrefix
  <2>2. Hit(name, j)
    BY <1>1, <2>1, HitIs DEF Means, Colons
  <2> QED BY <2>2, FirstIsFound
<1>2. ASSUME NEW j \in Found(name) PROVE \E k \in Index : Means(name, k)
  <2>1. /\ j \in Index
        /\ \/ IsPrefix(name, Suites[j].name)
           \/ IsPrefix(Suites[j].name \o Colons, name)
    BY FoundIsHit, HitIs
  <2> QED BY <2>1 DEF Means, Colons
<1> QED BY <1>1, <1>2
--------------------------------------------------------------------------------
(* Reading an option *)

LEMMA AskedAre ==
  ASSUME TypeOK
  PROVE  /\ Len(asked) \in Nat /\ DOMAIN asked = 1..Len(asked)
         /\ \A n \in 1..Len(asked) : asked[n] \in Options
BY DEF TypeOK

LEMMA WordsAre ==
  ASSUME NEW o \in Options PROVE Len(o.words) \in {1, 2}
<1>1. Spelled(o)
  BY OptionIs
<1>2. (\E w : o.words = <<w>>) \/ (\E w, v : o.words = <<w, v>>) \/ Len(o.words) = 1
  BY <1>1, Zenon DEF Spelled
<1> QED BY <1>2

\* There is a word left as long as there is an option left, and it is the option's first.
LEMMA OptionIsNext ==
  ASSUME TypeOK, InputInv, NEW n \in 0..Len(asked), Read(n)
  PROVE  /\ i <= Len(argv) <=> n # Len(asked)
         /\ n # Len(asked) => /\ n + 1 \in DOMAIN asked /\ asked[n + 1] \in Options
                              /\ word = asked[n + 1].words[1]
<1>1. Len(argv) \in Nat /\ i \in Nat
  BY DEF TypeOK
<1>2. CASE n = Len(asked)
  <2>1. i = Len(argv) + 1
    BY <1>2, Reads
  <2> QED BY <1>1, <1>2, <2>1
<1>3. CASE n # Len(asked)
  <2>1. /\ n + 1 \in DOMAIN asked
        /\ \A k \in 1..Len(NextWords(n)) : argv[i + (k - 1)] = NextWords(n)[k]
        /\ i + Len(NextWords(n)) <= Len(argv) + 1
    BY <1>3, Reads
  <2>2. asked[n + 1] \in Options
    BY <2>1, AskedAre
  <2>3. PICK l : l = Len(NextWords(n)) /\ l \in {1, 2}
    BY <2>2, WordsAre DEF NextWords
  <2>4. 1 \in 1..l /\ i + (1 - 1) = i
    BY <1>1, <2>3
  <2>5. argv[i] = NextWords(n)[1]
    BY <2>1, <2>3, <2>4
  <2>6. i <= Len(argv)
    <3>1. PICK L : L = Len(argv)
      OBVIOUS
    <3>2. L \in Nat /\ i + l <= L + 1
      BY <1>1, <2>1, <2>3, <3>1
    <3>3. i <= L
      BY ONLY <1>1, <2>3, <3>2
    <3> QED BY <3>1, <3>3
  <2> QED BY <1>3, <2>1, <2>2, <2>5, <2>6 DEF word, NextWords
<1> QED BY <1>2, <1>3

\* Where a name is expected and given, it is read whole.
LEMMA NameIsTaken ==
  ASSUME TypeOK, InputInv, NEW n \in 0..Len(asked), Read(n), n # Len(asked),
         asked[n + 1].letter \in NameLetters
  PROVE  /\ letter = asked[n + 1].letter /\ argument = asked[n + 1].name
         /\ Attached = <<>> => i < Len(argv)
         /\ i + (IF Attached # <<>> THEN 1 ELSE 2) = i + Len(NextWords(n))
<1>1. /\ asked[n + 1] \in Options /\ word = asked[n + 1].words[1]
  BY OptionIsNext
<1>2. /\ letter = asked[n + 1].letter
      /\ \/ Len(NextWords(n)) = 1 /\ Attached = asked[n + 1].name /\ Attached # <<>>
         \/ Len(NextWords(n)) = 2 /\ Attached = <<>> /\ NextWords(n)[2] = asked[n + 1].name
  BY <1>1, NameIsRead DEF NextWords
<1>3. /\ i \in Nat /\ Len(argv) \in Nat
      /\ \A k \in 1..Len(NextWords(n)) : argv[i + (k - 1)] = NextWords(n)[k]
      /\ i + Len(NextWords(n)) <= Len(argv) + 1
  <2>1. i \in Nat /\ Len(argv) \in Nat
    BY DEF TypeOK
  <2> QED BY <2>1, Reads
<1>4. CASE Attached # <<>>
  BY <1>2, <1>4 DEF argument
<1>5. CASE Attached = <<>>
  <2>1. Len(NextWords(n)) = 2 /\ NextWords(n)[2] = asked[n + 1].name
    BY <1>2, <1>5
  <2>2. argv[i + 1] = NextWords(n)[2]
    <3>1. 2 \in 1..2 /\ 2 - 1 = 1
      OBVIOUS
    <3> QED BY <1>3, <2>1, <3>1
  <2>3. i < Len(argv)
    BY <1>3, <2>1
  <2> QED BY <1>2, <1>5, <2>1, <2>2, <2>3 DEF argument
<1> QED BY <1>4, <1>5

\* A letter is not of two kinds.
LEMMA LettersApart ==
  /\ NameLetters \cap FlagLetters = {} /\ "r" \notin NameLetters \cup FlagLetters
  /\ Letters = NameLetters \cup FlagLetters \cup {"r"}
  /\ "misuse" \notin Letters /\ "unfinished" \notin Letters
BY DEF NameLetters, FlagLetters, Letters

\* What is read tells which option it is.
LEMMA KindIsRead ==
  ASSUME TypeOK, InputInv, NEW n \in 0..Len(asked), Read(n), n # Len(asked)
  PROVE  LET o == asked[n + 1]
         IN /\ letter \notin Letters => o.letter = "misuse"
            /\ letter \in NameLetters =>
                 IF Attached = <<>> /\ i = Len(argv) THEN o.letter = "unfinished"
                 ELSE o.letter = letter
            /\ letter \in FlagLetters =>
                 IF Len(word) = 2 THEN o.letter = letter /\ Len(o.words) = 1
                 ELSE o.letter = "misuse"
            /\ letter = "r" => o.letter = "r"
<1> DEFINE o == asked[n + 1]
<1>1. o \in Options /\ word = o.words[1] /\ n + 1 \in DOMAIN asked
  BY OptionIsNext
<1>2. i \in Nat /\ Len(argv) \in Nat
  BY DEF TypeOK
<1>3. o.letter \in Letters \cup {"misuse", "unfinished"}
  BY <1>1, OptionIs
<1>4. CASE o.letter \in NameLetters
  <2>1. letter = o.letter /\ (Attached = <<>> => i # Len(argv))
    BY <1>2, <1>4, NameIsTaken
  <2> QED BY <1>4, <2>1, LettersApart
<1>5. CASE o.letter \in FlagLetters
  <2>1. letter = o.letter /\ Len(word) = 2 /\ Len(o.words) = 1
    BY <1>1, <1>5, FlagIsRead
  <2> QED BY <1>5, <2>1, LettersApart
<1>6. CASE o.letter = "r"
  <2>1. letter = "r"
    BY <1>1, <1>6, SummaryIsRead
  <2> QED BY <1>6, <2>1, LettersApart
<1>7. CASE o.letter = "misuse"
  <2>1. letter \notin Letters \/ (letter \in FlagLetters /\ Len(word) # 2)
    BY <1>1, <1>7, MisuseIsRead
  <2> QED BY <1>7, <2>1, LettersApart
<1>8. CASE o.letter = "unfinished"
  <2>1. letter \in NameLetters /\ Attached = <<>> /\ Len(o.words) = 1
    BY <1>1, <1>8, UnfinishedIsRead
  <2>2. i = Len(argv)
    <3>1. n + 1 = Len(asked)
      BY <1>1, <1>8 DEF InputInv
    <3>2. i + Len(NextWords(n)) = Len(argv) + 1
      BY <3>1, Reads
    <3> QED BY <1>2, <2>1, <3>2 DEF NextWords
  <2> QED BY <1>8, <2>1, <2>2, LettersApart
<1> QED BY <1>3, <1>4, <1>5, <1>6, <1>7, <1>8, LettersApart
--------------------------------------------------------------------------------
(* What the options read so far have asked for *)

\* One more number.
LEMMA OneMore ==
  ASSUME NEW n \in Nat
  PROVE  /\ n + 1 \in Nat /\ 1..(n + 1) = (1..n) \cup {n + 1} /\ n + 1 \notin 1..n
         /\ 1..n \subseteq 0..(n + 1) /\ n + 1 \in 0..(n + 1)
OBVIOUS

\* The last of some numbers and one more is that one.
LEMMA LastIsMore ==
  ASSUME NEW n \in Nat, NEW S \in SUBSET (1..n)
  PROVE  Max(S \cup {n + 1}) = n + 1
<1> DEFINE T == S \cup {n + 1}
<1>1. T \in SUBSET (0..(n + 1)) /\ T # {} /\ n + 1 \in T
  BY OneMore
<1> HIDE DEF T
<1>2. Max(T) \in T /\ \A x \in T : x <= Max(T)
  BY <1>1, OneMore, MaxIs
<1>3. Max(T) \in 0..(n + 1) /\ n + 1 <= Max(T)
  BY <1>1, <1>2
<1> QED BY <1>3 DEF T

LEMMA FoundAreSuites == \A name : Found(name) \subseteq Index
BY DEF Found

\* The marks of the suites after one more option.
LEMMA EnabledStep ==
  ASSUME NEW n \in Nat, EnabledInv(n), UNCHANGED asked,
         IF asked[n + 1].letter \in NameLetters
         THEN enabled' = IF asked[n + 1].letter = "x"
                         THEN enabled \ Found(asked[n + 1].name)
                         ELSE enabled \cup Found(asked[n + 1].name)
         ELSE UNCHANGED enabled
  PROVE  EnabledInv(n + 1)'
<1> DEFINE o == asked[n + 1]
<1> SUFFICES ASSUME NEW j \in Index
             PROVE  j \in enabled' <=>
                      IF Finding(j, n + 1) = {} THEN Suites[j].enabled
                      ELSE asked[Max(Finding(j, n + 1))].letter # "x"
  BY DEF EnabledInv, Finding
<1>1. j \in enabled <=> IF Finding(j, n) = {} THEN Suites[j].enabled
                        ELSE asked[Max(Finding(j, n))].letter # "x"
  BY DEF EnabledInv
<1>2. Finding(j, n) \in SUBSET (1..n)
  BY DEF Finding
<1>3. CASE o.letter \in NameLetters /\ j \in Found(o.name)
  <2>1. Finding(j, n + 1) = Finding(j, n) \cup {n + 1}
    BY <1>3, OneMore DEF Finding
  <2>2. Max(Finding(j, n + 1)) = n + 1 /\ Finding(j, n + 1) # {}
    BY <1>2, <2>1, LastIsMore
  <2>3. j \in enabled' <=> o.letter # "x"
    BY <1>3
  <2> QED BY <2>2, <2>3
<1>4. CASE ~(o.letter \in NameLetters /\ j \in Found(o.name))
  <2>1. Finding(j, n + 1) = Finding(j, n)
    BY <1>4, OneMore DEF Finding
  <2>2. j \in enabled' <=> j \in enabled
    BY <1>4
  <2> QED BY <1>1, <2>1, <2>2
<1> QED BY <1>3, <1>4

\* The list of -s after one more option.
LEMMA ExplicitStep ==
  ASSUME NEW n \in Nat, ExplicitInv(n), TypeOK, UNCHANGED asked, asked[n + 1].name \in String,
         IF asked[n + 1].letter = "s"
         THEN explicit' = explicit \o
                Picked([j \in Index |-> [suite |-> j, filter |-> asked[n + 1].name]],
                       Found(asked[n + 1].name))
         ELSE UNCHANGED explicit
  PROVE  ExplicitInv(n + 1)' /\ explicit' \in Seq([suite: Index, filter: String])
<1> DEFINE o == asked[n + 1]
           Entry == [suite: Index, filter: String]
           Of(e, m) == /\ asked[m].letter = "s" /\ e.filter = asked[m].name
                       /\ e.suite \in Found(asked[m].name)
           Has(list, j, m) == \E k \in DOMAIN list : list[k] = [suite |-> j, filter |-> asked[m].name]
           Lists(list, l) == /\ \A k \in DOMAIN list : \E m \in 1..l : Of(list[k], m)
                             /\ \A m \in 1..l : asked[m].letter = "s" =>
                                  \A j \in Found(asked[m].name) : Has(list, j, m)
<1>1. ExplicitInv(n) <=> Lists(explicit, n)
  BY DEF ExplicitInv
<1>2. ExplicitInv(n + 1)' <=> Lists(explicit', n + 1)
  BY DEF ExplicitInv
<1>3. explicit \in Seq(Entry)
  BY DEF TypeOK
<1>4. CASE o.letter # "s"
  <2>1. explicit' = explicit /\ Lists(explicit, n)
    BY <1>1, <1>4
  <2>2. ASSUME NEW m \in 1..(n + 1), asked[m].letter = "s" PROVE m \in 1..n
    BY <1>4, <2>2, OneMore
  <2>3. 1..n \subseteq 1..(n + 1)
    BY OneMore
  <2> HIDE DEF Of, Has
  <2>4. Lists(explicit, n + 1)
    BY <2>1, <2>2, <2>3
  <2> HIDE DEF Lists
  <2> QED BY <1>2, <1>3, <2>1, <2>4
<1>5. CASE o.letter = "s"
  <2> DEFINE all == [j \in Index |-> [suite |-> j, filter |-> o.name]]
             new == Picked(all, Found(o.name))
  <2>1. all \in Seq(Entry) /\ DOMAIN all = Index
    <3>1. PICK N \in Nat : Index = 1..N
      BY ArgsAssumption DEF Index
    <3>2. all \in [1..N -> Entry]
      BY <3>1
    <3> QED BY <3>1, <3>2
  <2>2. \A j \in Index : all[j] = [suite |-> j, filter |-> o.name]
    OBVIOUS
  <2> HIDE DEF all
  <2>3. /\ new \in Seq(Entry)
        /\ \A m \in DOMAIN new : \E k \in Found(o.name) \cap DOMAIN all : new[m] = all[k]
        /\ \A k \in Found(o.name) \cap DOMAIN all : \E m \in DOMAIN new : new[m] = all[k]
    <3>1. Picks(new, Entry, all, Found(o.name))
      BY <2>1, PickedIs
    <3> QED BY <3>1 DEF Picks
  <2>4. explicit' = explicit \o new
    BY <1>5 DEF all
  <2> HIDE DEF new
  <2>5. /\ \A m \in DOMAIN new : Of(new[m], n + 1)
        /\ \A j \in Found(o.name) : Has(new, j, n + 1)
    BY <1>5, <2>1, <2>2, <2>3, FoundAreSuites
  <2> HIDE DEF Of
  <2>6. PICK a, b : a = Len(explicit) /\ b = Len(new) /\ a \in Nat /\ b \in Nat
    <3>1. Len(explicit) \in Nat /\ Len(new) \in Nat
      BY <1>3, <2>3
    <3> QED BY ONLY <3>1
  <2>7. /\ explicit' \in Seq(Entry) /\ DOMAIN explicit' = 1..(a + b)
        /\ DOMAIN explicit = 1..a /\ DOMAIN new = 1..b
        /\ \A k \in 1..a : explicit'[k] = explicit[k]
        /\ \A k \in 1..b : explicit'[a + k] = new[k]
    BY <1>3, <2>3, <2>4, <2>6
  <2>8. ASSUME NEW k \in DOMAIN explicit' PROVE \E m \in 1..(n + 1) : Of(explicit'[k], m)
    <3>1. CASE k <= a
      <4>1. k \in 1..a
        BY <2>6, <2>7, <3>1
      <4>2. \E m \in 1..n : Of(explicit[k], m)
        BY <1>1, <2>7, <4>1
      <4> QED BY <2>7, <4>1, <4>2, OneMore
    <3>2. CASE ~(k <= a)
      <4>1. k - a \in 1..b /\ a + (k - a) = k
        BY <2>6, <2>7, <3>2
      <4>2. Of(new[k - a], n + 1) /\ explicit'[k] = new[k - a]
        BY <2>5, <2>7, <4>1
      <4> QED BY <4>2, OneMore
    <3> QED BY <3>1, <3>2
  <2>9. ASSUME NEW m \in 1..(n + 1), asked[m].letter = "s", NEW j \in Found(asked[m].name)
        PROVE  Has(explicit', j, m)
    <3>1. CASE m \in 1..n
      <4>1. PICK k \in 1..a : explicit[k] = [suite |-> j, filter |-> asked[m].name]
        BY <1>1, <2>7, <2>9, <3>1
      <4>2. k \in 1..(a + b)
        BY <2>6
      <4> QED BY <2>7, <4>1, <4>2
    <3>2. CASE m = n + 1
      <4>1. PICK k \in 1..b : new[k] = [suite |-> j, filter |-> asked[m].name]
        BY <2>5, <2>7, <2>9, <3>2
      <4>2. a + k \in 1..(a + b)
        BY <2>6
      <4> QED BY <2>7, <4>1, <4>2
    <3> QED BY <3>1, <3>2, OneMore
  <2> QED BY <1>2, <2>7, <2>8, <2>9
<1> QED BY <1>4, <1>5

\* The summary after one more option.
LEMMA SummaryStep ==
  ASSUME NEW n \in Nat, SummaryInv(n), UNCHANGED asked,
         IF asked[n + 1].letter = "r"
         THEN /\ write_summary' = TRUE
              /\ summary_filename' = IF asked[n + 1].name = <<>> THEN NoFile
                                     ELSE asked[n + 1].name
         ELSE UNCHANGED summary
  PROVE  SummaryInv(n + 1)'
<1> DEFINE S(l) == {m \in 1..l : asked[m].letter = "r"}
<1>1. CASE asked[n + 1].letter = "r"
  <2>1. S(n + 1) = S(n) \cup {n + 1} /\ S(n) \in SUBSET (1..n)
    BY <1>1, OneMore
  <2>2. Max(S(n + 1)) = n + 1 /\ S(n + 1) # {}
    BY <2>1, LastIsMore
  <2> QED BY <1>1, <2>2 DEF SummaryInv
<1>2. CASE asked[n + 1].letter # "r"
  <2>1. S(n + 1) = S(n)
    BY <1>2, OneMore
  <2>2. UNCHANGED <<write_summary, summary_filename, asked>>
    BY <1>2 DEF summary
  <2>3. SummaryInv(n)'
    BY <2>2 DEF SummaryInv
  <2> QED BY <2>1, <2>2 DEF SummaryInv
<1> QED BY <1>1, <1>2
--------------------------------------------------------------------------------
(* The invariant *)

LEMMA NullIsNoString == NoFile \notin String
<1> SUFFICES ASSUME NoFile \in String PROVE FALSE
  OBVIOUS
<1>1. PICK s \in Seq(Characters) : s = <<"NULL">>
  BY DEF NoFile, String
<1>2. Len(s) = 1 /\ s[1] = "NULL" /\ 1 \in 1..1
  BY <1>1
<1>3. s[1] \in Characters
  BY <1>2
<1> QED BY <1>2, <1>3, ArgsAssumption

\* So far the process is reading, has read n options, and n is not all of them.
At(n) ==
  /\ ArgsInvariant /\ pc = "parse" /\ n \in 0..Len(asked) /\ n # Len(asked)
  /\ Read(n) /\ Passed(n) /\ EnabledInv(n) /\ ExplicitInv(n) /\ SummaryInv(n)

LEMMA AtIs ==
  ASSUME NEW n, At(n)
  PROVE  /\ TypeOK /\ InputInv /\ n \in Nat /\ n + 1 \in 1..Len(asked) /\ (n + 1) - 1 = n
         /\ Len(asked) \in Nat /\ asked[n + 1] \in Options /\ asked[n + 1].name \in String
         /\ exit = Running
<1>1. TypeOK /\ InputInv /\ n \in 0..Len(asked) /\ n # Len(asked) /\ exit = Running
  BY DEF At, ArgsInvariant, ParseInv
<1>2. PICK N \in Nat : N = Len(asked)
  BY <1>1, AskedAre
<1>3. n \in Nat /\ n + 1 \in 1..N /\ (n + 1) - 1 = n
  BY <1>1, <1>2
<1>4. asked[n + 1] \in Options
  BY <1>1, <1>2, <1>3, AskedAre
<1> QED BY <1>1, <1>2, <1>3, <1>4, OptionIs

\* An option that ends the process has ended it with its status.
LEMMA EndingKeeps ==
  ASSUME NEW n, At(n), Ends(asked[n + 1]), Exit(StatusOf(asked[n + 1].letter))
  PROVE  ArgsInvariant'
<1>1. /\ TypeOK /\ InputInv /\ n + 1 \in 1..Len(asked) /\ (n + 1) - 1 = n
      /\ DOMAIN asked = 1..Len(asked)
  BY AtIs, AskedAre
<1>2. /\ pc' = "exited" /\ exit' = StatusOf(asked[n + 1].letter)
      /\ UNCHANGED <<asked, env, argv, i, enabled, explicit, verbosity, output_format,
                     exit_on_error, write_summary, summary_filename>>
  BY DEF Exit, input, printing, summary
<1>3. exit' \in {0, 1, 255}
  BY <1>2 DEF StatusOf
<1>4. TypeOK'
  BY <1>1, <1>2, <1>3 DEF TypeOK
<1>5. InputInv'
  BY <1>1, <1>2 DEF InputInv
<1>6. Passed(n)'
  BY <1>2 DEF At, Passed
<1>7. ExitInv'
  BY <1>1, <1>2, <1>6 DEF ExitInv
<1> QED BY <1>2, <1>4, <1>5, <1>7 DEF ArgsInvariant, ParseInv, RunInv

\* Another option has been read.
LEMMA GoingOnKeeps ==
  ASSUME NEW n, At(n), ~Ends(asked[n + 1]),
         i' = i + Len(NextWords(n)), UNCHANGED <<input, pc, exit>>,
         EnabledInv(n + 1)', ExplicitInv(n + 1)', SummaryInv(n + 1)',
         enabled' \subseteq Index, explicit' \in Seq([suite: Index, filter: String]),
         verbosity' \in Int, output_format' \in {"CLAP", "TAP"}, exit_on_error' \in BOOLEAN,
         write_summary' \in BOOLEAN, summary_filename' \in String \cup {NoFile}
  PROVE  ArgsInvariant'
<1>1. /\ TypeOK /\ InputInv /\ n \in Nat /\ n + 1 \in 1..Len(asked) /\ Len(asked) \in Nat
      /\ exit = Running /\ pc = "parse" /\ Read(n) /\ n \in 0..Len(asked) /\ n # Len(asked)
  BY AtIs DEF At
<1>2. /\ UNCHANGED <<asked, env, argv>> /\ pc' = "parse" /\ exit' = Running
  BY <1>1 DEF input
<1>3. /\ Len(NextWords(n)) \in Nat
      /\ i + Len(NextWords(n)) <= Len(argv) + 1
      /\ i + Len(NextWords(n)) = Len(FlattenSeq([m \in 1..(n + 1) |-> asked[m].words])) + 1
  BY <1>1, Reads
<1>4. i' \in 1..(Len(argv) + 1)
  <2>1. PICK l, L : l = Len(NextWords(n)) /\ L = Len(argv)
    OBVIOUS
  <2>2. i \in 1..(L + 1) /\ L \in Nat /\ l \in Nat /\ i + l <= L + 1
    BY <1>1, <1>3, <2>1 DEF TypeOK
  <2>3. i + l \in 1..(L + 1)
    BY ONLY <2>2
  <2> QED BY <2>1, <2>3
<1>5. TypeOK'
  BY <1>1, <1>2, <1>4 DEF TypeOK
<1>6. InputInv'
  BY <1>1, <1>2 DEF InputInv
<1>7. Passed(n + 1)'
  BY <1>1, <1>2, OneMore DEF At, Passed
<1>8. Read(n + 1)'
  BY <1>2, <1>3 DEF Read
<1>9. n + 1 \in 0..Len(asked')
  <2>1. PICK N : N = Len(asked)
    OBVIOUS
  <2>2. n + 1 \in 0..N
    BY <1>1, <2>1
  <2> QED BY <1>2, <2>1, <2>2
<1>10. ParseInv'
  BY <1>2, <1>7, <1>8, <1>9 DEF ParseInv
<1> QED BY <1>2, <1>5, <1>6, <1>10 DEF ArgsInvariant, RunInv, ExitInv

\* A misused word, a letter without a name, -l and a name of no suite end the process.
LEMMA ExitsKeep ==
  ASSUME NEW n, At(n), Plain \/ NameIsMissing \/ NoSuch \/ FlagIsMisused \/ List
  PROVE  ArgsInvariant'
<1> DEFINE o == asked[n + 1]
<1>1. /\ TypeOK /\ InputInv /\ n \in 0..Len(asked) /\ Read(n) /\ n # Len(asked)
      /\ o.name \in String
  BY AtIs DEF At
<1>2. CASE Plain
  <2>1. o.letter = "misuse"
    BY <1>1, <1>2, KindIsRead DEF Plain
  <2> QED BY <1>2, <2>1, EndingKeeps DEF Plain, clar_usage, Ends, StatusOf
<1>3. CASE NameIsMissing
  <2>1. o.letter = "unfinished"
    BY <1>1, <1>3, KindIsRead DEF NameIsMissing, Naming
  <2> QED BY <1>3, <2>1, EndingKeeps DEF NameIsMissing, clar_usage, Ends, StatusOf
<1>4. CASE NoSuch
  <2>1. i \in Nat /\ Len(argv) \in Nat
    BY <1>1 DEF TypeOK
  <2>2. letter \in NameLetters /\ ~(Attached = <<>> /\ i = Len(argv))
    BY <1>4, <2>1 DEF NoSuch, Naming
  <2>3. o.letter = letter /\ o.letter \in NameLetters
    BY <1>1, <2>2, KindIsRead
  <2>4. argument = o.name
    BY <1>1, <2>3, NameIsTaken
  <2>5. Ends(o)
    BY <1>1, <1>4, <2>3, <2>4, FoundWhereMeant DEF NoSuch, Ends
  <2>6. StatusOf(o.letter) = 255
    BY <2>3 DEF StatusOf, NameLetters
  <2> QED BY <1>4, <2>5, <2>6, EndingKeeps DEF NoSuch
<1>5. CASE FlagIsMisused
  <2>1. o.letter = "misuse"
    BY <1>1, <1>5, KindIsRead DEF FlagIsMisused, Flag
  <2> QED BY <1>5, <2>1, EndingKeeps DEF FlagIsMisused, clar_usage, Ends, StatusOf
<1>6. CASE List
  <2>1. o.letter = "l"
    BY <1>1, <1>6, KindIsRead DEF List, Flag, FlagLetters
  <2> QED BY <1>6, <2>1, EndingKeeps DEF List, Ends, StatusOf
<1> QED BY <1>2, <1>3, <1>4, <1>5, <1>6

\* -s, -i and -x change the marks of the suites they find.
LEMMA NamesKeep ==
  ASSUME NEW n, At(n), Select \/ Include \/ Exclude
  PROVE  ArgsInvariant'
<1> DEFINE o == asked[n + 1]
<1>1. /\ TypeOK /\ InputInv /\ n \in 0..Len(asked) /\ Read(n) /\ n # Len(asked)
      /\ o.name \in String /\ n \in Nat
      /\ EnabledInv(n) /\ ExplicitInv(n) /\ SummaryInv(n)
  BY AtIs DEF At
<1>2. PICK l \in NameLetters : Names(l) /\ (Select => l = "s") /\ (Include => l = "i")
                               /\ (Exclude => l = "x")
  BY DEF Select, Include, Exclude, NameLetters, Names
<1>3. o.letter = l
  <2>1. i \in Nat /\ Len(argv) \in Nat
    BY <1>1 DEF TypeOK
  <2>2. letter = l /\ ~(Attached = <<>> /\ i = Len(argv))
    BY <1>2, <2>1 DEF Names, TakeName
  <2> QED BY <1>1, <2>2, KindIsRead
<1>4. argument = o.name /\ i' = i + Len(NextWords(n)) /\ Found(o.name) # {}
  BY <1>1, <1>2, <1>3, NameIsTaken DEF Names, TakeName
<1>5. /\ UNCHANGED <<input, pc, exit>> /\ UNCHANGED <<printing, summary>>
      /\ UNCHANGED asked
      /\ enabled' = IF o.letter = "x" THEN enabled \ Found(o.name)
                    ELSE enabled \cup Found(o.name)
      /\ IF o.letter = "s"
         THEN explicit' = explicit \o
                Picked([j \in Index |-> [suite |-> j, filter |-> o.name]], Found(o.name))
         ELSE UNCHANGED explicit
  BY <1>2, <1>3, <1>4 DEF Select, Include, Exclude, input
<1>6. EnabledInv(n + 1)'
  BY <1>1, <1>3, <1>5, EnabledStep
<1>7. ExplicitInv(n + 1)' /\ explicit' \in Seq([suite: Index, filter: String])
  BY <1>1, <1>5, ExplicitStep
<1>8. SummaryInv(n + 1)'
  <2>1. o.letter # "r"
    BY <1>3 DEF NameLetters
  <2> QED BY <1>1, <1>5, <2>1, SummaryStep
<1>9. ~Ends(o)
  BY <1>1, <1>3, <1>4, FoundWhereMeant DEF Ends, NameLetters
<1>10. /\ enabled' \subseteq Index
       /\ verbosity' \in Int /\ output_format' \in {"CLAP", "TAP"} /\ exit_on_error' \in BOOLEAN
       /\ write_summary' \in BOOLEAN /\ summary_filename' \in String \cup {NoFile}
  BY <1>1, <1>5, FoundAreSuites DEF TypeOK, printing, summary
<1> QED BY <1>4, <1>5, <1>6, <1>7, <1>8, <1>9, <1>10, GoingOnKeeps

\* The flags and -r leave the suites alone.
LEMMA FlagsKeep ==
  ASSUME NEW n, At(n), Quiet \/ Verbose \/ Tap \/ Quit \/ Summary
  PROVE  ArgsInvariant'
<1> DEFINE o == asked[n + 1]
<1>1. /\ TypeOK /\ InputInv /\ n \in 0..Len(asked) /\ Read(n) /\ n # Len(asked)
      /\ o \in Options /\ o.name \in String /\ n \in Nat
      /\ EnabledInv(n) /\ ExplicitInv(n) /\ SummaryInv(n)
  BY AtIs DEF At
<1>2. UNCHANGED <<input, pc, exit, enabled, explicit, asked>> /\ i' = i + 1
  BY DEF Quiet, Verbose, Tap, Quit, Summary, Simple, input
<1>3. o.letter \in {"q", "v", "t", "Q", "r"} /\ (o.letter = "r" <=> Summary)
  <2>1. CASE Summary
    <3>1. o.letter = "r"
      BY <1>1, <2>1, KindIsRead DEF Summary, Flag
    <3> QED BY <2>1, <3>1
  <2>2. CASE Quiet \/ Verbose \/ Tap \/ Quit
    <3>1. PICK l \in {"q", "v", "t", "Q"} : Simple(l)
      BY <2>2 DEF Quiet, Verbose, Tap, Quit
    <3>2. letter = l /\ l \in FlagLetters /\ Len(word) = 2 /\ l # "r"
      BY <3>1 DEF Simple, Flag, FlagLetters
    <3>3. o.letter = l
      BY <1>1, <3>2, KindIsRead
    <3>4. ~Summary
      BY <3>2 DEF Summary, Flag
    <3> QED BY <3>1, <3>2, <3>3, <3>4
  <2> QED BY <2>1, <2>2
<1>4. Len(NextWords(n)) = 1
  <2>1. word = o.words[1]
    BY <1>1, OptionIsNext
  <2>2. o.letter \in FlagLetters \/ o.letter = "r"
    BY <1>3 DEF FlagLetters
  <2> QED BY <1>1, <2>1, <2>2, FlagIsRead, SummaryIsRead DEF NextWords
<1>5. EnabledInv(n + 1)' /\ ExplicitInv(n + 1)'
      /\ explicit' \in Seq([suite: Index, filter: String])
  <2>1. o.letter \notin NameLetters /\ o.letter # "s"
    BY <1>3 DEF NameLetters
  <2> QED BY <1>1, <1>2, <2>1, EnabledStep, ExplicitStep
<1>6. IF o.letter = "r"
      THEN /\ write_summary' = TRUE
           /\ summary_filename' = IF o.name = <<>> THEN NoFile ELSE o.name
      ELSE UNCHANGED summary
  <2>1. CASE Summary
    <3>1. word = o.words[1]
      BY <1>1, OptionIsNext
    <3>2. (IF Len(word) > 2 THEN Rest(word, 2) ELSE NoFile)
            = (IF o.name = <<>> THEN NoFile ELSE o.name)
      BY <1>1, <1>3, <2>1, <3>1, SummaryIsRead
    <3> QED BY <1>3, <2>1, <3>2 DEF Summary
  <2>2. CASE ~Summary
    <3>1. UNCHANGED summary
      BY <2>2 DEF Quiet, Verbose, Tap, Quit, Simple
    <3> QED BY <1>3, <2>2, <3>1
  <2> QED BY <2>1, <2>2
<1>7. SummaryInv(n + 1)'
  BY <1>1, <1>2, <1>6, SummaryStep
<1>8. write_summary' \in BOOLEAN /\ summary_filename' \in String \cup {NoFile}
  <2>1. CASE o.letter = "r"
    <3>1. write_summary' = TRUE /\ summary_filename' \in {NoFile, o.name}
      BY <1>6, <2>1
    <3> QED BY <1>1, <3>1
  <2>2. CASE o.letter # "r"
    <3>1. UNCHANGED <<write_summary, summary_filename>>
      BY <1>6, <2>2 DEF summary
    <3>2. write_summary \in BOOLEAN /\ summary_filename \in String \cup {NoFile}
      BY <1>1 DEF TypeOK
    <3> QED BY <3>1, <3>2
  <2> QED BY <2>1, <2>2
<1>9. /\ verbosity' \in Int /\ output_format' \in {"CLAP", "TAP"} /\ exit_on_error' \in BOOLEAN
      /\ enabled' \subseteq Index
  <2>1. /\ verbosity \in Int /\ output_format \in {"CLAP", "TAP"} /\ exit_on_error \in BOOLEAN
        /\ enabled \subseteq Index /\ enabled' = enabled
    BY <1>1, <1>2 DEF TypeOK
  <2>2. CASE Summary
    BY <2>1, <2>2 DEF Summary, printing
  <2>3. CASE Quiet \/ Verbose
    <3>1. /\ verbosity' \in {verbosity - 1, verbosity + 1}
          /\ UNCHANGED <<output_format, exit_on_error>>
      BY <2>3 DEF Quiet, Verbose
    <3>2. verbosity' \in Int
      BY <2>1, <3>1
    <3> QED BY <2>1, <3>1, <3>2
  <2>4. CASE Tap
    BY <2>1, <2>4 DEF Tap
  <2>5. CASE Quit
    BY <2>1, <2>5 DEF Quit
  <2> QED BY <2>2, <2>3, <2>4, <2>5
<1>10. ~Ends(o)
  BY <1>3 DEF Ends, NameLetters
<1>11. i' = i + Len(NextWords(n))
  BY <1>2, <1>4
<1> QED BY <1>2, <1>5, <1>7, <1>8, <1>9, <1>10, <1>11, GoingOnKeeps

\* clar_test_init runs only when the words of all the options have been read.
LEMMA InitKeeps ==
  ASSUME ArgsInvariant, clar_test_init PROVE ArgsInvariant'
<1>1. /\ TypeOK /\ InputInv /\ pc = "parse" /\ exit = Running
      /\ pc' = "run" /\ UNCHANGED <<asked, argv, env, i, exit, enabled, explicit,
                                    verbosity, output_format, exit_on_error>>
  BY DEF ArgsInvariant, ParseInv, clar_test_init, input, printing
<1>2. PICK n \in 0..Len(asked) :
        Read(n) /\ Passed(n) /\ EnabledInv(n) /\ ExplicitInv(n) /\ SummaryInv(n)
  BY <1>1 DEF ArgsInvariant, ParseInv
<1>3. n = Len(asked)
  <2>1. ~(i <= Len(argv))
    <3>1. i \in Nat /\ Len(argv) \in Nat
      BY <1>1 DEF TypeOK
    <3> QED BY <3>1 DEF clar_test_init
  <2> QED BY <1>1, <1>2, <2>1, OptionIsNext
<1>4. PICK N \in Nat : N = Len(asked) /\ DOMAIN asked = 1..N
                       /\ \A m \in 1..N : asked[m] \in Options
  BY <1>1, AskedAre
<1> DEFINE given == asked[Max(Reporting)].name
<1>5. /\ Reporting = {m \in 1..n : asked[m].letter = "r"}
      /\ Reporting # {} => given \in String
  <2>1. Reporting \in SUBSET (0..N) /\ Reporting \subseteq 1..N
    BY <1>4 DEF Reporting
  <2>2. Reporting # {} => Max(Reporting) \in 1..N
    BY <2>1, MaxIs
  <2> QED BY <1>3, <1>4, <2>2, OptionIs DEF Reporting
<1>6. IF Reporting = {} THEN ~write_summary /\ summary_filename = NoFile
      ELSE write_summary /\ summary_filename = IF given = <<>> THEN NoFile ELSE given
  BY <1>2, <1>5 DEF SummaryInv
<1>7. env \in Environments /\ (env = NoFile \/ env \in String)
  BY <1>1, ArgsAssumption DEF TypeOK
<1>8. /\ write_summary' = (write_summary \/ env # NoFile)
      /\ summary_filename' = SummaryName
  BY DEF clar_test_init
<1>9. Default \in String
  BY ArgsAssumption DEF Default, String
<1>10. write_summary' <=> Reporting # {} \/ env # NoFile
  BY <1>6, <1>8
<1>11. summary_filename' = IF Reporting # {} /\ given # <<>> THEN given
                           ELSE IF env # NoFile THEN env
                           ELSE IF Reporting # {} THEN Default ELSE NoFile
  <2>1. CASE Reporting # {} /\ given # <<>>
    BY <1>5, <1>6, <1>8, <2>1, NullIsNoString DEF SummaryName
  <2>2. CASE ~(Reporting # {} /\ given # <<>>)
    <3>1. summary_filename = NoFile /\ (write_summary <=> Reporting # {})
      BY <1>6, <2>2
    <3> QED BY <1>8, <2>2, <3>1 DEF SummaryName
  <2> QED BY <2>1, <2>2
<1>12. SummaryGoesWhereAsked'
  <2>1. Reporting' = Reporting
    BY <1>1 DEF Reporting
  <2> QED BY <1>1, <1>10, <1>11, <2>1 DEF SummaryGoesWhereAsked
<1>13. TypeOK'
  <2>1. write_summary' \in BOOLEAN
    BY <1>10
  <2>2. summary_filename' \in String \cup {NoFile}
    BY <1>5, <1>7, <1>9, <1>11
  <2> QED BY <1>1, <2>1, <2>2 DEF TypeOK
<1>14. InputInv'
  BY <1>1 DEF InputInv
<1>15. Passed(Len(asked))' /\ EnabledInv(Len(asked))' /\ ExplicitInv(Len(asked))'
  <2>1. asked' = asked /\ enabled' = enabled /\ explicit' = explicit
    BY <1>1
  <2>2. Passed(n) /\ EnabledInv(n) /\ ExplicitInv(n)
    BY <1>2
  <2>3. Passed(n)' /\ EnabledInv(n)' /\ ExplicitInv(n)'
    BY ONLY <2>1, <2>2 DEF Passed, EnabledInv, Finding, ExplicitInv
  <2>4. Len(asked)' = n
    BY <1>3, <2>1
  <2>5. Passed(Len(asked))' <=> Passed(n)'
    BY ONLY <2>1, <2>4 DEF Passed
  <2>6. EnabledInv(Len(asked))' <=> EnabledInv(n)'
    BY ONLY <2>1, <2>4 DEF EnabledInv, Finding
  <2>7. ExplicitInv(Len(asked))' <=> ExplicitInv(n)'
    BY ONLY <2>1, <2>4 DEF ExplicitInv
  <2> QED BY <2>3, <2>5, <2>6, <2>7
<1> QED BY <1>1, <1>12, <1>13, <1>14, <1>15 DEF ArgsInvariant, ParseInv, RunInv, ExitInv

\* At the start no option has been read.
LEMMA StartIs ==
  ASSUME Init PROVE ArgsInvariant
<1>1. PICK N \in 0..MaxOptions : asked \in [1..N -> Options]
  BY DEF Init, BoundedSeq, SeqOf
<1>2. N \in Nat /\ Len(asked) = N /\ DOMAIN asked = 1..N /\ asked \in Seq(Options)
  BY <1>1, ArgsAssumption
<1> DEFINE s == [m \in DOMAIN asked |-> asked[m].words]
<1>3. s \in Seq(Seq(String)) /\ Len(s) = N
  <2>1. \A m \in 1..N : asked[m].words \in Seq(String)
    BY <1>1, OptionIs
  <2> QED BY <1>2, <2>1
<1>4. argv = FlattenSeq(s)
  BY DEF Init
<1> HIDE DEF s
<1>5. PICK f : Flattens(f, String, s)
  BY <1>3, FlattenIs
<1>6. argv \in Seq(String)
  <2>1. s = [m \in 1..N |-> s[m]]
    BY <1>3
  <2>2. FlattenSeq([m \in 1..N |-> s[m]]) = f[N] /\ f[N] \in Seq(String)
    BY <1>2, <1>3, <1>5 DEF Flattens
  <2> QED BY <1>4, <2>1, <2>2
<1>7. Read(0)
  <2>1. FlattenSeq([m \in 1..0 |-> s[m]]) = <<>>
    <3>1. 0 \in 0..Len(s)
      BY <1>2, <1>3
    <3> QED BY <1>5, <3>1 DEF Flattens
  <2>2. [m \in 1..0 |-> s[m]] = [m \in 1..0 |-> asked[m].words]
    OBVIOUS
  <2> QED BY <2>1, <2>2 DEF Read, Init
<1>8. 1..0 = {} /\ 0 \in 0..Len(asked)
  BY <1>2
<1>9. Passed(0)
  BY <1>8 DEF Passed
<1>10. EnabledInv(0)
  <2>1. \A j \in Index : Finding(j, 0) = {}
    BY <1>8 DEF Finding
  <2> QED BY <2>1 DEF EnabledInv, Init
<1>11. ExplicitInv(0)
  <2>1. DOMAIN explicit = {}
    BY DEF Init
  <2> QED BY <1>8, <2>1 DEF ExplicitInv
<1>12. SummaryInv(0)
  BY <1>8 DEF SummaryInv, Init
<1>13. TypeOK
  <2>1. i \in 1..(Len(argv) + 1)
    BY <1>6 DEF Init
  <2>2. explicit \in Seq([suite: Index, filter: String])
    BY DEF Init
  <2>3. /\ env \in Environments /\ enabled \subseteq Index /\ verbosity \in Int
        /\ output_format \in {"CLAP", "TAP"} /\ exit_on_error \in BOOLEAN
        /\ write_summary \in BOOLEAN /\ summary_filename \in String \cup {NoFile}
    <3>1. env \in Environments /\ enabled \subseteq Index
      BY DEF Init
    <3>2. /\ verbosity = 0 /\ output_format = "CLAP" /\ exit_on_error = FALSE
          /\ write_summary = FALSE /\ summary_filename = NoFile
      BY DEF Init
    <3>3. verbosity \in Int
      BY <3>2
    <3>4. exit_on_error \in BOOLEAN /\ write_summary \in BOOLEAN
      BY ONLY <3>2, Zenon
    <3> QED BY ONLY <3>1, <3>2, <3>3, <3>4, Zenon
  <2>4. pc \in {"parse", "run", "exited"} /\ exit \in {Running, 0, 1, 255}
    BY DEF Init
  <2> QED BY <1>2, <1>6, <2>1, <2>2, <2>3, <2>4 DEF TypeOK
<1>14. InputInv
  BY DEF Init, InputInv
<1>15. ParseInv
  BY <1>7, <1>8, <1>9, <1>10, <1>11, <1>12 DEF ParseInv, Init
<1> QED BY <1>13, <1>14, <1>15 DEF Init, ArgsInvariant, RunInv, ExitInv

\* While a word is left to be read, some option has not been read.
LEMMA SomeAreLeft ==
  ASSUME ArgsInvariant, Parsing PROVE \E n : At(n)
<1>1. TypeOK /\ InputInv /\ pc = "parse" /\ i <= Len(argv)
  BY DEF ArgsInvariant, Parsing
<1>2. PICK n \in 0..Len(asked) :
        Read(n) /\ Passed(n) /\ EnabledInv(n) /\ ExplicitInv(n) /\ SummaryInv(n)
  BY <1>1 DEF ArgsInvariant, ParseInv
<1>3. n # Len(asked)
  BY <1>1, <1>2, OptionIsNext
<1> QED BY <1>1, <1>2, <1>3 DEF At

LEMMA StepKeeps ==
  ASSUME ArgsInvariant, [Next]_vars PROVE ArgsInvariant'
<1>1. CASE clar_test_init
  BY <1>1, InitKeeps
<1>2. CASE Plain \/ NameIsMissing \/ NoSuch \/ FlagIsMisused \/ List
  <2>1. Parsing
    BY <1>2 DEF Plain, NameIsMissing, NoSuch, FlagIsMisused, List, Naming, Flag
  <2> QED BY <1>2, <2>1, SomeAreLeft, ExitsKeep
<1>3. CASE Select \/ Include \/ Exclude
  <2>1. Parsing
    BY <1>3 DEF Select, Include, Exclude, Names, TakeName, Naming
  <2> QED BY <1>3, <2>1, SomeAreLeft, NamesKeep
<1>4. CASE Quiet \/ Verbose \/ Tap \/ Quit \/ Summary
  <2>1. Parsing
    BY <1>4 DEF Quiet, Verbose, Tap, Quit, Summary, Simple, Flag
  <2> QED BY <1>4, <2>1, SomeAreLeft, FlagsKeep
<1>5. CASE UNCHANGED vars
  <2>1. UNCHANGED <<asked, env, argv, i, pc, exit, enabled, explicit, verbosity,
                    output_format, exit_on_error, write_summary, summary_filename>>
    BY <1>5 DEF vars, input, printing, summary
  <2>2. TypeOK' /\ InputInv'
    BY <2>1 DEF ArgsInvariant, TypeOK, InputInv
  <2>3. \A n : /\ Read(n)' <=> Read(n)
               /\ Passed(n)' <=> Passed(n)
               /\ EnabledInv(n)' <=> EnabledInv(n)
               /\ ExplicitInv(n)' <=> ExplicitInv(n)
               /\ SummaryInv(n)' <=> SummaryInv(n)
    BY <2>1 DEF Read, Passed, EnabledInv, Finding, ExplicitInv, SummaryInv
  <2>4. ParseInv'
    BY <2>1, <2>3 DEF ArgsInvariant, ParseInv
  <2>5. SummaryGoesWhereAsked' <=> SummaryGoesWhereAsked
    BY <2>1 DEF SummaryGoesWhereAsked, Reporting
  <2>6. RunInv'
    BY <2>1, <2>3, <2>5 DEF ArgsInvariant, RunInv
  <2>7. ExitInv'
    BY <2>1, <2>3 DEF ArgsInvariant, ExitInv
  <2> QED BY <2>2, <2>4, <2>6, <2>7 DEF ArgsInvariant
<1> QED BY <1>1, <1>2, <1>3, <1>4, <1>5 DEF Next

\* The inductive invariant: the words that are read are those of the first options of
\* the command line, and the marks of the suites, the list of -s and the summary are
\* what these options ask for; an exit has the status of the option it happened at.
THEOREM ArgsInvariantHolds == Spec => []ArgsInvariant
<1>1. Init => ArgsInvariant
  BY StartIs
<1>2. ArgsInvariant /\ [Next]_vars => ArgsInvariant'
  BY StepKeeps
<1> QED BY <1>1, <1>2, PTL DEF Spec
--------------------------------------------------------------------------------
(* What follows *)

\* The summary goes to the file of the last -r, or else to that of CLAR_SUMMARY, or
\* else to summary.xml, and is written if and only if one of them asks for it, for
\* every command line (clar_parse_args and clar_test_init, clar.c).
THEOREM SummaryIsWhereAsked == Spec => []SummaryGoesWhereAsked
<1>1. ArgsInvariant => SummaryGoesWhereAsked
  BY DEF ArgsInvariant, RunInv, SummaryGoesWhereAsked
<1> QED BY <1>1, ArgsInvariantHolds, PTL

\* The first option that ends the process is the least of all that would.
LEMMA FirstToEnd ==
  ASSUME TypeOK, NEW n \in DOMAIN asked, Ends(asked[n]), Passed(n - 1)
  PROVE  Min({m \in DOMAIN asked : Ends(asked[m])}) = n
<1> DEFINE ending == {m \in DOMAIN asked : Ends(asked[m])}
<1>1. PICK N \in Nat : DOMAIN asked = 1..N
  BY AskedAre
<1>2. ending \in SUBSET (0..N) /\ n \in ending /\ ending \subseteq 1..N
  BY <1>1
<1>3. \A m \in ending : m \in 1..N /\ m \notin 1..(n - 1)
  BY <1>2 DEF Passed
<1>4. \A m \in ending : n <= m
  BY <1>1, <1>3
<1> HIDE DEF ending
<1>5. Min(ending) \in ending /\ \A m \in ending : Min(ending) <= m
  BY <1>2, MinIs
<1>6. Min(ending) \in 1..N /\ n \in 1..N /\ Min(ending) <= n /\ n <= Min(ending)
  BY <1>2, <1>4, <1>5
<1>7. Min(ending) = n
  BY <1>6
<1> QED BY <1>7 DEF ending

\* The process ends at the first option that lists the suites, is misused or names no
\* suite, with the status of that option, and runs the tests if there is none, for
\* every table and every command line (clar_parse_args, clar.c).
THEOREM ExitsHaveReasons == Spec => []ExitsForAReason
<1>1. ASSUME ArgsInvariant PROVE ExitsForAReason
  <2> DEFINE ending == {n \in DOMAIN asked : Ends(asked[n])}
  <2>1. TypeOK
    BY <1>1 DEF ArgsInvariant
  <2>2. pc = "run" => ending = {}
    BY <1>1, <2>1, AskedAre DEF ArgsInvariant, RunInv, Passed
  <2>3. ASSUME pc = "exited"
        PROVE  ending # {} /\ exit = StatusOf(asked[Min(ending)].letter)
    <3>1. PICK n \in DOMAIN asked :
            Ends(asked[n]) /\ Passed(n - 1) /\ exit = StatusOf(asked[n].letter)
      BY <1>1, <2>3 DEF ArgsInvariant, ExitInv
    <3>2. Min(ending) = n /\ n \in ending
      BY <2>1, <3>1, FirstToEnd
    <3> QED BY <3>1, <3>2
  <2> QED BY <2>2, <2>3 DEF ExitsForAReason
<1>2. ArgsInvariant => ExitsForAReason
  BY <1>1
<1> QED BY <1>2, ArgsInvariantHolds, PTL
--------------------------------------------------------------------------------
(* What the loop finds, where the names are apart *)

LEMMA LengthIs == \A s \in String : Len(s) \in Nat /\ s \in Seq(Characters) /\ DOMAIN s = 1..Len(s)
BY DEF String

\* Strings with the same characters are the same.
LEMMA SameString ==
  ASSUME NEW s \in String, NEW t \in String, Len(s) = Len(t),
         \A k \in 1..Len(s) : s[k] = t[k]
  PROVE  s = t
BY LengthIs, SeqEqual

\* Two names from which an argument goes on are one.
LEMMA OneGoesOn ==
  ASSUME NamesApart, NEW name \in String, NEW j \in Index, NEW k \in Index,
         IsPrefix(Suites[j].name \o Colons, name), IsPrefix(Suites[k].name \o Colons, name),
         Len(Suites[j].name) <= Len(Suites[k].name)
  PROVE  j = k
<1>1. PICK s, t : s = Suites[j].name /\ t = Suites[k].name /\ s \in String /\ t \in String
  BY SuiteIs
<1>2. PICK n \in Nat, m \in Nat : n = Len(s) /\ m = Len(t)
  BY <1>1, LengthIs
<1>3. /\ n + 2 <= Len(name) /\ \A l \in 1..n : s[l] = name[l]
      /\ name[n + 1] = ":" /\ name[n + 2] = ":"
      /\ m + 2 <= Len(name) /\ \A l \in 1..m : t[l] = name[l]
  BY <1>1, <1>2, GoesOnIs
<1>4. n <= m /\ \A l \in 1..n : s[l] = t[l]
  BY <1>1, <1>2, <1>3
<1>5. IsPrefix(s, t)
  BY <1>1, <1>2, <1>4, PrefixIs
<1>6. j <= k /\ ~IsPrefix(s \o Colons, t)
  BY <1>1, <1>5 DEF NamesApart, Colons
<1>7. CASE m = n
  <2>1. s = t
    <3>1. Len(s) = Len(t) /\ \A l \in 1..Len(s) : s[l] = t[l]
      BY ONLY <1>2, <1>4, <1>7
    <3> QED BY ONLY <1>1, <3>1, SameString
  <2>2. k <= j
    BY <1>1, <1>5, <2>1 DEF NamesApart
  <2> QED BY <1>6, <2>2, SuiteIs
<1>8. CASE m = n + 1
  <2>1. t[m] = ":" /\ t # <<>>
    <3>1. m \in 1..m /\ m = n + 1
      BY <1>2, <1>8
    <3>2. t[m] = name[m] /\ name[m] = ":"
      BY ONLY <1>3, <3>1
    <3>3. Len(t) # 0
      BY <1>2, <1>8
    <3> QED BY <3>2, <3>3
  <2>2. Last(t) = ":"
    BY <1>2, <2>1 DEF Last
  <2> QED BY <1>1, <2>1, <2>2 DEF NamesApart
<1>9. CASE n + 2 <= m
  <2>1. t[n + 1] = ":" /\ t[n + 2] = ":"
    BY <1>2, <1>3, <1>9
  <2> QED BY <1>1, <1>2, <1>4, <1>6, <1>9, <2>1, GoesOnIs
<1> QED BY <1>2, <1>4, <1>7, <1>8, <1>9

\* An argument that goes on from the name of a suite is the beginning of none.
LEMMA GoesOnFromOne ==
  ASSUME NamesApart, NEW name \in String, NEW j \in Index, NEW k \in Index,
         IsPrefix(Suites[j].name \o Colons, name), IsPrefix(name, Suites[k].name)
  PROVE  FALSE
<1>1. PICK s, t : s = Suites[j].name /\ t = Suites[k].name /\ s \in String /\ t \in String
  BY SuiteIs
<1>2. PICK n \in Nat, m \in Nat, l \in Nat : n = Len(s) /\ m = Len(t) /\ l = Len(name)
  BY <1>1, LengthIs
<1>3. /\ n + 2 <= l /\ \A k1 \in 1..n : s[k1] = name[k1]
      /\ name[n + 1] = ":" /\ name[n + 2] = ":"
      /\ l <= m /\ \A k1 \in 1..l : name[k1] = t[k1]
  BY <1>1, <1>2, GoesOnIs, PrefixIs
<1>4. /\ n + 2 <= m /\ \A k1 \in 1..n : s[k1] = t[k1]
      /\ t[n + 1] = ":" /\ t[n + 2] = ":"
  BY ONLY <1>3, n \in Nat, m \in Nat, l \in Nat
<1>5. IsPrefix(s \o Colons, t) /\ IsPrefix(s, t)
  <2>1. IsPrefix(s, t)
    BY ONLY <1>1, <1>2, <1>4, n + 2 <= m => n <= m, PrefixIs
  <2>2. IsPrefix(s \o Colons, t)
    BY ONLY <1>1, <1>2, <1>4, GoesOnIs
  <2> QED BY <2>1, <2>2
<1> QED BY <1>1, <1>5 DEF NamesApart, Colons

LEMMA ExactIs ==
  ASSUME NEW name \in String, NEW j \in Index
  PROVE  /\ name = Suites[j].name => IsPrefix(name, Suites[j].name)
         /\ IsPrefix(name, Suites[j].name) =>
              (Exact(name, j) <=> name = Suites[j].name)
<1>1. PICK s \in String : s = Suites[j].name
  BY SuiteIs
<1>2. Len(s) \in Nat /\ Len(name) \in Nat
  BY LengthIs
<1>3. IsPrefix(s, s)
  BY <1>2, PrefixIs
<1>4. ASSUME IsPrefix(name, s), Len(name) >= Len(s) PROVE name = s
  <2>1. Len(name) = Len(s) /\ \A k \in 1..Len(name) : name[k] = s[k]
    BY <1>2, <1>4, PrefixIs
  <2> QED BY <2>1, SameString
<1>5. name = s => Len(name) >= Len(s)
  BY <1>2
<1> QED BY <1>1, <1>3, <1>4, <1>5 DEF Exact

\* Where the names are apart, the loop finds exactly the suites that are meant.
LEMMA FoundIsMeant ==
  ASSUME NamesApart, NEW name \in String, NEW j \in Index
  PROVE  j \in Found(name) <=> Means(name, j)
<1> DEFINE Begins(k)   == IsPrefix(name, Suites[k].name)
           Follows(k)  == IsPrefix(Suites[k].name \o Colons, name)
           Is(k)       == name = Suites[k].name
           Precise(k)  == Exact(name, k)
<1>1. j \in Found(name) <=>
        Hit(name, j) /\ \A k \in Index : Hit(name, k) /\ Precise(k) => j <= k
  BY DEF Found
<1>2. \A k \in Index : Hit(name, k) <=> Begins(k) \/ Follows(k)
  BY HitIs
<1>3. Means(name, j) <=> Is(j) \/ Follows(j) \/ (Begins(j) /\ \A k \in Index : ~Is(k))
  BY DEF Means, Colons
<1>4. \A k \in Index : (Is(k) => Begins(k)) /\ (Begins(k) => (Precise(k) <=> Is(k)))
  BY ExactIs
<1>5. \A k, l \in Index : ~(Follows(k) /\ Begins(l))
  BY GoesOnFromOne
<1>6. \A k, l \in Index : Follows(k) /\ Follows(l) => k = l
  <2> SUFFICES ASSUME NEW k \in Index, NEW l \in Index, Follows(k), Follows(l) PROVE k = l
    OBVIOUS
  <2>1. Len(Suites[k].name) \in Nat /\ Len(Suites[l].name) \in Nat
    BY SuiteIs, LengthIs
  <2>2. Len(Suites[k].name) <= Len(Suites[l].name) \/ Len(Suites[l].name) <= Len(Suites[k].name)
    BY ONLY <2>1
  <2> QED BY <2>2, OneGoesOn
<1>7. \A k, l \in Index : Is(k) /\ Begins(l) => k <= l
  BY DEF NamesApart
<1>8. \A k \in Index : k \in Nat
  BY SuiteIs
<1> HIDE DEF Begins, Follows, Is, Precise
<1>9. CASE \E k \in Index : Is(k)
  <2>1. PICK k \in Index : Is(k)
    BY <1>9
  <2>2. Begins(k) /\ Precise(k) /\ \A l \in Index : ~Follows(l)
    BY <1>4, <1>5, <2>1
  <2>3. j \in Found(name) => Is(j)
    <3>1. j \in Found(name) => Begins(j) /\ j <= k /\ k <= j
      BY <1>1, <1>2, <1>7, <2>1, <2>2
    <3>2. j \in Nat /\ k \in Nat /\ j <= k /\ k <= j => j = k
      OBVIOUS
    <3> QED BY <1>8, <2>1, <3>1, <3>2
  <2>4. Is(j) => j \in Found(name)
    BY <1>1, <1>2, <1>4, <1>7, <2>2
  <2> QED BY <1>3, <2>1, <2>2, <2>3, <2>4
<1>10. CASE \A k \in Index : ~Is(k)
  <2>1. Means(name, j) <=> Hit(name, j)
    BY <1>2, <1>3, <1>10
  <2>2. ASSUME Hit(name, j), NEW k \in Index, Hit(name, k), Precise(k) PROVE j <= k
    <3>1. Follows(k) /\ Follows(j)
      BY <1>2, <1>4, <1>5, <1>10, <2>2
    <3>2. j = k /\ j \in Nat
      BY <1>6, <1>8, <3>1
    <3> QED BY <3>2
  <2> QED BY <1>1, <2>1, <2>2
<1> QED BY <1>9, <1>10
--------------------------------------------------------------------------------
(* Which tests of a suite a filter keeps *)

\* A string without its first n characters.
Drops(r, s, n) ==
  /\ r \in String /\ Len(r) = Len(s) - n
  /\ \A k \in 1..(Len(s) - n) : r[k] = s[n + k]

LEMMA RestOf ==
  ASSUME NEW s \in String, NEW n \in Nat, n <= Len(s) PROVE Drops(Rest(s, n), s, n)
<1>1. PICK l \in Nat : l = Len(s)
  BY LengthIs
<1>2. s \in Seq(Characters) /\ n <= l
  BY <1>1, LengthIs
<1>3. PICK r : r = SubSeq(s, n + 1, l)
  OBVIOUS
<1>4. r \in Seq(Characters) /\ Len(r) = l - n /\ \A k \in 1..(l - n) : r[k] = s[n + k]
  BY <1>1, <1>2, <1>3
<1> QED BY <1>1, <1>3, <1>4 DEF Drops, Rest, String

LEMMA JoinedIs ==
  ASSUME NEW t \in Seq(Characters), NEW u \in Seq(Characters)
  PROVE  t \o u \in Seq(Characters) /\ Continues(t \o u, t, u)
<1>1. /\ t \o u \in Seq(Characters) /\ Len(t) \in Nat /\ Len(u) \in Nat
      /\ Len(t \o u) = Len(t) + Len(u)
      /\ \A k \in 1..Len(t) : (t \o u)[k] = t[k]
      /\ \A k \in 1..Len(u) : (t \o u)[Len(t) + k] = u[k]
  OBVIOUS
<1> QED BY <1>1 DEF Continues

\* A string without its last character.
Fronts(r, s) ==
  /\ r \in String /\ Len(r) = Len(s) - 1 /\ Len(s) > 0
  /\ \A k \in 1..(Len(s) - 1) : r[k] = s[k]

LEMMA FrontIs ==
  ASSUME NEW s \in String, s # <<>> PROVE Fronts(Front(s), s)
<1>1. PICK l \in Nat : l = Len(s)
  BY LengthIs
<1>2. s \in Seq(Characters) /\ l > 0
  BY <1>1, LengthIs
<1>3. PICK r : r = SubSeq(s, 1, l - 1)
  OBVIOUS
<1>4. r \in Seq(Characters) /\ Len(r) = l - 1 /\ \A k \in 1..(l - 1) : r[k] = s[k]
  BY <1>1, <1>2, <1>3
<1> QED BY <1>1, <1>2, <1>3, <1>4 DEF Fronts, Front, String

\* The whole name of a test.
FullIs(full, s, test) ==
  /\ full \in String /\ Len(full) = Len(s) + 2 + Len(test)
  /\ \A k \in 1..Len(s) : full[k] = s[k]
  /\ full[Len(s) + 1] = ":" /\ full[Len(s) + 2] = ":"
  /\ \A k \in 1..Len(test) : full[Len(s) + 2 + k] = test[k]

LEMMA FullNames ==
  ASSUME NEW s \in String, NEW test \in String
  PROVE  FullIs(s \o Colons \o test, s, test)
<1>1. PICK n \in Nat, c \in Nat : n = Len(s) /\ c = Len(test)
  BY LengthIs
<1>2. PICK u : u = s \o Colons
  OBVIOUS
<1>3. /\ u \in Seq(Characters) /\ Len(u) = n + 2 /\ \A k \in 1..n : u[k] = s[k]
      /\ \A k \in 1..2 : u[n + k] = Colons[k]
  <2>1. s \in Seq(Characters) /\ Colons \in Seq(Characters) /\ Len(Colons) = 2
    BY ColonsAre, LengthIs
  <2>2. u \in Seq(Characters) /\ Continues(u, s, Colons)
    BY <1>2, <2>1, JoinedIs
  <2> QED BY ONLY <1>1, <2>1, <2>2 DEF Continues
<1>4. u[n + 1] = ":" /\ u[n + 2] = ":"
  BY <1>3, ColonsAre
<1>5. PICK f : f = u \o test
  OBVIOUS
<1>6. /\ f \in Seq(Characters) /\ Len(f) = n + 2 + c
      /\ \A k \in 1..(n + 2) : f[k] = u[k]
      /\ \A k \in 1..c : f[n + 2 + k] = test[k]
  <2>1. test \in Seq(Characters)
    BY LengthIs
  <2>2. f \in Seq(Characters) /\ Continues(f, u, test)
    BY <1>3, <1>5, <2>1, JoinedIs
  <2> QED BY ONLY <1>1, <1>3, <2>2 DEF Continues
<1>7. (\A k \in 1..n : f[k] = s[k]) /\ f[n + 1] = ":" /\ f[n + 2] = ":"
  BY ONLY <1>3, <1>4, <1>6, n \in Nat
<1> QED BY <1>1, <1>2, <1>5, <1>6, <1>7 DEF FullIs, String

Three == <<":", ":", ":">>

\* Two colons and no third are what is cut off.
LEMMA FilterIs ==
  ASSUME NEW name \in String, NEW j \in Index,
         IsPrefix(Suites[j].name \o Colons, name), ~IsPrefix(Suites[j].name \o Three, name)
  PROVE  TestFilter(j, name) = Rest(name, Len(Suites[j].name) + 2)
<1>1. PICK s \in String : s = Suites[j].name
  BY SuiteIs
<1>2. PICK n \in Nat, l \in Nat : n = Len(s) /\ l = Len(name)
  BY LengthIs
<1>3. /\ n + 2 <= l /\ \A k \in 1..n : s[k] = name[k]
      /\ name[n + 1] = ":" /\ name[n + 2] = ":"
  BY <1>1, <1>2, GoesOnIs
<1>4. PICK tail : tail = Rest(name, n)
  OBVIOUS
<1>5. /\ tail \in String /\ Len(tail) = l - n /\ \A k \in 1..(l - n) : tail[k] = name[n + k]
  <2>1. Drops(tail, name, n)
    BY <1>2, <1>3, <1>4, RestOf
  <2> QED BY ONLY <1>2, <2>1 DEF Drops
<1> DEFINE colons == {q \in 0..(l - n) : \A m \in 1..q : tail[m] = ":"}
<1>6. 2 \in colons
  <2>1. 1 \in 1..(l - n) /\ 2 \in 1..(l - n) /\ 2 \in 0..(l - n)
    BY <1>3
  <2>2. tail[1] = ":" /\ tail[2] = ":"
    BY <1>3, <1>5, <2>1
  <2>3. \A m \in 1..2 : m = 1 \/ m = 2
    OBVIOUS
  <2> QED BY <2>1, <2>2, <2>3
<1>7. \A q \in colons : q <= 2
  <2> SUFFICES ASSUME NEW q \in colons, q > 2 PROVE FALSE
    OBVIOUS
  <2>1. 3 \in 1..q /\ 3 \in 1..(l - n) /\ n + 3 <= l
    BY <1>3
  <2>2. name[n + 3] = ":"
    BY <1>5, <2>1
  <2>3. PICK u : u = s \o Three
    OBVIOUS
  <2>4. /\ u \in String /\ Len(u) = n + 3 /\ \A k \in 1..n : u[k] = s[k]
        /\ u[n + 1] = ":" /\ u[n + 2] = ":" /\ u[n + 3] = ":"
    <3>1. s \in Seq(Characters) /\ Three \in Seq(Characters) /\ Len(Three) = 3
          /\ Three[1] = ":" /\ Three[2] = ":" /\ Three[3] = ":"
      BY ArgsAssumption, LengthIs DEF Three
    <3>2. /\ u \in Seq(Characters) /\ Len(u) = n + 3 /\ \A k \in 1..n : u[k] = s[k]
          /\ \A k \in 1..3 : u[n + k] = Three[k]
      <4>1. u \in Seq(Characters) /\ Continues(u, s, Three)
        BY <2>3, <3>1, JoinedIs
      <4> QED BY ONLY <1>2, <3>1, <4>1 DEF Continues
    <3>3. 1 \in 1..3 /\ 2 \in 1..3 /\ 3 \in 1..3
      OBVIOUS
    <3> QED BY <3>1, <3>2, <3>3 DEF String
  <2>5. \A k \in 1..(n + 3) : k \in 1..n \/ k = n + 1 \/ k = n + 2 \/ k = n + 3
    OBVIOUS
  <2>6. \A k \in 1..Len(u) : u[k] = name[k]
    BY <1>3, <2>2, <2>4, <2>5
  <2>7. IsPrefix(u, name)
    BY <1>2, <2>1, <2>4, <2>6, PrefixIs
  <2> QED BY <1>1, <2>3, <2>7
<1>8. Max(colons) = 2
  <2>1. colons \in SUBSET (0..(l - n)) /\ colons # {} /\ l - n \in Nat
    BY <1>3, <1>6
  <2>2. Max(colons) \in colons /\ \A q \in colons : q <= Max(colons)
    BY <2>1, MaxIs
  <2>3. Max(colons) \in 0..(l - n) /\ Max(colons) <= 2 /\ 2 <= Max(colons)
    BY <1>6, <1>7, <2>1, <2>2
  <2> QED BY <2>3
<1>9. TestFilter(j, name) = Rest(tail, 2)
  BY <1>1, <1>2, <1>4, <1>5, <1>8 DEF TestFilter
<1>10. Rest(tail, 2) = Rest(name, n + 2)
  <2>1. PICK a, b : a = Rest(tail, 2) /\ b = Rest(name, n + 2)
    OBVIOUS
  <2>2. 2 <= Len(tail) /\ n + 2 \in Nat /\ n + 2 <= Len(name)
    BY <1>2, <1>3, <1>5
  <2>3. /\ a \in String /\ Len(a) = (l - n) - 2 /\ \A k \in 1..((l - n) - 2) : a[k] = tail[2 + k]
        /\ b \in String /\ Len(b) = l - (n + 2) /\ \A k \in 1..(l - (n + 2)) : b[k] = name[(n + 2) + k]
    <3>1. Drops(a, tail, 2) /\ Drops(b, name, n + 2)
      BY <1>5, <2>1, <2>2, RestOf
    <3> QED BY ONLY <1>2, <1>5, <3>1 DEF Drops
  <2>4. \A k \in 1..((l - n) - 2) : 2 + k \in 1..(l - n) /\ n + (2 + k) = (n + 2) + k
                                   /\ k \in 1..(l - (n + 2))
    BY <1>3
  <2>5. \A k \in 1..((l - n) - 2) : a[k] = b[k]
    BY <1>5, <2>3, <2>4
  <2>6. (l - n) - 2 = l - (n + 2)
    OBVIOUS
  <2>7. Len(a) = Len(b) /\ \A k \in 1..Len(a) : a[k] = b[k]
    BY ONLY <2>3, <2>5, <2>6
  <2> QED BY ONLY <2>1, <2>3, <2>7, SameString
<1> QED BY <1>1, <1>2, <1>9, <1>10

\* A filter that is no longer than the name of the suite keeps all its tests, and
\* that is what it asks for.
LEMMA ShortKeeps ==
  ASSUME NamesApart, NEW name \in String, NEW j \in Index, NEW test \in String,
         IsPrefix(name, Suites[j].name), Means(name, j)
  PROVE  Keeps(j, name, test) /\ MeansTest(name, j, test)
<1>1. PICK s \in String : s = Suites[j].name
  BY SuiteIs
<1>2. PICK n \in Nat, l \in Nat : n = Len(s) /\ l = Len(name)
  BY LengthIs
<1>3. l <= n /\ \A k \in 1..l : name[k] = s[k]
  BY <1>1, <1>2, PrefixIs
<1>4. Keeps(j, name, test)
  BY <1>1, <1>2, <1>3 DEF Keeps
<1>5. ~(name # <<>> /\ Last(name) = "$")
  <2> SUFFICES ASSUME name # <<>> PROVE name[l] # "$"
    BY <1>2 DEF Last
  <2>1. l # 0
    BY <1>2, LengthIs
  <2>2. l \in 1..l /\ l \in 1..n
    BY <1>3, <2>1
  <2>3. s[l] # "$" /\ name[l] = s[l]
    BY <1>1, <1>2, <1>3, <2>2, LengthIs DEF NamesApart
  <2> QED BY <2>3
<1>6. PICK f : f = s \o Colons \o test /\ FullIs(f, s, test)
  BY FullNames
<1>7. IsPrefix(name, f)
  <2>1. PICK c \in Nat : c = Len(test)
    BY LengthIs
  <2>2. f \in String /\ Len(f) = n + 2 + c /\ \A k \in 1..n : f[k] = s[k]
    BY <1>2, <1>6, <2>1 DEF FullIs
  <2>3. l <= n + 2 + c /\ \A k \in 1..l : name[k] = f[k]
    BY ONLY <1>3, <2>2, n \in Nat, l \in Nat, c \in Nat
  <2> QED BY <1>2, <2>2, <2>3, PrefixIs
<1> QED BY <1>1, <1>4, <1>5, <1>6, <1>7 DEF MeansTest, Colons

\* A filter that goes on from the name of the suite keeps the tests it asks for.
LEMMA LongKeeps ==
  ASSUME NEW name \in String, NEW j \in Index, NEW test \in String, Means(name, j),
         IsPrefix(Suites[j].name \o Colons, name), ~IsPrefix(Suites[j].name \o Three, name)
  PROVE  Keeps(j, name, test) <=> MeansTest(name, j, test)
<1>1. PICK s \in String : s = Suites[j].name
  BY SuiteIs
<1>2. PICK n \in Nat, l \in Nat, c \in Nat : n = Len(s) /\ l = Len(name) /\ c = Len(test)
  BY LengthIs
<1>3. /\ n + 2 <= l /\ \A k \in 1..n : s[k] = name[k]
      /\ name[n + 1] = ":" /\ name[n + 2] = ":"
  BY <1>1, <1>2, GoesOnIs
<1>4. PICK x, b : x = Rest(name, n + 2) /\ b = l - (n + 2)
  OBVIOUS
<1>5. b \in Nat /\ x \in String /\ Len(x) = b /\ \A k \in 1..b : x[k] = name[(n + 2) + k]
  <2>1. n + 2 \in Nat /\ n + 2 <= Len(name) /\ b \in Nat
    BY <1>2, <1>3, <1>4
  <2>2. Drops(x, name, n + 2)
    BY <1>4, <2>1, RestOf
  <2> QED BY ONLY <1>2, <1>4, <2>1, <2>2 DEF Drops
<1>6. TestFilter(j, name) = x
  BY <1>1, <1>2, <1>4, FilterIs
<1>7. PICK f : f = s \o Colons \o test /\ FullIs(f, s, test)
  BY FullNames
<1>8. /\ f \in String /\ Len(f) = n + 2 + c /\ \A k \in 1..n : f[k] = s[k]
      /\ f[n + 1] = ":" /\ f[n + 2] = ":" /\ \A k \in 1..c : f[n + 2 + k] = test[k]
  BY <1>2, <1>7 DEF FullIs
<1>9. l = (n + 2) + b /\ b \in Nat
  BY <1>4, <1>5
<1> DEFINE exact == x # <<>> /\ Last(x) = "$"
<1>10. exact <=> name # <<>> /\ Last(name) = "$"
  <2>1. name # <<>>
    <3>1. l # 0
      BY <1>3
    <3> QED BY <1>2, <3>1
  <2>2. Last(name) = name[l]
    BY <1>2 DEF Last
  <2>3. CASE x = <<>>
    <3>1. b = 0 /\ l = n + 2
      BY <1>5, <1>9, <2>3
    <3> QED BY <1>3, <2>2, <2>3, <3>1
  <2>4. CASE x # <<>>
    <3>1. b # 0
      BY <1>5, <2>4, LengthIs
    <3>2. b \in 1..b
      BY <1>9, <3>1
    <3>3. Last(x) = x[b] /\ x[b] = name[l]
      BY <1>5, <1>9, <3>2 DEF Last
    <3> QED BY <2>1, <2>2, <2>4, <3>3
  <2> QED BY <2>3, <2>4
\* A place in the name is in the part they share, or in what is left.
<1>11. \A k \in 1..l : k \in 1..n \/ k = n + 1 \/ k = n + 2 \/ (k - (n + 2)) \in 1..b
  BY <1>9
<1>12. IsPrefix(x, test) <=> IsPrefix(name, f)
  <2>1. IsPrefix(x, test) <=> b <= c /\ \A k \in 1..b : x[k] = test[k]
    <3>1. IsPrefix(x, test) <=> Len(x) <= Len(test) /\ \A k \in 1..Len(x) : x[k] = test[k]
      BY <1>5, PrefixIs
    <3> QED BY ONLY <1>2, <1>5, <3>1
  <2>2. IsPrefix(name, f) <=> l <= n + 2 + c /\ \A k \in 1..l : name[k] = f[k]
    <3>1. IsPrefix(name, f) <=> Len(name) <= Len(f) /\ \A k \in 1..Len(name) : name[k] = f[k]
      BY <1>8, PrefixIs
    <3> QED BY ONLY <1>2, <1>8, <3>1
  <2>3. l <= n + 2 + c <=> b <= c
    BY <1>9
  <2>4. ASSUME b <= c, \A k \in 1..b : x[k] = test[k], NEW k \in 1..l PROVE name[k] = f[k]
    <3>1. CASE (k - (n + 2)) \in 1..b
      <4>1. PICK m \in 1..b : m = k - (n + 2) /\ (n + 2) + m = k /\ m \in 1..c
        BY <1>9, <2>4, <3>1
      <4>2. x[m] = name[k] /\ x[m] = test[m] /\ f[k] = test[m]
        BY <1>5, <1>8, <2>4, <4>1
      <4> QED BY <4>2
    <3> QED BY <1>3, <1>8, <1>11, <3>1
  <2>5. ASSUME b <= c, \A k \in 1..l : name[k] = f[k], NEW k \in 1..b PROVE x[k] = test[k]
    <3>1. (n + 2) + k \in 1..l /\ k \in 1..c
      BY <1>9, <2>5
    <3>2. x[k] = name[(n + 2) + k] /\ f[(n + 2) + k] = test[k]
      BY <1>5, <1>8, <3>1
    <3> QED BY <2>5, <3>1, <3>2
  <2> QED BY <2>1, <2>2, <2>3, <2>4, <2>5
<1>13. ASSUME x # <<>> PROVE test = Front(x) <=> f = Front(name)
  <2>1. PICK u, v : u = Front(x) /\ v = Front(name)
    OBVIOUS
  <2>2. /\ u \in String /\ Len(u) = b - 1 /\ b > 0 /\ \A k \in 1..(b - 1) : u[k] = x[k]
        /\ v \in String /\ Len(v) = l - 1 /\ \A k \in 1..(l - 1) : v[k] = name[k]
    <3>1. l # 0 /\ name # <<>>
      <4>1. l # 0
        BY <1>3
      <4> QED BY <1>2, <4>1
    <3>2. Fronts(u, x) /\ Fronts(v, name)
      BY <1>5, <1>13, <2>1, <3>1, FrontIs
    <3> QED BY ONLY <1>2, <1>5, <3>2 DEF Fronts
  <2>3. ASSUME test = u PROVE f = v
    <3>1. c = b - 1
      BY <1>2, <2>2, <2>3
    <3>2. Len(f) = l - 1
      BY ONLY <1>8, <1>9, <3>1, n \in Nat, c \in Nat
    <3>3. ASSUME NEW k \in 1..(l - 1) PROVE f[k] = v[k]
      <4>1. k \in 1..l /\ v[k] = name[k]
        BY <2>2
      <4>2. CASE (k - (n + 2)) \in 1..b
        <5>1. PICK m \in 1..b : m = k - (n + 2) /\ (n + 2) + m = k /\ m \in 1..c
          BY <1>9, <3>1, <4>2
        <5>2. x[m] = name[k] /\ f[k] = test[m] /\ test[m] = x[m]
          BY <1>5, <1>8, <2>2, <2>3, <3>1, <5>1
        <5> QED BY <4>1, <5>2
      <4> QED BY <1>3, <1>8, <1>11, <4>1, <4>2
    <3> QED BY <1>8, <2>1, <2>2, <3>2, <3>3, SameString
  <2>4. ASSUME f = v PROVE test = u
    <3>1. c = b - 1
      <4>1. n + 2 + c = l - 1
        BY <1>8, <2>2, <2>4
      <4> QED BY <1>9, <4>1
    <3>2. ASSUME NEW k \in 1..c PROVE test[k] = u[k]
      <4>1. k \in 1..b /\ k \in 1..(b - 1) /\ (n + 2) + k \in 1..(l - 1)
        BY <1>9, <3>1
      <4>2. u[k] = x[k] /\ x[k] = name[(n + 2) + k] /\ v[(n + 2) + k] = name[(n + 2) + k]
        BY <1>5, <2>2, <4>1
      <4>3. f[(n + 2) + k] = test[k]
        BY <1>8
      <4> QED BY <2>4, <4>2, <4>3
    <3> QED BY <1>2, <2>2, <3>1, <3>2, SameString
  <2> QED BY <2>1, <2>3, <2>4
<1>14. Keeps(j, name, test) <=> IF exact THEN test = Front(x) ELSE IsPrefix(x, test)
  <2>1. ~(Len(name) <= Len(Suites[j].name))
    BY <1>1, <1>2, <1>3
  <2> QED BY <1>6, <2>1 DEF Keeps
<1>15. MeansTest(name, j, test) <=> IF name # <<>> /\ Last(name) = "$" THEN f = Front(name)
                                    ELSE IsPrefix(name, f)
  BY <1>1, <1>7 DEF MeansTest, Colons
<1> QED BY <1>10, <1>12, <1>13, <1>14, <1>15

\* A filter keeps the tests that its name means.
LEMMA KeepsIs ==
  ASSUME NamesApart, NEW name \in String, NEW j \in Index, NEW test \in String,
         Means(name, j), ~IsPrefix(Suites[j].name \o Three, name)
  PROVE  Keeps(j, name, test) <=> MeansTest(name, j, test)
<1>1. CASE IsPrefix(Suites[j].name \o Colons, name)
  BY <1>1, LongKeeps
<1>2. CASE IsPrefix(name, Suites[j].name)
  BY <1>2, ShortKeeps
<1>3. name = Suites[j].name => IsPrefix(name, Suites[j].name)
  BY ExactIs
<1> QED BY <1>1, <1>2, <1>3 DEF Means, Colons
--------------------------------------------------------------------------------
(* The selection *)

\* A suite is enabled where the last option about it says so.
LEMMA EnabledIsOn ==
  ASSUME NamesApart, ArgsInvariant, pc = "run", NEW j \in Index
  PROVE  j \in enabled <=> On(j)
<1>1. TypeOK /\ EnabledInv(Len(asked))
  BY DEF ArgsInvariant, RunInv
<1>2. \A n \in 1..Len(asked) : j \in Found(asked[n].name) <=> Means(asked[n].name, j)
  BY <1>1, AskedAre, OptionIs, FoundIsMeant
<1>3. Finding(j, Len(asked)) = {n \in DOMAIN asked :
                                  asked[n].letter \in NameLetters /\ Means(asked[n].name, j)}
  BY <1>1, <1>2, AskedAre DEF Finding
<1> QED BY <1>1, <1>3 DEF EnabledInv, On

\* What the list of -s holds.
LEMMA ExplicitIs ==
  ASSUME NamesApart, ArgsInvariant, pc = "run"
  PROVE  /\ \A k \in DOMAIN explicit : \E n \in Selecting :
              explicit[k].filter = asked[n].name /\ Means(asked[n].name, explicit[k].suite)
         /\ \A n \in Selecting, j \in Index : Means(asked[n].name, j) =>
              \E k \in DOMAIN explicit : explicit[k] = [suite |-> j, filter |-> asked[n].name]
         /\ explicit # <<>> <=> Selecting # {}
         /\ explicit \in Seq([suite: Index, filter: String])
<1>1. /\ TypeOK /\ ExplicitInv(Len(asked)) /\ Passed(Len(asked))
      /\ explicit \in Seq([suite: Index, filter: String])
  BY DEF ArgsInvariant, RunInv, TypeOK
<1>2. /\ \A n \in 1..Len(asked) : n \in Selecting <=> asked[n].letter = "s"
      /\ Selecting \subseteq 1..Len(asked)
  BY <1>1, AskedAre DEF Selecting
<1>3. \A n \in 1..Len(asked), j \in Index : j \in Found(asked[n].name) <=> Means(asked[n].name, j)
  BY <1>1, AskedAre, OptionIs, FoundIsMeant
<1>4. ASSUME NEW k \in DOMAIN explicit
      PROVE  \E n \in Selecting : /\ explicit[k].filter = asked[n].name
                                  /\ Means(asked[n].name, explicit[k].suite)
  <2>1. PICK n \in 1..Len(asked) :
          /\ asked[n].letter = "s" /\ explicit[k].filter = asked[n].name
          /\ explicit[k].suite \in Found(asked[n].name)
    BY <1>1 DEF ExplicitInv
  <2>2. explicit[k].suite \in Index
    BY <2>1, FoundAreSuites
  <2> QED BY <1>2, <1>3, <2>1, <2>2
<1>5. ASSUME NEW n \in Selecting, NEW j \in Index, Means(asked[n].name, j)
      PROVE  \E k \in DOMAIN explicit : explicit[k] = [suite |-> j, filter |-> asked[n].name]
  BY <1>1, <1>2, <1>3, <1>5 DEF ExplicitInv
<1>6. explicit # <<>> => DOMAIN explicit # {}
  <2>1. PICK e : e = explicit /\ e \in Seq([suite: Index, filter: String])
    BY <1>1
  <2>2. DOMAIN e = 1..Len(e) /\ Len(e) \in Nat /\ (e # <<>> => Len(e) # 0)
    BY <2>1
  <2>3. Len(e) # 0 => 1 \in DOMAIN e
    BY <2>2
  <2> QED BY <2>1, <2>2, <2>3
<1>7. ASSUME NEW n \in Selecting PROVE \E j \in Index : Means(asked[n].name, j)
  <2>1. ~Ends(asked[n]) /\ asked[n].letter \in NameLetters
    BY <1>1, <1>2 DEF Passed, NameLetters
  <2> QED BY <2>1 DEF Ends
<1>8. DOMAIN explicit # {} => explicit # <<>>
  OBVIOUS
<1>9. explicit # <<>> <=> Selecting # {}
  BY <1>4, <1>5, <1>6, <1>7, <1>8
<1> QED BY <1>1, <1>4, <1>5, <1>9

\* The tests that a filter keeps, in names.
LEMMA KeptIs ==
  ASSUME NamesApart, TypeOK, NEW n \in DOMAIN asked, NEW j \in Index, Means(asked[n].name, j),
         NEW m \in DOMAIN Suites[j].tests
  PROVE  (\E k \in DOMAIN Kept(j, asked[n].name) : Kept(j, asked[n].name)[k] = Suites[j].tests[m])
           <=> MeansTest(asked[n].name, j, Suites[j].tests[m])
<1> DEFINE tests  == Suites[j].tests
           name   == asked[n].name
           places == {l \in DOMAIN tests : Keeps(j, name, tests[l])}
<1>1. tests \in Seq(String) /\ \A l \in DOMAIN tests : tests[l] \in String
  BY SuiteIs
<1>2. asked[n] \in Options /\ name \in String
  BY AskedAre, OptionIs
<1>3. ~IsPrefix(Suites[j].name \o Three, name)
  BY <1>2 DEF NamesApart, Three
<1>4. \A l \in DOMAIN tests : Keeps(j, name, tests[l]) <=> MeansTest(name, j, tests[l])
  BY <1>1, <1>2, <1>3, KeepsIs
<1>5. PICK t : t = Kept(j, name) /\ Picks(t, String, tests, places)
  BY <1>1, PickedIs DEF Kept
<1>6. /\ \A k \in DOMAIN t : \E l \in places \cap DOMAIN tests : t[k] = tests[l]
      /\ \A l \in places \cap DOMAIN tests : \E k \in DOMAIN t : t[k] = tests[l]
  BY <1>5 DEF Picks
<1>7. ASSUME MeansTest(name, j, tests[m]) PROVE \E k \in DOMAIN t : t[k] = tests[m]
  BY <1>4, <1>6, <1>7
<1>8. ASSUME NEW k \in DOMAIN t, t[k] = tests[m] PROVE MeansTest(name, j, tests[m])
  BY <1>4, <1>6, <1>8
<1> QED BY <1>5, <1>7, <1>8

\* Where suites are selected, the tests that run are those of the list, and otherwise
\* all those of the suites that are enabled.
LEMMA RunsIs ==
  ASSUME TypeOK, NEW j \in Index, NEW m \in DOMAIN Suites[j].tests
  PROVE  Runs(j, Suites[j].tests[m]) <=>
           /\ j \in enabled
           /\ explicit # <<>> => \E n \in DOMAIN explicit :
                LET kept == Kept(j, explicit[n].filter)
                IN explicit[n].suite = j /\ \E k \in DOMAIN kept : kept[k] = Suites[j].tests[m]
<1> DEFINE test == Suites[j].tests[m]
           Called(l, tests) == [suite |-> l, tests |-> IF l \in enabled THEN tests ELSE <<>>]
<1>1. DOMAIN <<>> = {}
  OBVIOUS
<1>2. CASE explicit # <<>>
  <2>1. Schedule = [n \in DOMAIN explicit |->
                      Called(explicit[n].suite, Kept(explicit[n].suite, explicit[n].filter))]
    BY <1>2 DEF Schedule
  <2>2. /\ DOMAIN Schedule = DOMAIN explicit
        /\ \A n \in DOMAIN explicit :
             /\ Schedule[n].suite = explicit[n].suite
             /\ Schedule[n].tests = IF explicit[n].suite \in enabled
                                    THEN Kept(explicit[n].suite, explicit[n].filter) ELSE <<>>
    BY <2>1
  <2> DEFINE Has(tests) == \E k \in DOMAIN tests : tests[k] = test
  <2>3. \A n \in DOMAIN explicit : explicit[n].suite = j =>
          (Has(Schedule[n].tests) <=> j \in enabled /\ Has(Kept(j, explicit[n].filter)))
    BY <1>1, <2>2
  <2>4. Runs(j, test) <=> \E n \in DOMAIN Schedule :
                            Schedule[n].suite = j /\ Has(Schedule[n].tests)
    BY DEF Runs
  <2> HIDE DEF Has
  <2>5. Runs(j, test) <=> /\ j \in enabled
                          /\ \E n \in DOMAIN explicit :
                               explicit[n].suite = j /\ Has(Kept(j, explicit[n].filter))
    BY <2>2, <2>3, <2>4
  <2> QED BY <1>2, <2>5 DEF Has
<1>3. CASE explicit = <<>>
  <2>1. Schedule = [l \in Index |-> Called(l, Suites[l].tests)]
    BY <1>3 DEF Schedule
  <2>2. /\ DOMAIN Schedule = Index
        /\ \A l \in Index :
             /\ Schedule[l].suite = l
             /\ Schedule[l].tests = IF l \in enabled THEN Suites[l].tests ELSE <<>>
    BY <2>1
  <2> QED BY <1>1, <1>3, <2>2 DEF Runs
<1> QED BY <1>2, <1>3

\* The tests that run are those that the options ask for, for every table of suites and
\* every command line whose names are apart: the matching of names while the words are
\* read, the marks of the suites and the filter inside a suite agree (clar_parse_args,
\* clar_run_suite and clar_test_run, clar.c).  Where the names are not apart it is
\* false: the run of MCClarArgs_nested.cfg is a counterexample.
THEOREM SelectionHolds ==
  ASSUME NamesApart PROVE Spec => []SelectionIsObeyed
<1>1. ASSUME ArgsInvariant PROVE SelectionIsObeyed
  <2> SUFFICES ASSUME pc = "run", NEW j \in Index, NEW m \in DOMAIN Suites[j].tests
               PROVE  Runs(j, Suites[j].tests[m]) <=> Wanted(j, Suites[j].tests[m])
    BY DEF SelectionIsObeyed
  <2> DEFINE test == Suites[j].tests[m]
             Lists(n) == /\ explicit[n].suite = j
                         /\ \E k \in DOMAIN Kept(j, explicit[n].filter) :
                              Kept(j, explicit[n].filter)[k] = test
  <2>1. TypeOK
    BY <1>1 DEF ArgsInvariant
  <2>2. Runs(j, test) <=> On(j) /\ (Selecting # {} => \E n \in DOMAIN explicit : Lists(n))
    BY <1>1, <2>1, RunsIs, EnabledIsOn, ExplicitIs
  <2>3. ASSUME NEW n \in DOMAIN explicit, Lists(n)
        PROVE  \E l \in Selecting : MeansTest(asked[l].name, j, test)
    <3>1. PICK l \in Selecting :
            explicit[n].filter = asked[l].name /\ Means(asked[l].name, explicit[n].suite)
      BY <1>1, ExplicitIs
    <3>2. l \in DOMAIN asked /\ Means(asked[l].name, j)
      BY <2>3, <3>1 DEF Selecting
    <3>3. MeansTest(asked[l].name, j, test)
      BY <2>1, <2>3, <3>1, <3>2, KeptIs
    <3> QED BY <3>3
  <2>4. ASSUME NEW l \in Selecting, MeansTest(asked[l].name, j, test)
        PROVE  \E n \in DOMAIN explicit : Lists(n)
    <3>1. l \in DOMAIN asked /\ Means(asked[l].name, j)
      BY <2>4 DEF Selecting, MeansTest
    <3>2. PICK n \in DOMAIN explicit : explicit[n] = [suite |-> j, filter |-> asked[l].name]
      BY <1>1, <3>1, ExplicitIs
    <3>3. explicit[n].suite = j /\ explicit[n].filter = asked[l].name
      BY <3>2
    <3>4. Lists(n)
      BY <2>1, <2>4, <3>1, <3>3, KeptIs
    <3> QED BY <3>4
  <2> HIDE DEF Lists
  <2> QED BY <2>2, <2>3, <2>4 DEF Wanted
<1>2. ArgsInvariant => SelectionIsObeyed
  BY <1>1
<1> QED BY <1>2, ArgsInvariantHolds, PTL
================================================================================
