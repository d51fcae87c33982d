------------------------------- MODULE Induction -------------------------------
(***************************************************************************)
(* Induction, said of sets: what holds of 0, and of a number after one it  *)
(* holds of, holds of all; and a function may be defined by recursion.     *)
(***************************************************************************)
EXTENDS Integers, WellFoundedInduction, TLAPS

\* A set of numbers that is not empty has a least element.
LEMMA LeastNumber ==
  ASSUME NEW T \in SUBSET Nat, T # {}
  PROVE  \E n \in T : \A m \in T : n <= m
<1>1. IsWellFoundedOn(OpToRel(<, Nat), Nat)
  BY NatLessThanWellFounded
<1>2. PICK n \in T : \A m \in T : ~(<<m, n>> \in OpToRel(<, Nat))
  BY <1>1, WFMin
<1>3. \A m \in T : ~(m < n)
  BY <1>2 DEF OpToRel
<1>4. \A m \in T : m \in Nat /\ n \in Nat
  OBVIOUS
<1> QED BY <1>3, <1>4

\* The numbers up to N that are not all in a set have a least one outside.
LEMMA Inductive ==
  ASSUME NEW N \in Nat, NEW S, 0 \in S, \A n \in 1..N : n - 1 \in S => n \in S
  PROVE  \A n \in 0..N : n \in S
<1> SUFFICES ASSUME NEW T, T = {n \in 0..N : n \notin S}, T # {}
             PROVE  FALSE
  OBVIOUS
<1>1. T \in SUBSET Nat
  OBVIOUS
<1>2. PICK n \in T : \A m \in T : n <= m
  BY <1>1, LeastNumber
<1>3. n \in 1..N /\ n - 1 \in S
  BY <1>1, <1>2
<1> QED BY <1>3

\* A function on 0..N whose values in V are made one from the other.
Recurses(f, N, V, base, step) ==
  /\ f \in [0..N -> V] /\ f[0] = base
  /\ \A n \in 1..N : f[n] = step[n][f[n - 1]]

\* There is one.
LEMMA Recursion ==
  ASSUME NEW N \in Nat, NEW V, NEW base \in V, NEW step \in [1..N -> [V -> V]]
  PROVE  \E f : Recurses(f, N, V, base, step)
<1> DEFINE Upto(n, f) == /\ f \in [0..n -> V] /\ f[0] = base
                         /\ \A k \in 1..n : f[k] = step[k][f[k - 1]]
           S == {n \in 0..N : \E f : Upto(n, f)}
<1>1. 0 \in S
  <2> DEFINE g == [k \in 0..0 |-> base]
  <2>1. g \in [0..0 -> V] /\ g[0] = base
    OBVIOUS
  <2> HIDE DEF g
  <2>2. Upto(0, g)
    BY <2>1
  <2> QED BY <2>2
<1>2. ASSUME NEW n \in 1..N, n - 1 \in S PROVE n \in S
  <2>1. PICK f : Upto(n - 1, f)
    BY <1>2
  <2> DEFINE g == [k \in 0..n |-> IF k < n THEN f[k] ELSE step[n][f[n - 1]]]
  <2>2. f[n - 1] \in V /\ step[n] \in [V -> V] /\ step[n][f[n - 1]] \in V
    BY <2>1
  <2>3. /\ g \in [0..n -> V] /\ g[0] = base
        /\ \A k \in 0..(n - 1) : g[k] = f[k]
        /\ g[n] = step[n][f[n - 1]]
    BY <2>1, <2>2
  <2> HIDE DEF g
  <2>4. \A k \in 1..n : g[k] = step[k][g[k - 1]]
    BY <2>1, <2>3
  <2>5. Upto(n, g)
    BY <2>3, <2>4
  <2> QED BY <2>5
<1> HIDE DEF S
<1>3. \A n \in 0..N : n \in S
  BY <1>1, <1>2, Inductive
<1> QED BY <1>3 DEF S, Recurses
================================================================================
