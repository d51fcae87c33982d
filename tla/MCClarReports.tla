------------------------------ MODULE MCClarReports ------------------------------
(* A small instance of ClarReports for TLC. *)
EXTENDS ClarReportsInv

\* Three calls of clar_run_suite: two of one suite, with the filter of an -s each,
\* and one of another suite.
Suite1 == [initialize |-> FALSE, cleanup |-> TRUE, tests |-> 1]
Suite2 == [initialize |-> FALSE, cleanup |-> FALSE, tests |-> 1]
ThreeEntries == <<Suite1, Suite1, Suite2>>
TwoNames     == <<"a", "a", "b">>
AllOrNone    == {{1, 2, 3}, {}}

TestCalls == {"check", "assert", "skip", "fs_cleanup"}

Numbers0  == {-8, -5, -4, -1, 0, 1, 3, 4, 7, 8, 15}
Strings   == UNION {[1..n -> {1, 2}] : n \in 0..2} \cup {<<1, 1, 2>>, <<1, 1, 1>>, NULL}
SomeVerbosities == {-1, 0, 1, 2}

Lengths   == {0, 1, 2, 3, 4, 7, 8, 9}

AllAssertions ==
  {[Assertion(m, TRUE) EXCEPT !.cmp = cmp, !.i = i, !.j = j] :
     m \in {"compare_i", "compare_u"}, cmp \in Comparisons, i \in Numbers0, j \in Numbers0}
  \cup {[Assertion(m, TRUE) EXCEPT !.i = i, !.j = j] :
          m \in {"equal_i_fmt", "equal_b", "equal_p"}, i \in Numbers0, j \in Numbers0}
  \cup {[Assertion(m, abort) EXCEPT !.i = i] :
          m \in {"true", "pass", "fail"}, abort \in BOOLEAN, i \in Numbers0}
  \cup {[Assertion("equal_s", TRUE) EXCEPT !.s = s, !.t = t] : s \in Strings, t \in Strings}
  \cup {[Assertion("equal_strn", TRUE) EXCEPT !.s = s, !.t = t, !.len = len] :
          s \in Strings, t \in Strings, len \in Lengths}
================================================================================
