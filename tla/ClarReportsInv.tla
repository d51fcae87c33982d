---------------------------- MODULE ClarReportsInv ----------------------------
(***************************************************************************)
(* The inductive invariant of what ClarReports adds to ClarRun: how far    *)
(* the summary has come at each point of clar_summary_shutdown, and what   *)
(* has been printed at each point of the driver.  TLC checks it,           *)
(* ClarOutputProofs proves it.                                             *)
(***************************************************************************)
EXTENDS ClarReports, ClarRunInv

(* The summary *)

InCase  == {"failure", "skipped", "/testcase"}
Writing == InCase \cup {"testsuite", "testcase", "/testsuite", "/testsuites", "fclose",
                        "written"}

\* Where the writer stands in the list of reports.
PlaceInv ==
  /\ writer # "idle" => pc \in {"summary", "exited"}
  /\ writer \in {"idle", "testsuites"} => xml = <<>> /\ report = 1
  /\ writer \in {"testsuite", "testcase"} \cup InCase => report \in DOMAIN reports
  /\ writer = "failure" => error <= Len(reports[report].errors) + 1
  /\ writer = "/testsuite" => report - 1 \in DOMAIN reports
  /\ writer \in {"/testsuites", "fclose", "written"} => report = Len(reports) + 1
  /\ exit = 0 /\ write_summary => writer = "written"

\* The outermost element.
EndsInv ==
  /\ xml # <<>> /\ xml[1].name = "testsuites"
  /\ writer \in {"fclose", "written"} => xml[Len(xml)].name = "/testsuites"

\* The elements of this name are of reports up to one, each at most once and in order.
OnceInOrder(name, upto) ==
  /\ \A k \in DOMAIN xml : xml[k].name = name => xml[k].test \in 1..upto /\ xml[k].error = 0
  /\ \A k, l \in DOMAIN xml : xml[k].name = name /\ xml[l].name = name /\ k < l =>
                               xml[k].test < xml[l].test

OrderInv ==
  /\ OnceInOrder("testcase", IF writer \in InCase THEN report ELSE report - 1)
  /\ OnceInOrder("/testcase", report - 1)

\* From one element to another, all is in a suite of a report's name.
InSuiteFrom(open, n, upto) ==
  /\ xml[open].name = "testsuite" /\ Suite_(xml[open].test) = Suite_(n)
  /\ \A i \in (open + 1)..upto : xml[i].name \notin {"testsuite", "/testsuite"}

\* The case of a report, as far as it has come.
CaseUpto(n, open, first, length) ==
  /\ open < first /\ InSuiteFrom(open, n, first + length)
  /\ xml[first] = Element("testcase", n, 0)
  /\ \A j \in 1..length : xml[first + j] = CaseBody(n)[j]

CompleteCase(n) ==
  \E open, first \in DOMAIN xml :
    LET length == Len(CaseBody(n)) last == first + length + 1
    IN /\ last \in DOMAIN xml
       /\ CaseUpto(n, open, first, length)
       /\ xml[last] = Element("/testcase", n, 0)

CurrentCase ==
  \E open, first \in DOMAIN xml :
    /\ CaseUpto(report, open, first, Len(xml) - first)
    /\ Len(xml) - first = CASE writer = "failure"   -> error - 1
                            [] writer = "skipped"   -> Len(reports[report].errors)
                            [] writer = "/testcase" -> Len(CaseBody(report))

\* The suite that is open, if there is one, has the name of this report.
SuiteIsOpen ==
  \/ writer \in InCase \cup {"testcase", "/testsuite"}
  \/ writer = "testsuite" /\ ~OpensSuite(report)
SuiteOf == IF writer = "/testsuite" THEN report - 1 ELSE report

SuiteInv ==
  SuiteIsOpen => \E open \in DOMAIN xml : InSuiteFrom(open, SuiteOf, Len(xml))

NestingInv ==
  /\ \A k \in DOMAIN xml : OpenBefore(k) \in {0, 1}
  /\ OpenBefore(Len(xml)) = IF SuiteIsOpen THEN 1 ELSE 0

SummaryInv ==
  writer \in Writing /\ ~lost =>
    /\ EndsInv /\ OrderInv /\ SuiteInv /\ NestingInv
    /\ \A n \in 1..(report - 1) : CompleteCase(n)
    /\ writer \in InCase => CurrentCase
--------------------------------------------------------------------------------
(* The output *)

\* No error is forgotten.
CountedInv == total_errors > 0 => \E n \in DOMAIN reports : Failed(n)

\* Every verdict has a line, which is of that verdict; the lines are numbered.
VerdictLinesInv ==
  Tap =>
    /\ Cardinality(TestLines) = tests_ran
    /\ InOrder
    /\ \A k \in TestLines : /\ out[k].test \in DOMAIN printed
                            /\ out[k].kind = Words[printed[out[k].test]]
    /\ \A n \in DOMAIN printed : \E k \in TestLines : out[k].test = n

SomeFailure == \E n \in DOMAIN reports : reports[n].status = "FAILURE"

\* What was said when the run ended; a failure is listed at the end of a run only,
\* be it that of clar_abort or abort_test.
Ended == pc \in {"shutdown", "summary"} \/ (pc = "exited" /\ exit # Killed /\ ~Says("abort"))
EndingInv ==
  /\ pc \notin {"shutdown", "summary", "exited"} => ~Says("failure")
  /\ Ended => IF Tap THEN Planned /\ (Says("not ok") <=> SomeFailure)
                     ELSE Says("failure") <=> SomeFailure

\* Who gives up says so.
AbortInv ==
  /\ pc # "exited" => ~Says("abort")
  /\ pc = "exited" /\ exit # Killed =>
       IF Says("abort") THEN exit # 0 ELSE exit = total_errors % ExitModulus

OutputInv == CountedInv /\ VerdictLinesInv /\ EndingInv /\ AbortInv

ReportsInvariant == PlaceInv /\ SummaryInv /\ OutputInv
================================================================================
