------------------------------ MODULE ClarReports ------------------------------
(***************************************************************************)
(* What a run shows: the assertions that fail in a test (ClarAssert), what *)
(* the driver makes of them (ClarRun), what the printers of print.h say in *)
(* either format, and the XML summary that summary.h writes at the end,    *)
(* one write after the other.  Every step of the driver is one of ClarRun; *)
(* this module adds what the step prints.                                  *)
(*                                                                         *)
(* A line is a record of what it says; wording and layout are left out.    *)
(* All that fails in the summary is what "summary" in Faults lets fail.    *)
(***************************************************************************)
EXTENDS ClarRun, ClarAssert, FiniteSets

CONSTANTS
  SuiteNames,    (* The name of the suite of each of Entries.                 *)
  Verbosities,   (* The values -v and -q may give _clar.verbosity.            *)
  Assertions     (* The assertions that are made, in the first test of a run; *)
                 (* elsewhere the tests only call cl_fail and cl_warning.     *)

ASSUME ReportsAssumption ==
  /\ DOMAIN SuiteNames = DOMAIN Entries
  /\ Verbosities \subseteq Int
  /\ Assertions \subseteq AssertionCalls

VARIABLES
  format, verbosity, write_summary,   (* The options.                         *)
  out,          (* The lines that were printed, on stdout and stderr.         *)
  xml,          (* The elements the summary file holds.                       *)
  writer,       (* The point clar_summary_shutdown has reached.               *)
  report, error,(* The numbers of the report and the error it is at.          *)
  lost,         (* A write failed that nothing looks at.                      *)
  asserted      (* The last assertion, while nothing else has happened.       *)

options == <<format, verbosity, write_summary>>
summary == <<xml, writer, report, error, lost>>
reportsVars == <<vars, options, out, summary, asserted>>

Lines == [kind: {"init", "suite", "ok", "not ok", "skip", "plan", "abort", "written"},
          number: Nat, test: Nat, error: Nat]
         \cup [kind: {"failure"}, number: Nat \ {0}, test: Nat \ {0}, error: Nat \ {0}]
\* number is a test's, an error's, or how many; test, and for a failure error, say
\* what the line is about.
Line(kind, number, test, err) ==
  [kind |-> kind, number |-> number, test |-> test, error |-> err]

Elements == {"testsuites", "testsuite", "testcase", "failure", "skipped",
             "/testcase", "/testsuite", "/testsuites"}
XmlElement == [name: Elements, test: Nat, error: Nat]
Element(name, test, err) == [name |-> name, test |-> test, error |-> err]

WriterPoints == {"idle", "testsuites", "testsuite", "testcase", "failure", "skipped",
                 "/testcase", "/testsuite", "/testsuites", "fclose", "written",
                 "on_error", "fclose again", "failed"}

\* No assertion, and one that was made.
NoAssertion == [call |-> Assertion("none", FALSE), failed |-> FALSE, text |-> <<>>]
Made(c)     == [call |-> c, failed |-> ~Holds(c),
                text |-> IF Holds(c) THEN <<>> ELSE Describe(c)]

ReportsTypeOK ==
  /\ TypeOK
  /\ format \in {"clap", "tap"} /\ verbosity \in Verbosities /\ write_summary \in BOOLEAN
  /\ out \in Seq(Lines)
  /\ xml \in Seq(XmlElement)
  /\ writer \in WriterPoints
  /\ report \in Nat \ {0} /\ error \in Nat \ {0}
  /\ lost \in BOOLEAN
  /\ asserted.failed \in BOOLEAN

ReportsInit ==
  /\ Init
  /\ format \in {"clap", "tap"} /\ verbosity \in Verbosities /\ write_summary \in BOOLEAN
  /\ out = <<>> /\ xml = <<>>
  /\ writer = "idle" /\ report = 1 /\ error = 1 /\ lost = FALSE
  /\ asserted = NoAssertion
--------------------------------------------------------------------------------
(* print.h *)

Clap == format = "clap"
Tap  == format = "tap"

Prints(lines) == out' = out \o lines
Silent       == UNCHANGED out

clar_print_clap_init == IF verbosity >= 0 THEN <<Line("init", 0, 0, 0)>> ELSE <<>>
clar_print_tap_init  == <<Line("init", 0, 0, 0)>>
clar_print_init      == IF Tap THEN clar_print_tap_init ELSE clar_print_clap_init

clar_print_clap_onsuite == IF verbosity = 1 THEN <<Line("suite", at, 0, 0)>> ELSE <<>>
clar_print_tap_onsuite  == IF verbosity >= 0 THEN <<Line("suite", at, 0, 0)>> ELSE <<>>
clar_print_onsuite      == IF Tap THEN clar_print_tap_onsuite ELSE clar_print_clap_onsuite

\* What is said of a verdict.
Words == [OK |-> "ok", FAILURE |-> "not ok", SKIP |-> "skip", NOTRUN |-> "skip"]
Word  == Words[reports[Current].status]

\* A letter, or a word.
clar_print_clap_ontest ==
  IF verbosity >= 0 THEN <<Line(Word, 0, Current, 0)>> ELSE <<>>

\* Mutant of clar_print_tap_ontest: the number of the report, counted from zero.
PrintReportNumber(number) == <<Line(Word, Current - 1, Current, 0)>>

\* A failure shows the first error of the last report.
clar_print_tap_ontest(number) ==
  <<Line(Word, number, Current, IF Word = "not ok" /\ verbosity >= 0 THEN 1 ELSE 0)>>

clar_print_ontest(number) ==
  IF Tap THEN clar_print_tap_ontest(number) ELSE clar_print_clap_ontest

\* Mutant of Failures: they are counted from zero.
FailuresFromZero(list, n, from) ==
  [k \in 1..Len(list[n].errors) |-> Line("failure", from + k - 2, n, k)]

\* The errors of one report, numbered on from a number.
Failures(list, n, from) ==
  [k \in 1..Len(list[n].errors) |-> Line("failure", from + k - 1, n, k)]

\* clar_report_errors, in clap: nothing is printed in tap.
clar_report_errors(list) == IF Clap THEN Failures(list, Len(list), 1) ELSE <<>>

\* clar_report_all up to a report: those that failed.
Listed[n \in 0..Len(reports)] ==
  IF n = 0 THEN <<>>
  ELSE IF reports[n].status # "FAILURE" THEN Listed[n - 1]
  ELSE Listed[n - 1] \o Failures(reports, n, Len(Listed[n - 1]) + 1)

clar_print_clap_shutdown == Listed[Len(reports)]
clar_print_tap_shutdown  == <<Line("plan", tests_ran, 0, 0)>>
clar_print_shutdown      == IF Tap THEN clar_print_tap_shutdown ELSE clar_print_clap_shutdown

clar_print_onabort == <<Line("abort", 0, 0, 0)>>

\* What abort_test prints if it ends the process, the error being recorded.
PrintsAbort ==
  IF ~trampoline_enabled
    THEN Prints(clar_print_onabort \o clar_report_errors(reports'))
    ELSE Silent
--------------------------------------------------------------------------------
(* The driver *)

\* Every assertion is made once, as the first one of the first test.
Choices(should_abort) ==
  {c \in (IF Current = 1 /\ calls = 0 /\ pc = "test" /\ asserted = NoAssertion
            THEN Assertions ELSE {})
         \cup {Assertion("failed", should_abort)} :
     c.should_abort = should_abort}

AssertionHolds ==
  /\ pc = "test"
  /\ \E c \in Choices(TRUE) \cup Choices(FALSE) : Holds(c) /\ asserted' = Made(c)
  /\ UNCHANGED <<vars, options, out, summary>>

CheckFails ==
  /\ cl_check
  /\ \E c \in Choices(FALSE) : ~Holds(c) /\ asserted' = Made(c)
  /\ UNCHANGED <<options, out, summary>>

AssertionFails ==
  /\ cl_assert /\ PrintsAbort
  /\ \E c \in Choices(TRUE) : ~Holds(c) /\ asserted' = Made(c)
  /\ UNCHANGED <<options, summary>>

Meanwhile == asserted' = NoAssertion /\ UNCHANGED <<options, summary>>

\* The summary file is opened, and emptied; then the directory is made.
Starts ==
  /\ \/ clar_test_init /\ Prints(clar_print_init)
     \/ /\ clar_test_init_aborts
        /\ write_summary \/ "mkdtemp" \in Faults
        /\ Prints(clar_print_init \o clar_print_onabort)
  /\ Meanwhile

PrintsSuite == BeginSuite /\ Prints(clar_print_onsuite) /\ Meanwhile
PrintsTest  == EndTest /\ Prints(clar_print_ontest(tests_ran + 1)) /\ Meanwhile

Aborts ==
  /\ cl_skip \/ cl_fs_cleanup_asserts \/ CreateSandboxAsserts
     \/ SandboxCleanupAsserts \/ TempdirShutdownAsserts
  /\ PrintsAbort
  /\ Meanwhile

FsCleanupAborts == cl_fs_cleanup /\ Prints(clar_print_onabort) /\ Meanwhile

\* clar_test_shutdown begins with what the printers say.
Shutdown == EndRun /\ Prints(clar_print_shutdown) /\ Meanwhile

Quietly ==
  /\ \/ cl_set_cleanup \/ cl_invoke_enter \/ cl_invoke_leave \/ test_chdir
     \/ SkipSuite \/ BeginTest \/ EndSuite \/ QuitSuite
     \/ CreateSandbox \/ Setjmp \/ InitializeReturns \/ TestReturns \/ Landed
     \/ LocalCleanupReturns \/ ClearInvokepoint \/ CleanupReturns \/ SandboxCleanup
     \/ TempdirShutdown \/ TempdirShutdownCrashes \/ Exited
  /\ Silent /\ Meanwhile
--------------------------------------------------------------------------------
(* clar_summary_shutdown *)

At(point) == pc = "summary" /\ writer = point
SummarySteps == asserted' = NoAssertion /\ UNCHANGED <<vars, options>>
WriteMayFail == "summary" \in Faults

\* A write, and what is done if it fails.
Write(name, test, err, next) ==
  \/ xml' = Append(xml, Element(name, test, err)) /\ writer' = next /\ UNCHANGED lost
  \/ WriteMayFail /\ writer' = "on_error" /\ UNCHANGED <<xml, lost>>

\* Its result is not looked at.
WriteUnchecked(name, test, next) ==
  /\ writer' = next
  /\ \/ xml' = Append(xml, Element(name, test, 0)) /\ UNCHANGED lost
     \/ WriteMayFail /\ lost' = TRUE /\ UNCHANGED xml

clar_summary_shutdown ==
  /\ At("idle") /\ write_summary
  /\ writer' = "testsuites"
  /\ SummarySteps /\ UNCHANGED <<out, xml, report, error, lost>>

Suite_(n) == SuiteNames[reports[n].suite]

WriteTestsuites ==
  /\ At("testsuites")
  /\ Write("testsuites", 0, 0, IF reports = <<>> THEN "/testsuites" ELSE "testsuite")
  /\ SummarySteps /\ UNCHANGED <<out, report, error>>

\* The head of the loop: a suite is opened where its name is not the last one.
OpensSuite(n) == n = 1 \/ Suite_(n - 1) # Suite_(n)

WriteTestsuite ==
  /\ At("testsuite")
  /\ IF OpensSuite(report)
       THEN Write("testsuite", report, 0, "testcase")
       ELSE writer' = "testcase" /\ UNCHANGED <<xml, lost>>
  /\ SummarySteps /\ UNCHANGED <<out, report, error>>

WriteTestcase ==
  /\ At("testcase")
  /\ WriteUnchecked("testcase", report, "failure")
  /\ error' = 1
  /\ SummarySteps /\ UNCHANGED <<out, report>>

WriteFailure ==
  /\ At("failure")
  /\ IF error <= Len(reports[report].errors)
       THEN Write("failure", report, error, "failure") /\ error' = error + 1
       ELSE writer' = "skipped" /\ UNCHANGED <<xml, lost, error>>
  /\ SummarySteps /\ UNCHANGED <<out, report>>

WriteSkipped ==
  /\ At("skipped")
  /\ IF reports[report].status = "SKIP"
       THEN WriteUnchecked("skipped", report, "/testcase")
       ELSE writer' = "/testcase" /\ UNCHANGED <<xml, lost>>
  /\ SummarySteps /\ UNCHANGED <<out, report, error>>

CloseTestcase ==
  /\ At("/testcase")
  /\ Write("/testcase", report, 0, "/testsuite")
  /\ report' = report + 1
  /\ SummarySteps /\ UNCHANGED <<out, error>>

\* Mutant of ClosesSuite: the end of the list is not the end of the last suite.
ClosesSuiteBetween(n) == n < Len(reports) /\ Suite_(n + 1) # Suite_(n)

ClosesSuite(n) == n = Len(reports) \/ Suite_(n + 1) # Suite_(n)

CloseTestsuite ==
  /\ At("/testsuite")
  /\ LET next == IF report > Len(reports) THEN "/testsuites" ELSE "testsuite"
     IN IF ClosesSuite(report - 1)
          THEN Write("/testsuite", report - 1, 0, next)
          ELSE writer' = next /\ UNCHANGED <<xml, lost>>
  /\ SummarySteps /\ UNCHANGED <<out, report, error>>

CloseTestsuites ==
  /\ At("/testsuites")
  /\ Write("/testsuites", 0, 0, "fclose")
  /\ SummarySteps /\ UNCHANGED <<out, report, error>>

Fclose ==
  /\ At("fclose")
  /\ \/ writer' = "written" /\ Prints(<<Line("written", 0, 0, 0)>>)
     \/ WriteMayFail /\ writer' = "fclose again" /\ Silent
  /\ SummarySteps /\ UNCHANGED <<xml, report, error, lost>>

FcloseOnError ==
  /\ At("on_error") \/ At("fclose again")
  /\ writer' = "failed"
  /\ SummarySteps /\ UNCHANGED <<out, xml, report, error, lost>>

\* on_error closes the file also where it has been closed.
FcloseTwiceCrashes ==
  /\ At("fclose again")
  /\ Return /\ exit' = Killed
  /\ Silent /\ Meanwhile

\* main() returns what clar_test_run did, or clar_abort ends the process.
Returns ==
  /\ Return
  /\ \/ /\ IF write_summary THEN At("written") ELSE At("idle")
        /\ exit' = total_errors % ExitModulus /\ Silent
     \/ At("failed") /\ exit' = 255 /\ Prints(clar_print_onabort)
  /\ Meanwhile
--------------------------------------------------------------------------------
Drives == \/ AssertionHolds \/ CheckFails \/ AssertionFails \/ Starts \/ PrintsSuite
          \/ PrintsTest \/ Aborts \/ FsCleanupAborts \/ Shutdown \/ Quietly

WritesSummary ==
  \/ clar_summary_shutdown \/ WriteTestsuites \/ WriteTestsuite \/ WriteTestcase
  \/ WriteFailure \/ WriteSkipped \/ CloseTestcase \/ CloseTestsuite \/ CloseTestsuites
  \/ Fclose \/ FcloseOnError \/ FcloseTwiceCrashes

ReportsNext == Drives \/ WritesSummary \/ Returns
ReportsSpec == ReportsInit /\ [][ReportsNext]_reportsVars
--------------------------------------------------------------------------------
(* Safety *)

TestLines  == {k \in DOMAIN out : out[k].kind \in {"ok", "not ok", "skip"}}
Says(kind) == \E k \in DOMAIN out : out[k].kind = kind

\* The tests of a TAP output are numbered from one, and there are as many as planned.
InOrder == \A k \in TestLines : out[k].number = Cardinality({i \in TestLines : i <= k})
Planned == \E k \in DOMAIN out : out[k].kind = "plan" /\ out[k].number = Cardinality(TestLines)

\* What somebody concludes who only reads the output: a TAP consumer wants the
\* tests numbered in order, as many as planned; a reader of clap wants no failure
\* listed.
SaysAllIsWell ==
  /\ ~Says("abort")
  /\ IF Tap THEN /\ ~Says("not ok")
                 /\ InOrder
                 /\ Planned
            ELSE ~Says("failure")

\* The output and the exit status tell the same, in both formats, at every
\* verbosity, and whichever way the process ends; but for a failed cl_check that
\* cl_skip hides from the output (clar.c:708) and more errors than the status can
\* count (clar_print_ontest, clar_print_shutdown, abort_test, clar_abort).
ReaderAgrees ==
  (/\ pc = "exited" /\ exit # Killed
   /\ total_errors < ExitModulus
   /\ \A n \in DOMAIN reports : reports[n].status = "SKIP" => ~Failed(n))
     => ((exit = 0) <=> SaysAllIsWell)

Position(name, n) == CHOOSE k \in DOMAIN xml : xml[k] = Element(name, n, 0)
OpenBefore(k) == Cardinality({i \in 1..k : xml[i].name = "testsuite"})
                 - Cardinality({i \in 1..k : xml[i].name = "/testsuite"})

\* What the element of a test holds.
CaseBody(n) ==
  [k \in 1..Len(reports[n].errors) |-> Element("failure", n, k)]
  \o IF reports[n].status = "SKIP" THEN <<Element("skipped", n, 0)>> ELSE <<>>

\* What one test has in the summary: an element of its own in a suite of its name.
CaseIsComplete(n) ==
  LET first == Position("testcase", n)
      last  == Position("/testcase", n)
  IN /\ \E k \in 1..(first - 1) :
          /\ xml[k].name = "testsuite" /\ Suite_(xml[k].test) = Suite_(n)
          /\ \A i \in (k + 1)..last : xml[i].name \notin {"testsuite", "/testsuite"}
     /\ SubSeq(xml, first + 1, last - 1) = CaseBody(n)

Cases == {k \in DOMAIN xml : xml[k].name = "testcase"}

\* A summary that is said to be written is whole and well nested: every test of the
\* run once and in order, with all its errors, in an element of its suite.  And a
\* status of 0 is not given without it.  Two writes whose result is not looked at
\* may be lost (summary.h:103, 114; clar_summary_shutdown).
SummaryAgrees ==
  /\ (writer = "written" /\ ~lost) =>
       /\ {xml[k].test : k \in Cases} = DOMAIN reports
       /\ \A k, l \in Cases : k < l => xml[k].test < xml[l].test
       /\ \A n \in DOMAIN reports : CaseIsComplete(n)
       /\ \A k \in DOMAIN xml : OpenBefore(k) \in {0, 1}
       /\ OpenBefore(Len(xml)) = 0
       /\ xml[1].name = "testsuites" /\ xml[Len(xml)].name = "/testsuites"
  /\ (exit = 0 /\ write_summary) => writer = "written"

\* An assertion fails exactly if what it says of its arguments is false, and then
\* the test has failed and, unless it was a check, was left: for strings with and
\* without NULL, precisions that are negative as an int, signed and unsigned
\* integers that keep their value in intmax_t or uintmax_t (clar__assert_equal,
\* clar__assert_compare_i, clar__assert_compare_u, clar__assert).
VerdictIsRight ==
  asserted # NoAssertion /\ InRange(asserted.call) =>
    /\ asserted.failed <=> ~Meant(asserted.call)
    /\ asserted.failed => /\ reports[Current].status = "FAILURE" /\ Failed(Current)
                          /\ asserted.call.should_abort => pc \notin UserCode

\* cl_assert_equal_i_fmt converts what it shows to int; where the precision is
\* negative, the loop that looks for the byte stops at once.
ShowsAll(c) ==
  /\ c.macro = "equal_i_fmt" => to_int(c.i) = c.i /\ to_int(c.j) = c.j
  /\ c.macro = "equal_strn" => to_int(c.len) >= 0

\* The description of a failure shows what differs: the byte it names is the first
\* one, and one that was compared; the numbers it shows are not as asserted; beside
\* NULL the two sides read differently.  A description that fills the buffer may be
\* cut before that (clar__assert_equal and the formats of the macros).
ShowsDifference(c, text) ==
  LET end == text[Len(text)]
  IN (text # <<>> /\ Len(text) < BufSize - 1 /\ ShowsAll(c)) =>
       /\ end[1] = "at" =>
            /\ CharAt(c.s, end[2] + 1) # CharAt(c.t, end[2] + 1)
            /\ Prefix(c.s, end[2]) = Prefix(c.t, end[2])
            /\ c.macro = "equal_strn" => end[2] < to_int(c.len)
       /\ end[1] = "number" => ~clar__assert_compare(c.cmp, text[1][2], end[2])
       /\ end[1] \notin {"at", "number"} =>
            \E k \in DOMAIN text : /\ text[k] = Sign("!=", 0)
                                  /\ SubSeq(text, 1, k - 1) # SubSeq(text, k + 1, Len(text))
DifferenceIsShown == ShowsDifference(asserted.call, asserted.text)
================================================================================
