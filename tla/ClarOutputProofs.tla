--------------------------- MODULE ClarOutputProofs ---------------------------
(***************************************************************************)
(* Theorems about what ClarReports shows: its variables keep their types,  *)
(* a summary that is said to be written is whole, and the output and the   *)
(* exit status tell the same, for every schedule, every set of calls and   *)
(* faults, and any number of tests and errors.                             *)
(***************************************************************************)
EXTENDS ClarReportsInv, ClarReportsProofs, FiniteSetTheorems

(* The steps *)

\* The options stay; the summary changes in the steps of clar_summary_shutdown alone.
LEMMA SummaryStays ==
  ASSUME ReportsNext
  PROVE  /\ UNCHANGED options
         /\ ~WritesSummary => UNCHANGED summary
<1>1. Drives \/ Returns => UNCHANGED <<options, summary>>
  BY DEF Drives, Returns, AssertionHolds, CheckFails, AssertionFails, Starts,
     PrintsSuite, PrintsTest, Aborts, FsCleanupAborts, Shutdown, Quietly, Meanwhile
<1>2. WritesSummary => UNCHANGED options
  BY DEF WritesSummary, SummarySteps, Meanwhile, clar_summary_shutdown, WriteTestsuites,
     WriteTestsuite, WriteTestcase, WriteFailure, WriteSkipped, CloseTestcase,
     CloseTestsuite, CloseTestsuites, Fclose, FcloseOnError, FcloseTwiceCrashes
<1> QED BY <1>1, <1>2 DEF ReportsNext

\* Once the summary is reached, all that is to be shown is settled.
LEMMA Settles ==
  ASSUME ReportsNext, pc \in {"summary", "exited"}
  PROVE  UNCHANGED <<reports, total_errors, tests_ran, printed>> /\ pc' \in {"summary", "exited"}
<1>1. CASE Next
  <2>1. CASE pc = "exited"
    BY <1>1, <2>1, ExitedStays DEF vars, results, output
  <2>2. CASE pc = "summary"
    <3>1. Return
      BY <1>1, <2>2
      DEF Next, CallsApi, RunsTest, RunsSuites, cl_check, cl_assert, cl_skip,
          cl_set_cleanup, cl_invoke_enter, cl_invoke_leave, test_chdir, cl_fs_cleanup,
          cl_fs_cleanup_asserts, CreateSandbox, CreateSandboxAsserts, Setjmp,
          InitializeReturns, TestReturns, Landed, LocalCleanupReturns,
          ClearInvokepoint, CleanupReturns, SandboxCleanup, SandboxCleanupAsserts,
          EndTest, clar_test_init, clar_test_init_aborts, SkipSuite, BeginSuite,
          BeginTest, EndSuite, QuitSuite, EndRun, TempdirShutdown,
          TempdirShutdownAsserts, TempdirShutdownCrashes, Exited, InUserCode, UserCode
    <3> QED BY <3>1 DEF Return, Exit, clar_abort, results, output
  <2> QED BY <2>1, <2>2
<1>2. CASE UNCHANGED vars
  BY <1>2 DEF vars, results, output
<1> QED BY <1>1, <1>2, DriverStep
--------------------------------------------------------------------------------
(* Types *)

SummaryTypeOK ==
  /\ xml \in Seq(XmlElement) /\ writer \in WriterPoints
  /\ report \in Nat \ {0} /\ error \in Nat \ {0} /\ lost \in BOOLEAN

\* What a write that succeeds leaves.
LEMMA Appended ==
  ASSUME NEW e \in XmlElement, xml \in Seq(XmlElement), xml' = Append(xml, e)
  PROVE  /\ xml' \in Seq(XmlElement) /\ Len(xml') = Len(xml) + 1 /\ Len(xml) \in Nat
         /\ DOMAIN xml = 1..Len(xml) /\ DOMAIN xml' = 1..(Len(xml) + 1)
         /\ \A k \in 1..Len(xml) : xml'[k] = xml[k]
         /\ xml'[Len(xml) + 1] = e
BY AppendProperties, LenProperties

\* A write ends where it was to, or in on_error.
LEMMA WriteTypes ==
  ASSUME SummaryTypeOK, NEW name \in Elements, NEW test \in Nat, NEW err \in Nat,
         NEW next \in WriterPoints,
         Write(name, test, err, next) \/ WriteUnchecked(name, test, next)
  PROVE  xml' \in Seq(XmlElement) /\ writer' \in WriterPoints /\ lost' \in BOOLEAN
<1>1. Element(name, test, err) \in XmlElement /\ Element(name, test, 0) \in XmlElement
  BY DEF Element, XmlElement
<1>2. CASE Write(name, test, err, next)
  BY <1>1, <1>2, Appended DEF SummaryTypeOK, Write, WriterPoints
<1>3. CASE WriteUnchecked(name, test, next)
  BY <1>1, <1>3, Appended DEF SummaryTypeOK, WriteUnchecked
<1> QED BY <1>2, <1>3

LEMMA SummaryTypesStep ==
  ASSUME SummaryTypeOK, ReportsNext PROVE SummaryTypeOK'
<1>1. CASE ~WritesSummary
  BY <1>1, SummaryStays DEF SummaryTypeOK, summary
<1>2. CASE clar_summary_shutdown \/ Fclose \/ FcloseOnError \/ FcloseTwiceCrashes
  BY <1>2 DEF SummaryTypeOK, clar_summary_shutdown, Fclose, FcloseOnError,
     FcloseTwiceCrashes, Meanwhile, summary, WriterPoints
<1>3. CASE WriteTestsuites
  <2>1. /\ \E next \in WriterPoints : Write("testsuites", 0, 0, next)
        /\ UNCHANGED <<report, error>>
    BY <1>3 DEF WriteTestsuites, WriterPoints
  <2>2. "testsuites" \in Elements
    BY DEF Elements
  <2> QED BY <2>1, <2>2, WriteTypes DEF SummaryTypeOK
<1>4. CASE WriteTestsuite
  <2>1. /\ \/ Write("testsuite", report, 0, "testcase")
           \/ writer' = "testcase" /\ UNCHANGED <<xml, lost>>
        /\ UNCHANGED <<report, error>>
    BY <1>4 DEF WriteTestsuite
  <2>2. "testsuite" \in Elements /\ "testcase" \in WriterPoints /\ report \in Nat
    BY DEF Elements, WriterPoints, SummaryTypeOK
  <2> QED BY <2>1, <2>2, WriteTypes DEF SummaryTypeOK
<1>5. CASE WriteTestcase
  <2>1. /\ WriteUnchecked("testcase", report, "failure")
        /\ error' = 1 /\ UNCHANGED report
    BY <1>5 DEF WriteTestcase
  <2>2. "testcase" \in Elements /\ "failure" \in WriterPoints /\ report \in Nat
    BY DEF Elements, WriterPoints, SummaryTypeOK
  <2> QED BY <2>1, <2>2, WriteTypes DEF SummaryTypeOK
<1>6. CASE WriteFailure
  <2>1. /\ \/ Write("failure", report, error, "failure") /\ error' = error + 1
           \/ writer' = "skipped" /\ UNCHANGED <<xml, lost, error>>
        /\ UNCHANGED report
    BY <1>6 DEF WriteFailure
  <2>2. /\ "failure" \in Elements /\ {"failure", "skipped"} \subseteq WriterPoints
        /\ report \in Nat /\ error \in Nat
    BY DEF Elements, WriterPoints, SummaryTypeOK
  <2> QED BY <2>1, <2>2, WriteTypes DEF SummaryTypeOK
<1>7. CASE WriteSkipped
  <2>1. /\ \/ WriteUnchecked("skipped", report, "/testcase")
           \/ writer' = "/testcase" /\ UNCHANGED <<xml, lost>>
        /\ UNCHANGED <<report, error>>
    BY <1>7 DEF WriteSkipped
  <2>2. "skipped" \in Elements /\ "/testcase" \in WriterPoints /\ report \in Nat
    BY DEF Elements, WriterPoints, SummaryTypeOK
  <2> QED BY <2>1, <2>2, WriteTypes DEF SummaryTypeOK
<1>8. CASE CloseTestcase
  <2>1. Write("/testcase", report, 0, "/testsuite") /\ report' = report + 1 /\ UNCHANGED error
    BY <1>8 DEF CloseTestcase
  <2>2. "/testcase" \in Elements /\ "/testsuite" \in WriterPoints /\ report \in Nat
    BY DEF Elements, WriterPoints, SummaryTypeOK
  <2> QED BY <2>1, <2>2, WriteTypes DEF SummaryTypeOK
<1>9. CASE CloseTestsuite
  <2>1. /\ \E next \in WriterPoints :
             \/ Write("/testsuite", report - 1, 0, next)
             \/ writer' = next /\ UNCHANGED <<xml, lost>>
        /\ UNCHANGED <<report, error>>
    BY <1>9 DEF CloseTestsuite, WriterPoints
  <2>2. "/testsuite" \in Elements /\ report - 1 \in Nat
    BY DEF Elements, SummaryTypeOK
  <2> QED BY <2>1, <2>2, WriteTypes DEF SummaryTypeOK
<1>10. CASE CloseTestsuites
  <2>1. Write("/testsuites", 0, 0, "fclose") /\ UNCHANGED <<report, error>>
    BY <1>10 DEF CloseTestsuites
  <2>2. "/testsuites" \in Elements /\ "fclose" \in WriterPoints
    BY DEF Elements, WriterPoints
  <2> QED BY <2>1, <2>2, WriteTypes DEF SummaryTypeOK
<1> QED BY <1>1, <1>2, <1>3, <1>4, <1>5, <1>6, <1>7, <1>8, <1>9, <1>10 DEF WritesSummary
--------------------------------------------------------------------------------
(* What the printers print *)

\* What a line that lists no failure may be.
LineKinds == {"init", "suite", "ok", "not ok", "skip", "plan", "abort", "written"}

\* The lines that list a failure, and those that give the verdict of a test.
FailureLines == [kind: {"failure"}, number: Nat \ {0}, test: Nat \ {0}, error: Nat \ {0}]
Verdicts     == {"ok", "not ok", "skip"}

\* The list of one line.
LEMMA SingleLine ==
  ASSUME NEW S, NEW line \in S
  PROVE  <<line>> \in Seq(S) /\ Len(<<line>>) = 1 /\ <<line>>[1] = line
OBVIOUS

\* A line of another kind.
LEMMA LineIs ==
  ASSUME NEW kind \in LineKinds,
         NEW number \in Nat, NEW test \in Nat, NEW err \in Nat
  PROVE  LET line == Line(kind, number, test, err)
         IN /\ line \in Lines
            /\ line.kind = kind /\ line.number = number /\ line.test = test
BY DEF Line, Lines, LineKinds

\* The errors of a report are listed one by one.
LEMMA FailuresAre ==
  ASSUME NEW list \in Seq(Report), NEW n \in 1..Len(list), NEW from \in Nat \ {0}
  PROVE  /\ Failures(list, n, from) \in Seq(FailureLines)
         /\ Failures(list, n, from) = <<>> <=> list[n].errors = <<>>
<1>1. list[n].errors \in Seq(Site) /\ Len(list[n].errors) \in Nat /\ n \in Nat \ {0}
  <2>1. list[n] \in Report /\ Len(list) \in Nat
    BY ElementOfSeq, LenProperties
  <2> QED BY <2>1, LenProperties DEF Report
<1> DEFINE length == Len(list[n].errors)
<1>2. length = 0 <=> list[n].errors = <<>>
  BY <1>1, EmptySeq
<1> HIDE DEF length
<1>3. \A k \in 1..length : Line("failure", from + k - 1, n, k) \in FailureLines
  BY <1>1 DEF Line, FailureLines
<1>4. Failures(list, n, from) = [k \in 1..length |-> Line("failure", from + k - 1, n, k)]
  BY DEF Failures, length
<1>5. length \in Nat
  BY <1>1 DEF length
<1>6. /\ Failures(list, n, from) \in Seq(FailureLines)
      /\ Len(Failures(list, n, from)) = length
  BY <1>3, <1>4, <1>5
<1> QED BY <1>2, <1>6, EmptySeq

\* What clar_report_all lists: something exactly if there is a failed report.
LEMMA ListedIs ==
  ASSUME TypeOK
  PROVE  \A n \in 0..Len(reports) :
           /\ Listed[n] \in Seq(FailureLines)
           /\ Listed[n] # <<>> <=> \E m \in 1..n : /\ reports[m].status = "FAILURE"
                                                   /\ reports[m].errors # <<>>
<1> DEFINE N == Len(reports)
           V == Seq(FailureLines)
           One(n, x) == IF reports[n].status # "FAILURE" THEN x
                        ELSE x \o Failures(reports, n, Len(x) + 1)
           step == [n \in 1..N |-> [x \in V |-> One(n, x)]]
           Of(f, n) == IF n = 0 THEN <<>> ELSE One(n, f[n - 1])
<1>1. N \in Nat /\ reports \in Seq(Report) /\ <<>> \in V
  BY LenProperties, EmptySeq DEF TypeOK
<1>2. ASSUME NEW n \in 1..N, NEW x \in V
      PROVE  /\ One(n, x) \in V
             /\ One(n, x) # <<>> <=> \/ x # <<>>
                                     \/ /\ reports[n].status = "FAILURE"
                                        /\ reports[n].errors # <<>>
  <2>1. Len(x) + 1 \in Nat \ {0}
    BY LenProperties
  <2> DEFINE more == Failures(reports, n, Len(x) + 1)
  <2>2. more \in V /\ (more = <<>> <=> reports[n].errors = <<>>)
    BY <1>1, <2>1, FailuresAre
  <2> HIDE DEF more
  <2>3. x \o more \in V /\ (x \o more = <<>> <=> x = <<>> /\ more = <<>>)
    BY <2>2, ConcatProperties, ConcatEqualIffEmpty
  <2> QED BY <2>2, <2>3 DEF more
<1> HIDE DEF N, V, One
<1>3. step \in [1..N -> [V -> V]] /\ \A n \in 1..N, x \in V : step[n][x] = One(n, x)
  BY <1>2
<1> HIDE DEF step
<1>4. PICK f : Recurses(f, N, V, <<>>, step)
  BY <1>1, <1>3, Recursion
<1>5. f = [n \in 0..N |-> Of(f, n)]
  <2>1. \A n \in 1..N : f[n - 1] \in V /\ f[n] = One(n, f[n - 1])
    BY <1>1, <1>3, <1>4 DEF Recurses
  <2>2. \A n \in 0..N : f[n] = Of(f, n)
    BY <1>1, <1>4, <2>1 DEF Recurses
  <2> QED BY <1>4, <2>2 DEF Recurses
<1>6. Listed = [n \in 0..N |-> Of(Listed, n)]
  BY <1>5 DEF Listed, One, N
<1>7. Listed[0] = <<>> /\ \A n \in 1..N : Listed[n] = One(n, Listed[n - 1])
  BY <1>1, <1>6
<1> DEFINE Has(m) == reports[m].status = "FAILURE" /\ reports[m].errors # <<>>
           S == {n \in 0..N : /\ Listed[n] \in V
                              /\ Listed[n] # <<>> <=> \E m \in 1..n : Has(m)}
<1> HIDE DEF Has
<1>8. 0 \in S
  BY <1>1, <1>7
<1>9. ASSUME NEW n \in 1..N, n - 1 \in S PROVE n \in S
  <2>1. /\ Listed[n] \in V
        /\ Listed[n] # <<>> <=> Listed[n - 1] # <<>> \/ Has(n)
    BY <1>2, <1>7, <1>9 DEF Has
  <2>2. (\E m \in 1..n : Has(m)) <=> (\E m \in 1..(n - 1) : Has(m)) \/ Has(n)
    BY <1>1
  <2> QED BY <1>1, <1>9, <2>1, <2>2
<1> HIDE DEF S
<1>10. \A n \in 0..N : n \in S
  BY <1>1, <1>8, <1>9, Inductive
<1> QED BY <1>10 DEF S, N, V, Has

\* Some lines, all of these kinds.
Tells(kinds, lines) ==
  lines \in Seq(Lines) /\ \A k \in DOMAIN lines : lines[k].kind \in kinds

\* Nothing, or a line of these kinds, or two such lists one after the other.
LEMMA NothingTells == \A kinds : Tells(kinds, <<>>)
<1>1. DOMAIN <<>> = {} /\ <<>> \in Seq(Lines)
  BY EmptySeq
<1> QED BY <1>1 DEF Tells

LEMMA LineTells ==
  ASSUME NEW kind \in LineKinds,
         NEW number \in Nat, NEW test \in Nat, NEW err \in Nat
  PROVE  Tells({kind}, <<Line(kind, number, test, err)>>)
<1> DEFINE line == Line(kind, number, test, err)
<1>1. line \in Lines /\ line.kind = kind
  BY LineIs
<1> HIDE DEF line
<1> DEFINE lines == <<line>>
<1>2. lines \in Seq(Lines) /\ Len(lines) = 1 /\ lines[1] = line
  BY <1>1, SingleLine
<1> HIDE DEF lines
<1>3. DOMAIN lines = 1..1
  BY <1>2, LenProperties
<1>4. \A k \in 1..1 : k = 1
  OBVIOUS
<1>5. Tells({kind}, lines)
  BY <1>1, <1>2, <1>3, <1>4 DEF Tells
<1> QED BY <1>5 DEF lines, line

LEMMA BothTell ==
  ASSUME NEW kinds, NEW others, NEW a, NEW b, Tells(kinds, a), Tells(others, b)
  PROVE  Tells(kinds \cup others, a \o b) /\ (a # <<>> => (a \o b)[1] = a[1] /\ 1 \in DOMAIN (a \o b))
<1>1. /\ a \in Seq(Lines) /\ b \in Seq(Lines) /\ Len(a) \in Nat /\ Len(b) \in Nat
      /\ DOMAIN a = 1..Len(a) /\ DOMAIN b = 1..Len(b)
  BY LenProperties DEF Tells
<1>2. /\ a \o b \in Seq(Lines) /\ Len(a \o b) = Len(a) + Len(b)
      /\ \A i \in 1..Len(a) + Len(b) :
           (a \o b)[i] = IF i <= Len(a) THEN a[i] ELSE b[i - Len(a)]
  BY <1>1, ConcatProperties
<1>3. DOMAIN (a \o b) = 1..(Len(a) + Len(b))
  BY <1>2, LenProperties
<1>4. ASSUME NEW k \in 1..(Len(a) + Len(b)) PROVE (a \o b)[k].kind \in kinds \cup others
  <2>1. CASE k <= Len(a)
    BY <1>1, <1>2, <2>1 DEF Tells
  <2>2. CASE ~(k <= Len(a))
    <3>1. k - Len(a) \in DOMAIN b
      BY <1>1, <2>2
    <3> QED BY <1>1, <1>2, <2>2, <3>1 DEF Tells
  <2> QED BY <2>1, <2>2
<1>5. a # <<>> => Len(a) > 0
  BY <1>1, EmptySeq
<1> QED BY <1>1, <1>2, <1>3, <1>4, <1>5 DEF Tells

\* What is said once it is printed.
LEMMA Shown ==
  ASSUME out \in Seq(Lines), NEW kinds, NEW lines, Tells(kinds, lines), Prints(lines)
  PROVE  /\ out' \in Seq(Lines)
         /\ \A k \in DOMAIN out : k \in DOMAIN out' /\ out'[k] = out[k]
         /\ \A kind : kind \notin kinds => (Says(kind)' <=> Says(kind))
         /\ \A k \in DOMAIN lines : Says(lines[k].kind)'
         /\ kinds \cap Verdicts = {} => /\ TestLines' = TestLines
                                        /\ \A k \in TestLines : out'[k] = out[k]
<1>1. /\ lines \in Seq(Lines) /\ Len(lines) \in Nat /\ Len(out) \in Nat
      /\ DOMAIN lines = 1..Len(lines) /\ DOMAIN out = 1..Len(out)
  BY LenProperties DEF Tells
<1>2. /\ out' \in Seq(Lines) /\ Len(out') = Len(out) + Len(lines)
      /\ \A i \in 1..Len(out) + Len(lines) :
           out'[i] = IF i <= Len(out) THEN out[i] ELSE lines[i - Len(out)]
  BY <1>1, ConcatProperties DEF Prints
<1>3. DOMAIN out' = 1..(Len(out) + Len(lines))
  BY <1>2, LenProperties
<1>4. \A k \in DOMAIN out : k \in DOMAIN out' /\ out'[k] = out[k]
  BY <1>1, <1>2, <1>3
<1>5. \A k \in DOMAIN lines : Len(out) + k \in DOMAIN out' /\ out'[Len(out) + k] = lines[k]
  BY <1>1, <1>2, <1>3
<1>6. \A k \in DOMAIN out' : k \in DOMAIN out \/ out'[k].kind \in kinds
  <2> SUFFICES ASSUME NEW k \in DOMAIN out', k \notin DOMAIN out PROVE out'[k].kind \in kinds
    OBVIOUS
  <2>1. k - Len(out) \in DOMAIN lines /\ out'[k] = lines[k - Len(out)]
    BY <1>1, <1>2, <1>3
  <2> QED BY <2>1 DEF Tells
<1>7. kinds \cap Verdicts = {} => TestLines' = TestLines
  BY <1>4, <1>6 DEF TestLines, Verdicts
<1>8. \A k \in TestLines : out'[k] = out[k]
  BY <1>4 DEF TestLines
<1> QED BY <1>2, <1>4, <1>5, <1>6, <1>7, <1>8 DEF Says
--------------------------------------------------------------------------------
(* What a step says *)

\* The process gives up, and says so.
GivesUp ==
  /\ pc' = "exited" /\ exit' \in {1, 255} /\ UNCHANGED output
  /\ \E lines : /\ Tells({"init", "abort", "failure"}, lines) /\ Prints(lines)
                /\ \E k \in DOMAIN lines : lines[k].kind = "abort"

\* If this step reaches an end, it is from one, and with the results there are.
EndsWell ==
  (pc' \in {"shutdown", "summary"} \/ (pc' = "exited" /\ exit' # Killed)) =>
    /\ UNCHANGED <<reports, total_errors>>
    /\ pc \in {"shutdown", "summary", "exited"}
    /\ pc = "exited" => pc' = "exited" /\ UNCHANGED exit
    /\ pc # "exited" /\ pc' = "exited" => exit' = total_errors % ExitModulus

\* Nothing is said of a test or of the end.
GoesOn ==
  /\ UNCHANGED output /\ EndsWell
  /\ \E lines : Tells({"init", "suite", "written"}, lines) /\ Prints(lines)

\* To say nothing is one way.
LEMMA SilentGoesOn ==
  ASSUME out \in Seq(Lines), Silent, UNCHANGED output, EndsWell PROVE GoesOn
<1>1. out \o <<>> = out
  BY ConcatEmptySeq
<1> QED BY <1>1, NothingTells DEF GoesOn, Prints, Silent

\* To have abort_test end the process is another.
LEMMA AbortSays ==
  ASSUME out \in Seq(Lines), reports' \in Seq(Report), Len(reports') \in Nat \ {0},
         PrintsAbort, abort_test, UNCHANGED output
  PROVE  GivesUp \/ GoesOn
<1>1. CASE trampoline_enabled
  <2>1. pc' = "landed" \/ (pc' = "exited" /\ exit' = Killed)
    BY <1>1 DEF abort_test, Call, Exit
  <2>2. EndsWell
    BY <2>1 DEF EndsWell
  <2> QED BY <1>1, <2>2, SilentGoesOn DEF PrintsAbort, Silent
<1>2. CASE ~trampoline_enabled
  <2> DEFINE a == clar_print_onabort
             b == clar_report_errors(reports')
  <2>1. Tells({"abort"}, a) /\ a # <<>> /\ a[1].kind = "abort"
    <3>1. "abort" \in LineKinds /\ 0 \in Nat
      BY DEF LineKinds
    <3>2. Tells({"abort"}, a)
      BY <3>1, LineTells DEF clar_print_onabort
    <3> QED BY <3>2 DEF clar_print_onabort, Line
  <2>2. Tells({"failure"}, b)
    <3> DEFINE list == Failures(reports', Len(reports'), 1)
    <3>1. list \in Seq(FailureLines)
      BY FailuresAre
    <3> HIDE DEF list
    <3>2. list \in Seq(Lines) /\ \A k \in DOMAIN list : list[k] \in FailureLines
      <4>1. FailureLines \subseteq Lines
        BY DEF FailureLines, Lines
      <4> QED BY <3>1, <4>1, SeqMonotonic, LenProperties, ElementOfSeq
    <3>3. Tells({"failure"}, list)
      BY <3>2 DEF Tells, FailureLines
    <3> QED BY <3>3, NothingTells DEF clar_report_errors, list
  <2> HIDE DEF a, b
  <2>3. /\ Tells({"abort"} \cup {"failure"}, a \o b)
        /\ 1 \in DOMAIN (a \o b) /\ (a \o b)[1].kind = "abort"
    BY <2>1, <2>2, BothTell
  <2>4. Tells({"init", "abort", "failure"}, a \o b)
    BY <2>3 DEF Tells
  <2>5. Prints(a \o b)
    BY <1>2 DEF PrintsAbort, a, b
  <2>6. pc' = "exited" /\ exit' = 1
    BY <1>2 DEF abort_test, Exit
  <2> QED BY <2>3, <2>4, <2>5, <2>6 DEF GivesUp
<1> QED BY <1>1, <1>2

\* So every step but the end of a test, and that of the run, gives up or goes on.
LEMMA StartSays ==
  ASSUME Starts, TypeOK PROVE GivesUp \/ GoesOn
<1>1. Tells({"init"}, clar_print_init)
  <2>1. "init" \in LineKinds /\ 0 \in Nat
    BY DEF LineKinds
  <2>2. Tells({"init"}, <<Line("init", 0, 0, 0)>>)
    BY <2>1, LineTells
  <2> QED BY <2>2, NothingTells
      DEF clar_print_init, clar_print_tap_init, clar_print_clap_init
<1>2. CASE clar_test_init /\ Prints(clar_print_init)
  <2>1. pc' = "suite" /\ UNCHANGED output
    BY <1>2 DEF clar_test_init
  <2>2. Tells({"init", "suite", "written"}, clar_print_init)
    BY <1>1 DEF Tells
  <2> QED BY <1>2, <2>1, <2>2 DEF GoesOn, EndsWell
<1>3. CASE clar_test_init_aborts /\ Prints(clar_print_init \o clar_print_onabort)
  <2> DEFINE a == clar_print_init
             b == clar_print_onabort
  <2>1. Tells({"abort"}, b) /\ Len(b) = 1 /\ b[1].kind = "abort"
    <3>1. "abort" \in LineKinds /\ 0 \in Nat
      BY DEF LineKinds
    <3>2. Tells({"abort"}, b)
      BY <3>1, LineTells DEF clar_print_onabort
    <3> QED BY <3>2 DEF clar_print_onabort, Line
  <2> HIDE DEF a, b
  <2>2. Tells({"init"} \cup {"abort"}, a \o b)
    BY <1>1, <2>1, BothTell DEF a
  <2>3. /\ Len(a) + 1 \in DOMAIN (a \o b) /\ (a \o b)[Len(a) + 1] = b[1]
    <3>1. a \in Seq(Lines) /\ b \in Seq(Lines)
      BY <1>1, <2>1 DEF a, Tells
    <3>2. Len(a) \in Nat /\ Len(b) = 1
      BY <2>1, <3>1, LenProperties
    <3>3. /\ a \o b \in Seq(Lines) /\ Len(a \o b) = Len(a) + Len(b)
          /\ \A i \in 1..Len(a) + Len(b) :
               (a \o b)[i] = IF i <= Len(a) THEN a[i] ELSE b[i - Len(a)]
      BY <3>1, ConcatProperties
    <3>4. DOMAIN (a \o b) = 1..Len(a \o b)
      BY <3>3, LenProperties
    <3> QED BY <3>2, <3>3, <3>4
  <2>4. Tells({"init", "abort", "failure"}, a \o b)
    BY <2>2 DEF Tells
  <2>5. Prints(a \o b) /\ pc' = "exited" /\ exit' = 255 /\ UNCHANGED output
    BY <1>3 DEF a, b, clar_test_init_aborts, clar_abort, Exit
  <2>6. (a \o b)[Len(a) + 1].kind = "abort"
    BY <2>1, <2>3
  <2> QED BY <2>3, <2>4, <2>5, <2>6 DEF GivesUp
<1> QED BY <1>2, <1>3 DEF Starts

\* A step that records an error or skips leaves a report to be listed.
LEMMA LeavesReport ==
  ASSUME IInv, Fails \/ cl_skip
  PROVE  reports' \in Seq(Report) /\ Len(reports') \in Nat \ {0}
<1>1. TypeOK /\ reports # <<>> /\ \E status, errors : Rewritten(status, errors)
  BY FailsEffect, SkipEffect DEF IInv
<1> QED BY <1>1, EmptySeq DEF Rewritten, TypeOK

LEMMA AbortsSay ==
  ASSUME IInv, out \in Seq(Lines), Aborts \/ AssertionFails
  PROVE  GivesUp \/ GoesOn
<1>1. (Fails \/ cl_skip) /\ PrintsAbort /\ abort_test /\ UNCHANGED output
  BY DEF Aborts, AssertionFails, Fails, cl_assert, cl_skip, cl_fs_cleanup_asserts,
     CreateSandboxAsserts, SandboxCleanupAsserts, TempdirShutdownAsserts
<1> QED BY <1>1, LeavesReport, AbortSays

LEMMA AbortAloneSays ==
  ASSUME Prints(clar_print_onabort), pc' = "exited", exit' \in {1, 255}, UNCHANGED output
  PROVE  GivesUp
<1> DEFINE a == clar_print_onabort
<1>1. "abort" \in LineKinds /\ 0 \in Nat
  BY DEF LineKinds
<1>2. Tells({"abort"}, a)
  BY <1>1, LineTells DEF clar_print_onabort
<1>3. 1 \in DOMAIN a /\ a[1].kind = "abort"
  BY DEF clar_print_onabort, Line
<1> HIDE DEF a
<1>4. Tells({"init", "abort", "failure"}, a)
  BY <1>2 DEF Tells
<1> QED BY <1>3, <1>4 DEF GivesUp, a

LEMMA QuietlyGoesOn ==
  ASSUME IInv, out \in Seq(Lines), Quietly PROVE GoesOn
<1>1. Silent /\ UNCHANGED output
  BY DEF Quietly, cl_set_cleanup, cl_invoke_enter, cl_invoke_leave, test_chdir,
     SkipSuite, BeginTest, EndSuite, QuitSuite, CreateSandbox, Setjmp,
     InitializeReturns, TestReturns, Landed, LocalCleanupReturns, ClearInvokepoint,
     CleanupReturns, SandboxCleanup, TempdirShutdown, TempdirShutdownCrashes,
     Exited, vars
<1>2. CASE TempdirShutdown
  <2>1. EndsWell
    BY <1>2 DEF TempdirShutdown, EndsWell, results
  <2> QED BY <1>1, <2>1, SilentGoesOn
<1>3. CASE TempdirShutdownCrashes \/ Exited
  <2>1. EndsWell
    BY <1>3 DEF TempdirShutdownCrashes, Exited, Exit, EndsWell, vars, results
  <2> QED BY <1>1, <2>1, SilentGoesOn
<1>4. CASE ~TempdirShutdown /\ ~TempdirShutdownCrashes /\ ~Exited
  <2>1. pc' \notin {"shutdown", "summary", "exited"}
    BY <1>4 DEF Quietly, cl_set_cleanup, cl_invoke_enter, cl_invoke_leave, test_chdir,
       SkipSuite, BeginTest, EndSuite, QuitSuite, CreateSandbox, Setjmp,
       InitializeReturns, TestReturns, Landed, LocalCleanupReturns, ClearInvokepoint,
       CleanupReturns, SandboxCleanup, InUserCode, UserCode, Call
  <2>2. EndsWell
    BY <2>1 DEF EndsWell
  <2> QED BY <1>1, <2>2, SilentGoesOn
<1> QED BY <1>2, <1>3, <1>4

LEMMA SummarySays ==
  ASSUME IInv, out \in Seq(Lines), WritesSummary \/ Returns PROVE GivesUp \/ GoesOn
<1>1. CASE WritesSummary /\ ~FcloseTwiceCrashes
  <2>1. UNCHANGED vars
    BY <1>1 DEF WritesSummary, SummarySteps, clar_summary_shutdown, WriteTestsuites,
       WriteTestsuite, WriteTestcase, WriteFailure, WriteSkipped, CloseTestcase,
       CloseTestsuite, CloseTestsuites, Fclose, FcloseOnError
  <2>2. Silent \/ Prints(<<Line("written", 0, 0, 0)>>)
    BY <1>1 DEF WritesSummary, Silent, clar_summary_shutdown, WriteTestsuites,
       WriteTestsuite, WriteTestcase, WriteFailure, WriteSkipped, CloseTestcase,
       CloseTestsuite, CloseTestsuites, Fclose, FcloseOnError
  <2>3. pc = "summary"
    BY <1>1 DEF WritesSummary, At, clar_summary_shutdown, WriteTestsuites,
       WriteTestsuite, WriteTestcase, WriteFailure, WriteSkipped, CloseTestcase,
       CloseTestsuite, CloseTestsuites, Fclose, FcloseOnError
  <2>4. UNCHANGED output /\ EndsWell
    BY <2>1, <2>3 DEF EndsWell, vars, results
  <2>5. Tells({"init", "suite", "written"}, <<Line("written", 0, 0, 0)>>)
    <3>1. "written" \in LineKinds /\ 0 \in Nat
      BY DEF LineKinds
    <3>2. Tells({"written"}, <<Line("written", 0, 0, 0)>>)
      BY <3>1, LineTells
    <3> QED BY <3>2 DEF Tells
  <2> QED BY <2>2, <2>4, <2>5, SilentGoesOn DEF GoesOn
<1>2. CASE FcloseTwiceCrashes
  <2>1. Silent /\ UNCHANGED output /\ EndsWell
    BY <1>2 DEF FcloseTwiceCrashes, Return, EndsWell, Exit, clar_abort
  <2> QED BY <2>1, SilentGoesOn
<1>3. CASE Returns
  <2>1. CASE exit' = total_errors % ExitModulus /\ Silent
    <3>1. UNCHANGED output /\ EndsWell
      BY <1>3, <2>1 DEF Returns, Return, EndsWell, Exit, clar_abort, results
    <3> QED BY <2>1, <3>1, SilentGoesOn
  <2>2. CASE exit' = 255 /\ Prints(clar_print_onabort)
    <3>1. UNCHANGED output /\ pc' = "exited"
      BY <1>3 DEF Returns, Return, Exit, clar_abort
    <3> QED BY <2>2, <3>1, AbortAloneSays
  <2> QED BY <1>3, <2>1, <2>2 DEF Returns
<1> QED BY <1>1, <1>2, <1>3

LEMMA StepSays ==
  ASSUME IInv, out \in Seq(Lines), ReportsNext
  PROVE  PrintsTest \/ Shutdown \/ GivesUp \/ GoesOn
<1>1. CASE Starts
  BY <1>1, StartSays DEF IInv
<1>2. CASE Aborts \/ AssertionFails
  BY <1>2, AbortsSay
<1>3. CASE FsCleanupAborts
  BY <1>3, AbortAloneSays DEF FsCleanupAborts, cl_fs_cleanup, clar_abort, Exit
<1>4. CASE Quietly
  BY <1>4, QuietlyGoesOn
<1>5. CASE WritesSummary \/ Returns
  BY <1>5, SummarySays
<1>6. CASE PrintsSuite
  <2>1. at \in Nat /\ "suite" \in LineKinds /\ 0 \in Nat
    BY DEF IInv, TypeOK, LineKinds
  <2>2. Tells({"suite"}, <<Line("suite", at, 0, 0)>>)
    BY <2>1, LineTells
  <2>3. Tells({"suite"}, clar_print_onsuite)
    BY <2>2, NothingTells
    DEF clar_print_onsuite, clar_print_tap_onsuite, clar_print_clap_onsuite
  <2>4. Tells({"init", "suite", "written"}, clar_print_onsuite)
    BY <2>3 DEF Tells
  <2>5. UNCHANGED output /\ pc' = "next" /\ Prints(clar_print_onsuite)
    BY <1>6 DEF PrintsSuite, BeginSuite, Call
  <2> QED BY <2>4, <2>5 DEF GoesOn, EndsWell
<1>7. CASE AssertionHolds \/ CheckFails
  <2>1. /\ UNCHANGED <<output, out>> /\ pc' = pc
        /\ pc \in UserCode
    BY <1>7 DEF AssertionHolds, CheckFails, cl_check, InUserCode, vars, UserCode
  <2>2. EndsWell
    BY <2>1 DEF EndsWell, UserCode
  <2> QED BY <2>1, <2>2, SilentGoesOn DEF Silent
<1> QED BY <1>1, <1>2, <1>3, <1>4, <1>5, <1>6, <1>7 DEF ReportsNext, Drives
--------------------------------------------------------------------------------
(* The end of a test, and of the run *)

\* The word for a verdict.
LEMMA WordIs ==
  ASSUME NEW status \in Statuses
  PROVE  /\ Words[status] \in Verdicts /\ Words[status] \in LineKinds
         /\ Words[status] = "not ok" <=> status = "FAILURE"
<1>1. DOMAIN Words = Statuses /\ Words["OK"] = "ok" /\ Words["FAILURE"] = "not ok"
      /\ Words["SKIP"] = "skip" /\ Words["NOTRUN"] = "skip"
  BY DEF Words, Statuses
<1>2. \/ status = "OK" \/ status = "FAILURE" \/ status = "SKIP" \/ status = "NOTRUN"
  BY DEF Statuses
<1> QED BY <1>1, <1>2 DEF Verdicts, LineKinds

\* A test ends with the report it was given, and no other step gives a verdict.
LEMMA TestSays ==
  ASSUME IInv, PrintsTest
  PROVE  /\ Current = tests_ran + 1 /\ Len(printed) = tests_ran /\ tests_ran \in Nat
         /\ reports[Current].status \in Statuses
         /\ tests_ran' = tests_ran + 1 /\ printed' = Append(printed, reports[Current].status)
         /\ UNCHANGED <<reports, total_errors, exit>> /\ pc' = "next"
         /\ \E lines : /\ Tells({Word}, lines) /\ Prints(lines)
                       /\ Tap => \E e \in Nat : lines = <<Line(Word, tests_ran + 1, Current, e)>>
<1>1. /\ Current = tests_ran + 1 /\ Len(printed) = tests_ran /\ tests_ran \in Nat
      /\ Current \in Nat
  BY DEF IInv, CountInv, PrintsTest, EndTest, InTest, TypeOK
<1>2. reports[Current].status \in Statuses
  BY InTestHasReport, CurrentReport DEF PrintsTest, EndTest, InTest
<1>3. Word \in LineKinds
  BY <1>2, WordIs DEF Word
<1> DEFINE lines == clar_print_ontest(tests_ran + 1)
<1>4. ASSUME NEW number \in Nat, NEW e \in Nat
      PROVE  Tells({Word}, <<Line(Word, number, Current, e)>>)
  BY <1>1, <1>3, LineTells
<1>5. Tells({Word}, lines)
  <2>1. CASE Tap
    <3>1. lines = <<Line(Word, tests_ran + 1, Current,
                         IF Word = "not ok" /\ verbosity >= 0 THEN 1 ELSE 0)>>
      BY <2>1 DEF clar_print_ontest, clar_print_tap_ontest
    <3> DEFINE e == IF Word = "not ok" /\ verbosity >= 0 THEN 1 ELSE 0
    <3>2. e \in Nat /\ tests_ran + 1 \in Nat
      BY <1>1
    <3> HIDE DEF e
    <3>3. Tells({Word}, <<Line(Word, tests_ran + 1, Current, e)>>)
      BY <1>4, <3>2
    <3> QED BY <3>1, <3>3 DEF e
  <2>2. CASE ~Tap
    BY <1>4, <2>2, NothingTells DEF clar_print_ontest, clar_print_clap_ontest
  <2> QED BY <2>1, <2>2
<1>6. Tap => \E e \in Nat : lines = <<Line(Word, tests_ran + 1, Current, e)>>
  BY DEF clar_print_ontest, clar_print_tap_ontest
<1>7. /\ tests_ran' = tests_ran + 1 /\ printed' = Append(printed, reports[Current].status)
      /\ UNCHANGED <<reports, total_errors, exit>> /\ pc' = "next" /\ Prints(lines)
  BY DEF PrintsTest, EndTest, Call, results
<1> HIDE DEF lines
<1> QED BY <1>1, <1>2, <1>5, <1>6, <1>7

\* The run ends with the failures, or the number of tests.
LEMMA ShutdownSays ==
  ASSUME IInv, Shutdown
  PROVE  /\ UNCHANGED <<reports, total_errors, exit, output>>
         /\ pc = "suite" /\ pc' = "shutdown" /\ Len(reports) = tests_ran /\ tests_ran \in Nat
         /\ Tap => Tells({"plan"}, <<Line("plan", tests_ran, 0, 0)>>)
                   /\ Prints(<<Line("plan", tests_ran, 0, 0)>>)
         /\ ~Tap => \E lines : /\ Tells({"failure"}, lines) /\ Prints(lines)
                               /\ lines # <<>> <=> \E n \in DOMAIN reports :
                                    reports[n].status = "FAILURE" /\ Failed(n)
<1>1. /\ UNCHANGED <<reports, total_errors, exit, output>>
      /\ pc = "suite" /\ pc' = "shutdown" /\ Prints(clar_print_shutdown)
  BY DEF Shutdown, EndRun, results
<1>2. /\ Len(reports) = tests_ran /\ tests_ran \in Nat
      /\ TypeOK /\ Len(reports) \in 0..Len(reports)
  BY <1>1 DEF IInv, CountInv, Between, TypeOK, Current
<1>3. Tap => Tells({"plan"}, <<Line("plan", tests_ran, 0, 0)>>)
             /\ Prints(<<Line("plan", tests_ran, 0, 0)>>)
  <2>1. "plan" \in LineKinds /\ 0 \in Nat
    BY DEF LineKinds
  <2> QED BY <1>1, <1>2, <2>1, LineTells DEF clar_print_shutdown, clar_print_tap_shutdown
<1>4. ASSUME ~Tap
      PROVE  \E lines : /\ Tells({"failure"}, lines) /\ Prints(lines)
                        /\ lines # <<>> <=> \E n \in DOMAIN reports :
                                    reports[n].status = "FAILURE" /\ Failed(n)
  <2> DEFINE lines == Listed[Len(reports)]
  <2>1. /\ lines \in Seq(FailureLines)
        /\ lines # <<>> <=> \E m \in 1..Len(reports) : /\ reports[m].status = "FAILURE"
                                                       /\ reports[m].errors # <<>>
    BY <1>2, ListedIs
  <2>2. Prints(lines)
    BY <1>1, <1>4 DEF clar_print_shutdown, clar_print_clap_shutdown
  <2> HIDE DEF lines
  <2>3. lines \in Seq(Lines) /\ \A k \in DOMAIN lines : lines[k] \in FailureLines
    <3>1. FailureLines \subseteq Lines
      BY DEF FailureLines, Lines
    <3> QED BY <2>1, <3>1, SeqMonotonic, LenProperties, ElementOfSeq
  <2>4. Tells({"failure"}, lines)
    BY <2>3 DEF Tells, FailureLines
  <2>5. DOMAIN reports = 1..Len(reports)
    BY <1>2, LenProperties DEF TypeOK
  <2> QED BY <2>1, <2>2, <2>4, <2>5 DEF Failed
<1> QED BY <1>1, <1>2, <1>3, <1>4

\* What is printed are lines.
LEMMA OutStep ==
  ASSUME IInv, out \in Seq(Lines), ReportsNext PROVE out' \in Seq(Lines)
<1>1. \E kinds, lines : Tells(kinds, lines) /\ Prints(lines)
  <2>1. CASE PrintsTest
    BY <2>1, TestSays
  <2>2. CASE Shutdown
    BY <2>2, ShutdownSays
  <2>3. CASE GivesUp \/ GoesOn
    BY <2>3 DEF GivesUp, GoesOn
  <2> QED BY <2>1, <2>2, <2>3, StepSays
<1> QED BY <1>1, Shown

\* The options, the output, the summary and the last assertion have their types at every
\* moment of a run, whatever is printed, written or left out (print.h, summary.h).
THEOREM ReportsTypeCorrect == ReportsSpec => []ReportsTypeOK
<1> DEFINE Others ==
      /\ format \in {"clap", "tap"} /\ verbosity \in Verbosities /\ write_summary \in BOOLEAN
      /\ out \in Seq(Lines) /\ SummaryTypeOK /\ asserted.failed \in BOOLEAN
<1>1. ReportsInit => Others
  <2>1. <<>> \in Seq(Lines) /\ <<>> \in Seq(XmlElement) /\ NoAssertion.failed = FALSE
    BY EmptySeq DEF NoAssertion
  <2>2. ReportsInit => SummaryTypeOK
    <3>1. ReportsInit => xml = <<>> /\ writer = "idle" /\ report = 1 /\ error = 1 /\ lost = FALSE
      BY DEF ReportsInit
    <3>2. "idle" \in WriterPoints /\ 1 \in Nat \ {0}
      BY DEF WriterPoints
    <3> QED BY <2>1, <3>1, <3>2 DEF SummaryTypeOK
  <2>3. ReportsInit => /\ format \in {"clap", "tap"} /\ verbosity \in Verbosities
                       /\ write_summary \in BOOLEAN /\ out \in Seq(Lines)
                       /\ asserted = NoAssertion
    BY <2>1 DEF ReportsInit
  <2>4. asserted = NoAssertion => asserted.failed \in BOOLEAN
    BY <2>1
  <2> QED BY <2>2, <2>3, <2>4
<1>2. ASSUME IInv, Others, [ReportsNext]_reportsVars PROVE Others'
  <2>1. CASE UNCHANGED reportsVars
    BY <1>2, <2>1 DEF reportsVars, options, summary, SummaryTypeOK
  <2>2. CASE ReportsNext
    <3>1. UNCHANGED options /\ out' \in Seq(Lines) /\ SummaryTypeOK'
      BY <1>2, <2>2, SummaryStays, OutStep, SummaryTypesStep
    <3>2. asserted'.failed \in BOOLEAN
      <4>1. CASE asserted' = NoAssertion
        BY <4>1 DEF NoAssertion
      <4>2. CASE AssertionHolds \/ CheckFails \/ AssertionFails
        <5>1. PICK c : asserted' = Made(c)
          BY <4>2 DEF AssertionHolds, CheckFails, AssertionFails
        <5>2. Made(c).failed \in BOOLEAN
          BY DEF Made
        <5> QED BY <5>1, <5>2
      <4> QED BY <2>2, <4>1, <4>2, AssertedStep
    <3> QED BY <1>2, <3>1, <3>2 DEF options
  <2> QED BY <1>2, <2>1, <2>2
<1> HIDE DEF Others
<1>3. ReportsSpec => []Others
  BY <1>1, <1>2, ReportsInvariance, PTL DEF ReportsSpec
<1>4. IInv /\ Others => ReportsTypeOK
  BY DEF IInv, Others, ReportsTypeOK, SummaryTypeOK
<1> QED BY <1>3, <1>4, ReportsInvariance, PTL
--------------------------------------------------------------------------------
(* The output and the exit status *)

\* Where an error was counted, it is in a report (clar__failv).
LEMMA CountedStep ==
  ASSUME IInv, CountedInv, Next PROVE CountedInv'
<1>1. TypeOK
  BY DEF IInv
<1>2. ASSUME reports # <<>>, NEW status, NEW errors, Rewritten(status, errors),
             errors # <<>> \/ errors = reports[Current].errors,
             total_errors' = total_errors \/ errors # <<>>
      PROVE  CountedInv'
  <2>1. /\ DOMAIN reports = 1..Len(reports) /\ DOMAIN reports' = 1..Len(reports)
        /\ Current \in 1..Len(reports)
    BY <1>1, <1>2, CurrentReport, LenProperties DEF Rewritten
  <2>2. \A n \in DOMAIN reports : reports'[n].errors = reports[n].errors
                                  \/ (n = Current /\ reports'[n].errors = errors)
    BY <1>2, <2>1 DEF Rewritten
  <2>3. CASE errors # <<>>
    BY <1>2, <2>1, <2>3 DEF CountedInv, Failed, Rewritten
  <2>4. CASE errors = <<>>
    <3>1. \A n \in DOMAIN reports : reports'[n].errors = reports[n].errors
      BY <1>2, <2>1, <2>2, <2>4
    <3> QED BY <1>2, <2>1, <2>4, <3>1 DEF CountedInv, Failed
  <2> QED BY <2>3, <2>4
<1>3. CASE Fails
  <2>1. /\ reports # <<>>
        /\ Rewritten("FAILURE", Append(reports[Current].errors, Where))
        /\ Append(reports[Current].errors, Where) # <<>>
    BY <1>3, FailsEffect DEF NewErrors, Rewritten
  <2> QED BY <1>2, <2>1
<1>4. CASE cl_skip \/ Landed
  <2>1. /\ \E status : reports # <<>> /\ Rewritten(status, reports[Current].errors)
        /\ total_errors' = total_errors
    BY <1>4, SkipEffect, LandedEffect DEF cl_skip, Landed
  <2> QED BY <1>2, <2>1
<1>5. CASE BeginTest
  <2>1. /\ DOMAIN reports = 1..Len(reports) /\ DOMAIN reports' = 1..(Len(reports) + 1)
        /\ \A n \in 1..Len(reports) : reports'[n] = reports[n]
        /\ Len(reports) \in Nat /\ total_errors' = total_errors
    BY <1>5, BeginTestEffect DEF BeginTest
  <2>2. \A n \in DOMAIN reports : n \in DOMAIN reports' /\ reports'[n] = reports[n]
    BY <2>1
  <2> QED BY <2>1, <2>2 DEF CountedInv, Failed
<1>6. CASE Quiet
  BY <1>6, QuietEffect DEF CountedInv, Failed
<1> QED BY <1>3, <1>4, <1>5, <1>6, Steps

\* The lines of the tests are finitely many.
LEMMA TestLinesFinite ==
  ASSUME out \in Seq(Lines)
  PROVE  IsFiniteSet(TestLines) /\ TestLines \subseteq 1..Len(out) /\ Len(out) \in Nat
<1>1. Len(out) \in Nat /\ TestLines \subseteq 1..Len(out)
  BY LenProperties DEF TestLines
<1>2. IsFiniteSet(1..Len(out))
  BY <1>1, FS_Interval
<1> QED BY <1>1, <1>2, FS_Subset

\* A line for a test is one more, with the number that is due.
LEMMA OneMoreLine ==
  ASSUME out \in Seq(Lines), NEW line \in Lines, line.kind \in Verdicts, Prints(<<line>>),
         Cardinality(TestLines) \in Nat, InOrder,
         line.number = Cardinality(TestLines) + 1
  PROVE  /\ Cardinality(TestLines') = Cardinality(TestLines) + 1
         /\ InOrder'
         /\ TestLines' = TestLines \cup {Len(out) + 1} /\ out'[Len(out) + 1] = line
         /\ \A k \in TestLines : k # Len(out) + 1 /\ out'[k] = out[k]
<1> DEFINE new == Len(out) + 1
<1>1. /\ IsFiniteSet(TestLines) /\ TestLines \subseteq 1..Len(out) /\ Len(out) \in Nat
      /\ DOMAIN out = 1..Len(out)
  BY TestLinesFinite, LenProperties
<1>2. <<line>> \in Seq(Lines) /\ Len(<<line>>) = 1 /\ <<line>>[1] = line
  BY SingleLine
<1>3. /\ out' \in Seq(Lines) /\ Len(out') = Len(out) + Len(<<line>>)
      /\ \A i \in 1..Len(out) + Len(<<line>>) :
           out'[i] = IF i <= Len(out) THEN out[i] ELSE <<line>>[i - Len(out)]
  BY <1>2, ConcatProperties DEF Prints
<1>4. DOMAIN out' = 1..new /\ out'[new] = line /\ \A k \in 1..Len(out) : out'[k] = out[k]
  <2>1. Len(out) \in Nat /\ Len(out') = new /\ new = Len(out) + 1
    BY <1>1, <1>2, <1>3
  <2>2. DOMAIN out' = 1..new
    BY <1>3, <2>1, LenProperties
  <2>3. \A i \in 1..new : out'[i] = IF i <= Len(out) THEN out[i] ELSE <<line>>[i - Len(out)]
    BY <1>2, <1>3
  <2>4. out'[new] = line
    BY <1>2, <2>1, <2>3
  <2>5. \A k \in 1..Len(out) : out'[k] = out[k]
    BY <2>1, <2>3
  <2> QED BY <2>2, <2>4, <2>5
<1> HIDE DEF new
<1>5. new \in Nat /\ new \in 1..new /\ (\A k \in 1..new : k \in 1..Len(out) \/ k = new)
      /\ \A k \in 1..Len(out) : k \in 1..new /\ k < new
  BY <1>1 DEF new
<1>6. TestLines' = TestLines \cup {new}
  <2>1. \A k \in 1..Len(out) : k \in TestLines' <=> k \in TestLines
    BY <1>1, <1>4, <1>5 DEF TestLines
  <2>2. new \in TestLines' /\ TestLines' \subseteq 1..new
    BY <1>4, <1>5 DEF TestLines, Verdicts
  <2> QED BY <1>1, <1>5, <2>1, <2>2
<1>7. new \notin TestLines /\ \A k \in TestLines : k < new /\ k \in Nat
  BY <1>1, <1>5
<1>8. Cardinality(TestLines') = Cardinality(TestLines) + 1
  BY <1>1, <1>6, <1>7, FS_AddElement
<1>9. InOrder'
  <2> SUFFICES ASSUME NEW k \in TestLines'
               PROVE  out'[k].number = Cardinality({i \in TestLines' : i <= k})
    BY DEF InOrder
  <2>1. CASE k = new
    <3>1. \A i \in TestLines' : i <= k
      BY <1>5, <1>6, <1>7, <2>1
    <3>2. {i \in TestLines' : i <= k} = TestLines'
      BY <3>1
    <3> QED BY <1>4, <1>8, <2>1, <3>2
  <2>2. CASE k \in TestLines
    <3>1. {i \in TestLines' : i <= k} = {i \in TestLines : i <= k}
      BY <1>5, <1>6, <1>7, <2>2
    <3>2. out'[k].number = out[k].number
      BY <1>1, <1>4, <2>2
    <3> QED BY <2>2, <3>1, <3>2 DEF InOrder
  <2> QED BY <1>6, <2>1, <2>2
<1> QED BY <1>1, <1>4, <1>6, <1>7, <1>8, <1>9 DEF new

\* Every verdict has its line (clar_print_tap_ontest).
LEMMA VerdictLinesStep ==
  ASSUME IInv, out \in Seq(Lines), VerdictLinesInv, ReportsNext PROVE VerdictLinesInv'
<1>1. UNCHANGED options
  BY SummaryStays
<1> SUFFICES ASSUME Tap PROVE VerdictLinesInv'
  BY <1>1 DEF VerdictLinesInv, Tap, options
<1>2. CASE PrintsTest
  <2>1. PICK e \in Nat : Prints(<<Line(Word, tests_ran + 1, Current, e)>>)
    BY <1>2, TestSays
  <2> DEFINE line   == Line(Word, tests_ran + 1, Current, e)
             status == reports[Current].status
             new    == Len(out) + 1
  <2>2. /\ Current = tests_ran + 1 /\ Len(printed) = tests_ran /\ tests_ran \in Nat
        /\ status \in Statuses
        /\ tests_ran' = tests_ran + 1 /\ printed' = Append(printed, status)
    BY <1>2, TestSays
  <2>3. /\ Word = Words[status] /\ Word \in Verdicts /\ Word \in LineKinds
        /\ Current \in Nat /\ tests_ran + 1 \in Nat
    <3>1. Word = Words[status]
      BY DEF Word
    <3> HIDE DEF status
    <3>2. Words[status] \in Verdicts /\ Words[status] \in LineKinds
      BY <2>2, WordIs
    <3>3. Current \in Nat /\ tests_ran + 1 \in Nat
      BY <2>2
    <3> QED BY <3>1, <3>2, <3>3
  <2>4. line \in Lines /\ line.kind = Word /\ line.number = tests_ran + 1 /\ line.test = Current
    BY <2>3, LineIs
  <2> HIDE DEF line
  <2>5. Cardinality(TestLines) = tests_ran /\ InOrder
    BY DEF VerdictLinesInv
  <2>6. /\ Cardinality(TestLines') = tests_ran + 1 /\ InOrder'
        /\ TestLines' = TestLines \cup {new} /\ out'[new] = line
        /\ \A k \in TestLines : k # new /\ out'[k] = out[k]
    BY <2>1, <2>2, <2>3, <2>4, <2>5, OneMoreLine DEF line
  <2> HIDE DEF new
  <2>7. /\ DOMAIN printed = 1..tests_ran /\ DOMAIN printed' = 1..(tests_ran + 1)
        /\ printed'[tests_ran + 1] = status
        /\ \A n \in 1..tests_ran : printed'[n] = printed[n]
    <3>1. printed \in Seq(Statuses)
      BY DEF IInv, TypeOK
    <3> HIDE DEF status
    <3>2. /\ printed' \in Seq(Statuses) /\ Len(printed') = Len(printed) + 1
          /\ \A n \in 1..Len(printed) : printed'[n] = printed[n]
          /\ printed'[Len(printed) + 1] = status
      BY <2>2, <3>1, AppendProperties
    <3> QED BY <2>2, <3>1, <3>2, LenProperties
  <2> HIDE DEF status
  <2>8. \A k \in TestLines' : /\ out'[k].test \in DOMAIN printed'
                              /\ out'[k].kind = Words[printed'[out'[k].test]]
    <3>1. \A k \in TestLines : /\ out'[k].test \in DOMAIN printed'
                               /\ out'[k].kind = Words[printed'[out'[k].test]]
      BY <2>2, <2>6, <2>7 DEF VerdictLinesInv
    <3>2. /\ out'[new].test \in DOMAIN printed'
          /\ out'[new].kind = Words[printed'[out'[new].test]]
      BY <2>2, <2>3, <2>4, <2>6, <2>7
    <3> QED BY <2>6, <3>1, <3>2
  <2>9. \A n \in DOMAIN printed' : \E k \in TestLines' : out'[k].test = n
    <3>1. \A n \in DOMAIN printed : \E k \in TestLines' : out'[k].test = n
      BY <2>6 DEF VerdictLinesInv
    <3>2. out'[new].test = tests_ran + 1 /\ new \in TestLines'
      BY <2>2, <2>4, <2>6
    <3>3. \A n \in 1..(tests_ran + 1) : n \in 1..tests_ran \/ n = tests_ran + 1
      BY <2>2
    <3> QED BY <2>7, <3>1, <3>2, <3>3
  <2> QED BY <2>2, <2>6, <2>8, <2>9 DEF VerdictLinesInv
<1>3. CASE Shutdown \/ GivesUp \/ GoesOn
  <2>1. UNCHANGED output /\ \E kinds, lines : /\ kinds \cap Verdicts = {}
                                              /\ Tells(kinds, lines) /\ Prints(lines)
    <3>1. /\ {"plan"} \cap Verdicts = {} /\ {"init", "abort", "failure"} \cap Verdicts = {}
          /\ {"init", "suite", "written"} \cap Verdicts = {}
      BY DEF Verdicts
    <3>2. CASE Shutdown
      BY <3>1, <3>2, ShutdownSays
    <3>3. CASE GivesUp
      BY <3>1, <3>3 DEF GivesUp
    <3>4. CASE GoesOn
      BY <3>1, <3>4 DEF GoesOn
    <3> QED BY <1>3, <3>2, <3>3, <3>4
  <2>2. TestLines' = TestLines /\ \A k \in TestLines : out'[k] = out[k]
    BY <2>1, Shown
  <2>3. UNCHANGED <<Tap, tests_ran, printed>> /\ InOrder' = InOrder
    <3>1. UNCHANGED <<options, tests_ran, printed>>
      BY <2>1, SummaryStays DEF output
    <3>2. UNCHANGED Tap
      BY <3>1 DEF Tap, options
    <3>3. InOrder' = InOrder
      BY <2>2 DEF InOrder
    <3> QED BY <3>1, <3>2, <3>3
  <2> QED BY <2>2, <2>3 DEF VerdictLinesInv
<1> QED BY <1>2, <1>3, StepSays

\* Whoever has come to the end stays there.
LEMMA EndStays ==
  ASSUME IInv, ReportsNext, pc \in {"shutdown", "summary", "exited"}
  PROVE  pc' \in {"shutdown", "summary", "exited"}
<1>1. CASE pc = "shutdown"
  <2>1. Next \/ UNCHANGED pc
    BY DriverStep DEF vars
  <2>2. CASE Next
    <3>1. TempdirShutdown \/ TempdirShutdownAsserts \/ TempdirShutdownCrashes
      BY <1>1, <2>2
      DEF Next, CallsApi, RunsTest, RunsSuites, cl_check, cl_assert, cl_skip,
          cl_set_cleanup, cl_invoke_enter, cl_invoke_leave, test_chdir, cl_fs_cleanup,
          cl_fs_cleanup_asserts, CreateSandbox, CreateSandboxAsserts, Setjmp,
          InitializeReturns, TestReturns, Landed, LocalCleanupReturns,
          ClearInvokepoint, CleanupReturns, SandboxCleanup, SandboxCleanupAsserts,
          EndTest, clar_test_init, clar_test_init_aborts, SkipSuite, BeginSuite,
          BeginTest, EndSuite, QuitSuite, EndRun, Return, Exited, InUserCode, UserCode
    <3>2. ~trampoline_enabled
      BY <1>1 DEF IInv, JumpInv
    <3> QED BY <3>1, <3>2 DEF TempdirShutdown, TempdirShutdownAsserts,
            TempdirShutdownCrashes, abort_test, Exit
  <2> QED BY <1>1, <2>1, <2>2
<1>2. CASE pc \in {"summary", "exited"}
  BY <1>2, Settles
<1> QED BY <1>1, <1>2

\* What was said at the end agrees with the reports (clar_print_shutdown).
LEMMA EndingStep ==
  ASSUME IInv, out \in Seq(Lines), VerdictLinesInv, EndingInv, ReportsNext
  PROVE  EndingInv'
<1>1. UNCHANGED options
  BY SummaryStays
<1>2. CASE PrintsTest
  <2>1. PICK lines : Tells({Word}, lines) /\ Prints(lines)
    BY <1>2, TestSays
  <2>2. pc' = "next" /\ pc = "end" /\ Word # "failure"
    <3>1. Word \in Verdicts
      BY <1>2, TestSays, WordIs DEF Word
    <3> QED BY <1>2, <3>1 DEF Verdicts, PrintsTest, EndTest, Call
  <2>3. Says("failure")' <=> Says("failure")
    BY <2>1, <2>2, Shown
  <2> QED BY <2>2, <2>3 DEF EndingInv, Ended
<1>3. CASE Shutdown
  <2>1. /\ UNCHANGED <<reports, total_errors, exit, output>>
        /\ pc = "suite" /\ pc' = "shutdown" /\ Len(reports) = tests_ran /\ tests_ran \in Nat
    BY <1>3, ShutdownSays
  <2>2. SomeFailure' <=> SomeFailure
    BY <2>1 DEF SomeFailure
  <2>3. CASE Tap
    <3> DEFINE line == Line("plan", tests_ran, 0, 0)
    <3>1. Tells({"plan"}, <<line>>) /\ Prints(<<line>>)
      BY <1>3, <2>3, ShutdownSays
    <3>2. line \in Lines /\ line.kind = "plan" /\ line.number = tests_ran
      <4>1. "plan" \in LineKinds /\ 0 \in Nat
        BY DEF LineKinds
      <4> QED BY <2>1, <4>1, LineIs
    <3> HIDE DEF line
    <3>3. /\ TestLines' = TestLines /\ (Says("not ok")' <=> Says("not ok"))
          /\ \A k \in DOMAIN out : k \in DOMAIN out' /\ out'[k] = out[k]
      <4>1. {"plan"} \cap Verdicts = {} /\ "not ok" \notin {"plan"}
        BY DEF Verdicts
      <4> QED BY <3>1, <4>1, Shown
    <3>4. Planned'
      <4>1. Len(out) + 1 \in DOMAIN out' /\ out'[Len(out) + 1] = line
        <5>1. /\ <<line>> \in Seq(Lines) /\ Len(<<line>>) = 1 /\ <<line>>[1] = line
              /\ Len(out) \in Nat
          BY <3>2, SingleLine, LenProperties
        <5>2. /\ out' \in Seq(Lines) /\ Len(out') = Len(out) + Len(<<line>>)
              /\ \A i \in 1..Len(out) + Len(<<line>>) :
                   out'[i] = IF i <= Len(out) THEN out[i] ELSE <<line>>[i - Len(out)]
          BY <3>1, <5>1, ConcatProperties DEF Prints
        <5> QED BY <5>1, <5>2, LenProperties
      <4>2. Cardinality(TestLines') = tests_ran
        BY <2>3, <3>3 DEF VerdictLinesInv
      <4> QED BY <3>2, <4>1, <4>2 DEF Planned
    <3>5. Says("not ok") <=> SomeFailure
      <4>1. /\ Len(printed) = tests_ran
            /\ \A k \in DOMAIN printed : printed[k] = reports[k].status
        BY <2>1 DEF IInv, CountInv, PrintedIsFinal
      <4>2. DOMAIN printed = DOMAIN reports /\ \A k \in DOMAIN printed : printed[k] \in Statuses
        BY <2>1, <4>1, LenProperties, ElementOfSeq DEF IInv, TypeOK
      <4>3. ASSUME Says("not ok") PROVE SomeFailure
        <5>1. PICK k \in TestLines : out[k].kind = "not ok"
          BY <4>3 DEF Says, TestLines
        <5>2. /\ out[k].test \in DOMAIN printed
              /\ Words[printed[out[k].test]] = "not ok"
          BY <2>3, <5>1 DEF VerdictLinesInv
        <5>3. printed[out[k].test] = "FAILURE"
          BY <4>2, <5>2, WordIs
        <5> QED BY <4>1, <4>2, <5>2, <5>3 DEF SomeFailure
      <4>4. ASSUME SomeFailure PROVE Says("not ok")
        <5>1. PICK n \in DOMAIN printed : printed[n] = "FAILURE"
          BY <4>1, <4>2, <4>4 DEF SomeFailure
        <5>2. PICK k \in TestLines : out[k].test = n
          BY <2>3 DEF VerdictLinesInv
        <5>3. out[k].kind = Words["FAILURE"]
          BY <2>3, <5>1, <5>2 DEF VerdictLinesInv
        <5>4. Words["FAILURE"] = "not ok"
          BY DEF Words
        <5> QED BY <5>2, <5>3, <5>4 DEF Says, TestLines
      <4> QED BY <4>3, <4>4
    <3> QED BY <1>1, <2>1, <2>2, <2>3, <3>3, <3>4, <3>5 DEF EndingInv, Tap, options
  <2>4. CASE ~Tap
    <3>1. PICK lines : /\ Tells({"failure"}, lines) /\ Prints(lines)
                       /\ lines # <<>> <=> \E n \in DOMAIN reports :
                                    reports[n].status = "FAILURE" /\ Failed(n)
      BY <1>3, <2>4, ShutdownSays
    <3>2. SomeFailure <=> lines # <<>>
      BY <3>1 DEF SomeFailure, IInv, VerdictInv
    <3>3. ~Says("failure")
      BY <2>1 DEF EndingInv
    <3>4. Says("failure")' <=> lines # <<>>
      <4>1. lines # <<>> => Says("failure")'
        <5>1. ASSUME lines # <<>> PROVE 1 \in DOMAIN lines
          <6>1. lines \in Seq(Lines)
            BY <3>1 DEF Tells
          <6>2. Len(lines) \in Nat \ {0} /\ DOMAIN lines = 1..Len(lines)
            BY <5>1, <6>1, EmptySeq, LenProperties
          <6> QED BY <6>2
        <5>2. \A k \in DOMAIN lines : lines[k].kind = "failure" /\ Says(lines[k].kind)'
          BY <3>1, Shown DEF Tells
        <5> QED BY <5>1, <5>2
      <4>2. lines = <<>> => ~Says("failure")'
        <5>1. lines = <<>> => out' = out
          BY <3>1, ConcatEmptySeq DEF Prints
        <5> QED BY <3>3, <5>1 DEF Says
      <4> QED BY <4>1, <4>2
    <3> QED BY <1>1, <2>1, <2>2, <2>4, <3>2, <3>4 DEF EndingInv, Tap, options
  <2> QED BY <2>3, <2>4
<1>4. CASE GivesUp
  <2>1. Says("abort")' /\ pc' = "exited"
    BY <1>4, Shown DEF GivesUp
  <2> QED BY <2>1 DEF EndingInv, Ended
<1>5. CASE GoesOn
  <2>1. PICK lines : Tells({"init", "suite", "written"}, lines) /\ Prints(lines)
    BY <1>5 DEF GoesOn
  <2>2. /\ Says("failure")' <=> Says("failure")
        /\ Says("abort")' <=> Says("abort")
        /\ Says("not ok")' <=> Says("not ok")
        /\ TestLines' = TestLines
        /\ \A k \in DOMAIN out : k \in DOMAIN out' /\ out'[k] = out[k]
    <3>1. /\ {"init", "suite", "written"} \cap Verdicts = {}
          /\ \A kind \in {"failure", "abort", "not ok"} : kind \notin {"init", "suite", "written"}
      BY DEF Verdicts
    <3> QED BY <2>1, <3>1, Shown
  <2>3. pc' \notin {"shutdown", "summary", "exited"} => ~Says("failure")'
    BY <2>2, EndStays DEF EndingInv
  <2>4. ASSUME Ended'
        PROVE  Ended /\ UNCHANGED reports
    BY <1>5, <2>2, <2>4 DEF Ended, GoesOn, EndsWell
  <2>5. Planned => Planned'
    BY <2>2 DEF Planned
  <2>7. Ended' => IF Tap THEN Planned' /\ (Says("not ok")' <=> SomeFailure')
                         ELSE Says("failure")' <=> SomeFailure'
    BY <2>2, <2>4, <2>5 DEF SomeFailure, EndingInv
  <2> QED BY <1>1, <2>3, <2>7 DEF EndingInv, Tap, options
<1> QED BY <1>2, <1>3, <1>4, <1>5, StepSays

\* Whoever gives up says so, and the status is not 0; otherwise it counts the errors.
LEMMA AbortInvStep ==
  ASSUME IInv, out \in Seq(Lines), AbortInv, ReportsNext PROVE AbortInv'
<1>1. CASE PrintsTest \/ Shutdown
  <2>1. pc' \in {"next", "shutdown"} /\ pc # "exited"
    BY <1>1 DEF PrintsTest, EndTest, Call, Shutdown, EndRun
  <2>2. \E kinds, lines : "abort" \notin kinds /\ Tells(kinds, lines) /\ Prints(lines)
    <3>1. CASE PrintsTest
      <4>1. Word # "abort"
        <5>1. Word \in Verdicts
          BY <3>1, TestSays, WordIs DEF Word
        <5> QED BY <5>1 DEF Verdicts
      <4>2. "abort" \notin {Word}
        BY <4>1
      <4> QED BY <3>1, <4>2, TestSays
    <3>2. CASE Shutdown
      <4>1. "abort" \notin {"plan"} /\ "abort" \notin {"failure"}
        OBVIOUS
      <4> QED BY <3>2, <4>1, ShutdownSays
    <3> QED BY <1>1, <3>1, <3>2
  <2>3. Says("abort")' <=> Says("abort")
    BY <2>2, Shown
  <2> QED BY <2>1, <2>3 DEF AbortInv
<1>2. CASE GivesUp
  <2>1. Says("abort")' /\ pc' = "exited" /\ exit' # 0
    BY <1>2, Shown DEF GivesUp
  <2> QED BY <2>1 DEF AbortInv
<1>3. CASE GoesOn
  <2>1. Says("abort")' <=> Says("abort")
    BY <1>3, Shown DEF GoesOn
  <2>2. pc' # "exited" => pc # "exited"
    <3>1. CASE Next
      BY <3>1, ExitedStays DEF vars
    <3>2. CASE UNCHANGED vars
      BY <3>2 DEF vars
    <3> QED BY <3>1, <3>2, DriverStep
  <2>3. pc' = "exited" /\ exit' # Killed =>
          /\ pc = "exited" => UNCHANGED <<exit, total_errors>>
          /\ pc # "exited" => exit' = total_errors' % ExitModulus
    BY <1>3 DEF GoesOn, EndsWell
  <2> QED BY <2>1, <2>2, <2>3 DEF AbortInv
<1> QED BY <1>1, <1>2, <1>3, StepSays

LEMMA OutputInit ==
  ASSUME ReportsInit PROVE out \in Seq(Lines) /\ OutputInv
<1>1. /\ out = <<>> /\ DOMAIN out = {} /\ pc = "start" /\ total_errors = 0
      /\ tests_ran = 0 /\ printed = <<>> /\ DOMAIN printed = {} /\ out \in Seq(Lines)
  BY EmptySeq DEF ReportsInit, Init
<1>2. TestLines = {} /\ Cardinality(TestLines) = 0 /\ \A kind : ~Says(kind)
  BY <1>1, FS_EmptySet DEF TestLines, Says
<1>3. CountedInv
  BY <1>1 DEF CountedInv
<1>4. VerdictLinesInv
  BY <1>1, <1>2 DEF VerdictLinesInv, InOrder
<1>5. EndingInv /\ AbortInv
  BY <1>1, <1>2 DEF EndingInv, Ended, AbortInv
<1> QED BY <1>1, <1>3, <1>4, <1>5 DEF OutputInv

LEMMA OutputStep ==
  ASSUME IInv, out \in Seq(Lines), OutputInv, [ReportsNext]_reportsVars PROVE OutputInv'
<1>1. CASE ReportsNext
  <2>1. VerdictLinesInv' /\ EndingInv' /\ AbortInv'
    BY <1>1, VerdictLinesStep, EndingStep, AbortInvStep DEF OutputInv
  <2>2. CountedInv'
    <3>1. CASE Next
      BY <3>1, CountedStep DEF OutputInv
    <3>2. CASE UNCHANGED vars
      BY <3>2 DEF OutputInv, CountedInv, Failed, vars, results
    <3> QED BY <1>1, <3>1, <3>2, DriverStep
  <2> QED BY <2>1, <2>2 DEF OutputInv
<1>2. CASE UNCHANGED reportsVars
  <2>1. UNCHANGED <<pc, exit, reports, total_errors, tests_ran, printed, format, out>>
    BY <1>2 DEF reportsVars, vars, results, output, options
  <2>2. CountedInv'
    BY <2>1 DEF OutputInv, CountedInv, Failed
  <2>3. TestLines' = TestLines /\ (\A kind : Says(kind)' <=> Says(kind)) /\ (Tap' <=> Tap)
    BY <2>1 DEF TestLines, Says, Tap
  <2>4. VerdictLinesInv'
    BY <2>1, <2>3 DEF OutputInv, VerdictLinesInv, InOrder
  <2>5. AbortInv' /\ EndingInv'
    BY <2>1, <2>3 DEF OutputInv, AbortInv, EndingInv, Ended, SomeFailure, Planned
  <2> QED BY <2>2, <2>4, <2>5 DEF OutputInv
<1> QED BY <1>1, <1>2

\* At each point, what has been printed is what the reports say.
THEOREM OutputIsOfReports == ReportsSpec => []OutputInv
<1> DEFINE I == out \in Seq(Lines) /\ OutputInv
<1>1. ReportsInit => I
  BY OutputInit
<1>2. ASSUME IInv, I, [ReportsNext]_reportsVars PROVE I'
  <2>1. out' \in Seq(Lines)
    BY <1>2, OutStep DEF reportsVars
  <2>2. OutputInv'
    BY <1>2, OutputStep
  <2> QED BY <2>1, <2>2
<1>3. I => OutputInv
  OBVIOUS
<1> HIDE DEF I
<1> QED BY <1>1, <1>2, <1>3, ReportsInvariance, PTL DEF ReportsSpec

\* The output and the exit status tell the same, in both formats, at every verbosity, and
\* whichever way the process ends, for any number of suites, tests, errors and faults; but
\* for a failed check that a skip hides and more errors than a status can count
\* (clar_print_ontest, clar_print_shutdown, abort_test, clar_abort).
THEOREM ReadersAgree == ReportsSpec => []ReaderAgrees
<1>1. ASSUME IInv, OutputInv PROVE ReaderAgrees
  <2> SUFFICES ASSUME pc = "exited", exit # Killed, total_errors < ExitModulus,
                      \A n \in DOMAIN reports : reports[n].status = "SKIP" => ~Failed(n)
               PROVE  (exit = 0) <=> SaysAllIsWell
    BY DEF ReaderAgrees
  <2>1. CASE Says("abort")
    BY <1>1, <2>1 DEF OutputInv, AbortInv, SaysAllIsWell
  <2>2. CASE ~Says("abort")
    <3>1. exit = total_errors
      <4>1. exit = total_errors % ExitModulus
        BY <1>1, <2>2 DEF OutputInv, AbortInv
      <4>2. total_errors \in Nat /\ ExitModulus \in Nat \ {0}
        BY <1>1, RunAssumption DEF IInv, TypeOK
      <4> QED BY <4>1, <4>2
    <3>2. SomeFailure <=> total_errors # 0
      <4>1. SomeFailure => total_errors # 0
        BY <1>1 DEF IInv, VerdictInv, SomeFailure
      <4>2. ASSUME total_errors # 0 PROVE SomeFailure
        <5>1. total_errors > 0
          BY <1>1, <4>2 DEF IInv, TypeOK
        <5>2. PICK n \in DOMAIN reports : Failed(n)
          BY <1>1, <5>1 DEF OutputInv, CountedInv
        <5>3. reports[n].status \in Statuses
          <6>1. reports[n] \in Report
            BY <1>1, LenProperties, ElementOfSeq DEF IInv, TypeOK
          <6> QED BY <6>1 DEF Report
        <5>4. reports[n].status \notin {"OK", "NOTRUN", "SKIP"}
          BY <1>1, <5>2 DEF IInv, VerdictInv
        <5>5. reports[n].status = "FAILURE"
          BY <5>3, <5>4 DEF Statuses
        <5> QED BY <5>5 DEF SomeFailure
      <4> QED BY <4>1, <4>2
    <3>3. IF Tap THEN Planned /\ (Says("not ok") <=> SomeFailure)
                 ELSE Says("failure") <=> SomeFailure
      BY <1>1, <2>2 DEF OutputInv, EndingInv, Ended
    <3>4. Tap => InOrder
      BY <1>1 DEF OutputInv, VerdictLinesInv
    <3> QED BY <2>2, <3>1, <3>2, <3>3, <3>4 DEF SaysAllIsWell
  <2> QED BY <2>1, <2>2
<1> QED BY <1>1, ReportsInvariance, OutputIsOfReports, PTL
--------------------------------------------------------------------------------
(* The summary: where the writer stands *)

\* Status 0 is only given at the very end, if a summary is wanted once it is written.
LEMMA ZeroIsReturned ==
  ASSUME ReportsNext, exit' = 0, exit # 0
  PROVE  Returns /\ (write_summary => writer = "written")
<1>1. CASE Returns
  BY <1>1 DEF Returns, At
<1>2. CASE WritesSummary
  <2>1. exit' = exit \/ exit' = Killed
    BY <1>2 DEF WritesSummary, SummarySteps, clar_summary_shutdown, WriteTestsuites,
       WriteTestsuite, WriteTestcase, WriteFailure, WriteSkipped, CloseTestcase,
       CloseTestsuite, CloseTestsuites, Fclose, FcloseOnError, FcloseTwiceCrashes, vars
  <2> QED BY <2>1 DEF Killed
<1>3. CASE Drives
  <2>1. exit' = exit \/ exit' \in {1, 255, Killed}
    <3>1. CASE Quietly
      BY <3>1 DEF Quietly, cl_set_cleanup, cl_invoke_enter, cl_invoke_leave, test_chdir,
         SkipSuite, BeginTest, EndSuite, QuitSuite, CreateSandbox, Setjmp,
         InitializeReturns, TestReturns, Landed, LocalCleanupReturns,
         ClearInvokepoint, CleanupReturns, SandboxCleanup, TempdirShutdown,
         TempdirShutdownCrashes, Exited, Exit, vars
    <3>2. CASE Aborts \/ AssertionFails
      <4>1. abort_test
        BY <3>2 DEF Aborts, AssertionFails, cl_assert, cl_skip, cl_fs_cleanup_asserts,
           CreateSandboxAsserts, SandboxCleanupAsserts, TempdirShutdownAsserts
      <4> QED BY <4>1 DEF abort_test, Exit
    <3>3. CASE ~Quietly /\ ~Aborts /\ ~AssertionFails
      BY <1>3, <3>3 DEF Drives, AssertionHolds, CheckFails, cl_check, Starts,
         clar_test_init, clar_test_init_aborts, clar_abort, Exit, PrintsSuite,
         BeginSuite, PrintsTest, EndTest, FsCleanupAborts, cl_fs_cleanup, Shutdown,
         EndRun, vars
    <3> QED BY <3>1, <3>2, <3>3
  <2> QED BY <2>1 DEF Killed
<1> QED BY <1>1, <1>2, <1>3 DEF ReportsNext

\* What the steps of the writer have in common.
LEMMA WriterStep ==
  ASSUME WritesSummary
  PROVE  /\ pc = "summary" /\ writer \notin {"written", "failed"}
         /\ UNCHANGED <<reports, options>>
         /\ FcloseTwiceCrashes \/ UNCHANGED vars
<1>1. pc = "summary" /\ writer \notin {"written", "failed"}
  BY DEF WritesSummary, At, clar_summary_shutdown, WriteTestsuites,
     WriteTestsuite, WriteTestcase, WriteFailure, WriteSkipped, CloseTestcase,
     CloseTestsuite, CloseTestsuites, Fclose, FcloseOnError, FcloseTwiceCrashes
<1>2. CASE FcloseTwiceCrashes
  BY <1>1, <1>2 DEF FcloseTwiceCrashes, Return, results, Meanwhile
<1>3. CASE ~FcloseTwiceCrashes
  BY <1>1, <1>3 DEF WritesSummary, SummarySteps, clar_summary_shutdown, WriteTestsuites,
     WriteTestsuite, WriteTestcase, WriteFailure, WriteSkipped, CloseTestcase,
     CloseTestsuite, CloseTestsuites, Fclose, FcloseOnError, vars, results
<1> QED BY <1>1, <1>2, <1>3

\* The reports the writer goes through.
WalkInv ==
  /\ writer \in {"idle", "testsuites"} => xml = <<>> /\ report = 1
  /\ writer \in {"testsuite", "testcase"} \cup InCase => report \in DOMAIN reports
  /\ writer = "failure" => error <= Len(reports[report].errors) + 1
  /\ writer = "/testsuite" => report - 1 \in DOMAIN reports
  /\ writer \in {"/testsuites", "fclose", "written"} => report = Len(reports) + 1

\* The writer goes through the reports one by one.
LEMMA WalkStep ==
  ASSUME TypeOK, SummaryTypeOK, WalkInv, WritesSummary PROVE WalkInv'
<1>1. /\ reports' = reports /\ reports \in Seq(Report) /\ Len(reports) \in Nat
      /\ DOMAIN reports = 1..Len(reports) /\ report \in Nat \ {0} /\ error \in Nat \ {0}
  BY WriterStep, LenProperties DEF TypeOK, SummaryTypeOK
<1>2. \A n \in DOMAIN reports : Len(reports[n].errors) \in Nat
  <2> TAKE n \in DOMAIN reports
  <2>1. reports[n] \in Report
    BY <1>1, ElementOfSeq
  <2> QED BY <2>1, LenProperties DEF Report
<1>3. CASE clar_summary_shutdown
  BY <1>3 DEF clar_summary_shutdown, WalkInv, At, InCase
<1>4. CASE WriteTestsuites
  <2>1. /\ writer' \in {"testsuite", "/testsuites", "on_error"} /\ report' = 1
        /\ writer' = "testsuite" => reports # <<>>
        /\ writer' = "/testsuites" => reports = <<>>
    BY <1>4 DEF WriteTestsuites, At, Write, WalkInv
  <2>2. reports # <<>> => 1 \in DOMAIN reports
    BY <1>1, EmptySeq
  <2>3. reports = <<>> => Len(reports) = 0
    OBVIOUS
  <2> QED BY <1>1, <2>1, <2>2, <2>3 DEF WalkInv, InCase
<1>5. CASE WriteTestsuite
  <2>1. writer = "testsuite" /\ writer' \in {"testcase", "on_error"} /\ report' = report
    BY <1>5 DEF WriteTestsuite, At, Write
  <2> QED BY <1>1, <2>1 DEF WalkInv, InCase
<1>6. CASE WriteTestcase
  <2>1. writer = "testcase" /\ writer' = "failure" /\ report' = report /\ error' = 1
    BY <1>6 DEF WriteTestcase, At, WriteUnchecked
  <2> QED BY <1>1, <1>2, <2>1 DEF WalkInv, InCase
<1>7. CASE WriteFailure
  <2>1. /\ writer = "failure" /\ report' = report
        /\ \/ /\ writer' = "failure" /\ error' = error + 1
              /\ error <= Len(reports[report].errors)
           \/ writer' \in {"skipped", "on_error"}
    BY <1>7 DEF WriteFailure, At, Write
  <2> QED BY <1>1, <1>2, <2>1 DEF WalkInv, InCase
<1>8. CASE WriteSkipped
  <2>1. writer = "skipped" /\ writer' = "/testcase" /\ report' = report
    BY <1>8 DEF WriteSkipped, At, WriteUnchecked
  <2> QED BY <1>1, <2>1 DEF WalkInv, InCase
<1>9. CASE CloseTestcase
  <2>1. writer = "/testcase" /\ writer' \in {"/testsuite", "on_error"} /\ report' = report + 1
    BY <1>9 DEF CloseTestcase, At, Write
  <2> QED BY <1>1, <2>1 DEF WalkInv, InCase
<1>10. CASE CloseTestsuite
  <2>1. /\ writer = "/testsuite" /\ report' = report
        /\ \/ writer' = "on_error"
           \/ writer' = IF report > Len(reports) THEN "/testsuites" ELSE "testsuite"
    BY <1>10 DEF CloseTestsuite, At, Write
  <2>2. report - 1 \in 1..Len(reports)
    BY <1>1, <2>1 DEF WalkInv
  <2>3. report > Len(reports) => report = Len(reports) + 1
    BY <1>1, <2>2
  <2>4. ~(report > Len(reports)) => report \in DOMAIN reports
    BY <1>1
  <2> QED BY <1>1, <2>1, <2>3, <2>4 DEF WalkInv, InCase
<1>11. CASE CloseTestsuites
  <2>1. writer = "/testsuites" /\ writer' \in {"fclose", "on_error"} /\ report' = report
    BY <1>11 DEF CloseTestsuites, At, Write
  <2> QED BY <1>1, <2>1 DEF WalkInv, InCase
<1>12. CASE Fclose
  <2>1. writer = "fclose" /\ writer' \in {"written", "fclose again"} /\ report' = report
    BY <1>12 DEF Fclose, At
  <2> QED BY <1>1, <2>1 DEF WalkInv, InCase
<1>13. CASE FcloseOnError
  <2>1. writer' = "failed"
    BY <1>13 DEF FcloseOnError
  <2> QED BY <2>1 DEF WalkInv, InCase
<1>14. CASE FcloseTwiceCrashes
  <2>1. writer = "fclose again" /\ writer' = writer
    BY <1>14 DEF FcloseTwiceCrashes, Meanwhile, summary, At
  <2> QED BY <2>1 DEF WalkInv, InCase
<1> QED BY <1>3, <1>4, <1>5, <1>6, <1>7, <1>8, <1>9, <1>10, <1>11, <1>12, <1>13, <1>14
        DEF WritesSummary

LEMMA PlacesStep ==
  ASSUME IInv, SummaryTypeOK, PlaceInv, [ReportsNext]_reportsVars PROVE PlaceInv'
<1>1. WalkInv
  BY DEF PlaceInv, WalkInv
<1>2. CASE WritesSummary /\ ReportsNext
  <2>1. WalkInv'
    BY <1>1, <1>2, WalkStep DEF IInv
  <2>2. pc' \in {"summary", "exited"}
    BY <1>2, WriterStep, Settles
  <2>3. ~(exit' = 0 /\ write_summary')
    <3>1. exit # 0
      BY <1>2, WriterStep DEF IInv, ExitInv, Running
    <3>2. writer # "written" /\ write_summary' = write_summary
      BY <1>2, WriterStep DEF options
    <3> QED BY <1>2, <3>1, <3>2, ZeroIsReturned
  <2> QED BY <2>1, <2>2, <2>3 DEF PlaceInv, WalkInv
<1>3. CASE ~WritesSummary /\ ReportsNext
  <2>1. UNCHANGED <<options, summary>>
    BY <1>3, SummaryStays
  <2>2. writer # "idle" => pc' \in {"summary", "exited"} /\ reports' = reports
    BY <1>3, Settles DEF PlaceInv
  <2>3. WalkInv'
    BY <1>1, <2>1, <2>2 DEF WalkInv, summary, InCase
  <2>4. exit' = 0 /\ write_summary => writer = "written"
    BY <1>3, ZeroIsReturned DEF PlaceInv
  <2> QED BY <2>1, <2>2, <2>3, <2>4 DEF PlaceInv, WalkInv, summary, options
<1>4. CASE UNCHANGED reportsVars
  <2>1. UNCHANGED <<pc, exit, reports, options, summary>>
    BY <1>4 DEF reportsVars, vars, results
  <2> QED BY <2>1 DEF PlaceInv, summary, options
<1> QED BY <1>2, <1>3, <1>4
--------------------------------------------------------------------------------
(* The summary: the elements *)

\* What a report has in its element.
LEMMA CaseBodyIs ==
  ASSUME TypeOK, NEW n \in DOMAIN reports
  PROVE  LET m == Len(reports[n].errors)
         IN /\ m \in Nat /\ n \in Nat /\ CaseBody(n) \in Seq(XmlElement)
            /\ Len(CaseBody(n)) = IF reports[n].status = "SKIP" THEN m + 1 ELSE m
            /\ \A k \in 1..m : CaseBody(n)[k] = Element("failure", n, k)
            /\ reports[n].status = "SKIP" => CaseBody(n)[m + 1] = Element("skipped", n, 0)
<1> DEFINE m == Len(reports[n].errors)
           a == [k \in 1..m |-> Element("failure", n, k)]
           b == IF reports[n].status = "SKIP" THEN <<Element("skipped", n, 0)>> ELSE <<>>
<1>1. m \in Nat /\ n \in Nat
  <2>1. reports[n] \in Report /\ n \in 1..Len(reports)
    BY LenProperties, ElementOfSeq DEF TypeOK
  <2> QED BY <2>1, LenProperties DEF Report
<1> HIDE DEF m
<1>2. \A k \in 1..m : Element("failure", n, k) \in XmlElement
  BY <1>1 DEF Element, XmlElement, Elements
<1>3. a \in Seq(XmlElement) /\ Len(a) = m /\ \A k \in 1..m : a[k] = Element("failure", n, k)
  BY <1>1, <1>2
<1>4. Element("skipped", n, 0) \in XmlElement
  BY <1>1 DEF Element, XmlElement, Elements
<1>5. /\ b \in Seq(XmlElement)
      /\ Len(b) = IF reports[n].status = "SKIP" THEN 1 ELSE 0
      /\ reports[n].status = "SKIP" => b[1] = Element("skipped", n, 0)
  BY <1>4, SingleLine, EmptySeq
<1>6. CaseBody(n) = a \o b
  BY DEF CaseBody, m
<1> HIDE DEF a, b
<1>7. /\ a \o b \in Seq(XmlElement) /\ Len(a \o b) = Len(a) + Len(b)
      /\ \A i \in 1..Len(a) + Len(b) : (a \o b)[i] = IF i <= Len(a) THEN a[i] ELSE b[i - Len(a)]
  BY <1>3, <1>5, ConcatProperties
<1>8. \A k \in 1..m : (a \o b)[k] = Element("failure", n, k)
  BY <1>1, <1>3, <1>5, <1>7
<1>9. reports[n].status = "SKIP" => (a \o b)[m + 1] = Element("skipped", n, 0)
  BY <1>1, <1>3, <1>5, <1>7
<1>10. Len(a \o b) = IF reports[n].status = "SKIP" THEN m + 1 ELSE m
  BY <1>1, <1>3, <1>5, <1>7
<1>11. /\ m \in Nat /\ n \in Nat /\ CaseBody(n) \in Seq(XmlElement)
       /\ Len(CaseBody(n)) = IF reports[n].status = "SKIP" THEN m + 1 ELSE m
       /\ \A k \in 1..m : CaseBody(n)[k] = Element("failure", n, k)
       /\ reports[n].status = "SKIP" => CaseBody(n)[m + 1] = Element("skipped", n, 0)
  BY <1>1, <1>6, <1>7, <1>8, <1>9, <1>10
<1> QED BY <1>11 DEF m

\* How many elements of a name there are up to a place.
Count(name, k) == Cardinality({i \in 1..k : xml[i].name = name})

LEMMA CountIs ==
  ASSUME NEW name, NEW k \in Nat
  PROVE  Count(name, k) \in Nat /\ IsFiniteSet({i \in 1..k : xml[i].name = name})
<1> DEFINE T == {i \in 1..k : xml[i].name = name}
<1>1. IsFiniteSet(1..k) /\ T \subseteq 1..k
  BY FS_Interval
<1> HIDE DEF T
<1>2. IsFiniteSet(T) /\ Cardinality(T) \in Nat
  BY <1>1, FS_Subset, FS_CardinalityType
<1> QED BY <1>2 DEF T, Count

\* An element is added, and what there was stays.
Grows(e) == e \in XmlElement /\ xml' = Append(xml, e) /\ reports' = reports

LEMMA Grown ==
  ASSUME xml \in Seq(XmlElement), NEW e, Grows(e)
  PROVE  /\ Len(xml') = Len(xml) + 1 /\ Len(xml) \in Nat
         /\ DOMAIN xml = 1..Len(xml) /\ DOMAIN xml' = 1..(Len(xml) + 1)
         /\ \A k \in 1..Len(xml) : xml'[k] = xml[k] /\ k \in 1..(Len(xml) + 1)
         /\ xml'[Len(xml) + 1] = e /\ Len(xml) + 1 \in DOMAIN xml'
         /\ \A k \in DOMAIN xml' : k \in 1..Len(xml) \/ k = Len(xml) + 1
<1>1. /\ xml' \in Seq(XmlElement) /\ Len(xml') = Len(xml) + 1 /\ Len(xml) \in Nat
      /\ DOMAIN xml = 1..Len(xml) /\ DOMAIN xml' = 1..(Len(xml) + 1)
      /\ \A k \in 1..Len(xml) : xml'[k] = xml[k]
      /\ xml'[Len(xml) + 1] = e
  BY Appended DEF Grows
<1> QED BY <1>1

LEMMA CountGrown ==
  ASSUME xml \in Seq(XmlElement), NEW e, Grows(e), NEW name, NEW new, new = Len(xml) + 1
  PROVE  /\ \A k \in 0..Len(xml) : Count(name, k)' = Count(name, k)
         /\ e.name = name => Count(name, new)' = Count(name, Len(xml)) + 1
         /\ e.name # name => Count(name, new)' = Count(name, Len(xml))
<1> DEFINE T == {i \in 1..Len(xml) : xml[i].name = name}
           U == {i \in 1..new : xml'[i].name = name}
<1>1. /\ Len(xml) \in Nat /\ xml'[new] = e
      /\ \A k \in 1..Len(xml) : xml'[k] = xml[k]
  BY Grown
<1>2. ASSUME NEW k \in 0..Len(xml)
      PROVE  {i \in 1..k : xml'[i].name = name} = {i \in 1..k : xml[i].name = name}
  BY <1>1
<1>3. \A k \in 0..Len(xml) : Count(name, k)' = Count(name, k)
  BY <1>2 DEF Count
<1>4. IsFiniteSet(T) /\ Cardinality(T) \in Nat
  BY <1>1, CountIs DEF Count
<1>5. U = IF e.name = name THEN T \cup {new} ELSE T
  BY <1>1
<1>6. new \notin T
  BY <1>1
<1>7. Count(name, new)' = Cardinality(U) /\ Count(name, Len(xml)) = Cardinality(T)
  BY DEF Count
<1> HIDE DEF T, U
<1>8. Cardinality(T \cup {new}) = Cardinality(T) + 1
  BY <1>4, <1>6, FS_AddElement
<1> QED BY <1>3, <1>5, <1>7, <1>8

\* The depth of the nesting follows the element that is added.
LEMMA OpenGrown ==
  ASSUME xml \in Seq(XmlElement), NEW e, Grows(e), NEW new, new = Len(xml) + 1
  PROVE  /\ \A k \in 0..Len(xml) : OpenBefore(k)' = OpenBefore(k)
         /\ OpenBefore(new)' =
              OpenBefore(Len(xml)) + (IF e.name = "testsuite" THEN 1
                                      ELSE IF e.name = "/testsuite" THEN -1 ELSE 0)
<1>1. Len(xml) \in Nat
  BY Grown
<1>2. Count("testsuite", Len(xml)) \in Nat /\ Count("/testsuite", Len(xml)) \in Nat
  BY <1>1, CountIs
<1>3. /\ \A k : OpenBefore(k) = Count("testsuite", k) - Count("/testsuite", k)
      /\ \A k : OpenBefore(k)' = Count("testsuite", k)' - Count("/testsuite", k)'
  BY DEF OpenBefore, Count
<1>4. /\ \A k \in 0..Len(xml) : /\ Count("testsuite", k)' = Count("testsuite", k)
                                /\ Count("/testsuite", k)' = Count("/testsuite", k)
      /\ Count("testsuite", new)' =
           IF e.name = "testsuite" THEN Count("testsuite", Len(xml)) + 1
                                   ELSE Count("testsuite", Len(xml))
      /\ Count("/testsuite", new)' =
           IF e.name = "/testsuite" THEN Count("/testsuite", Len(xml)) + 1
                                    ELSE Count("/testsuite", Len(xml))
  BY CountGrown
<1>5. e.name = "testsuite" => e.name # "/testsuite"
  OBVIOUS
<1>6. \A k \in 0..Len(xml) : OpenBefore(k)' = OpenBefore(k)
  BY <1>3, <1>4
<1> QED BY <1>2, <1>3, <1>4, <1>5, <1>6

\* The order of the elements of one name.
LEMMA OrderGrown ==
  ASSUME xml \in Seq(XmlElement), NEW e, Grows(e), NEW name, NEW upto \in Nat,
         OnceInOrder(name, upto)
  PROVE  /\ e.name # name => OnceInOrder(name, upto)'
         /\ \A more : e.name = name /\ e.test = more /\ more = upto + 1 /\ e.error = 0 =>
                       OnceInOrder(name, more)'
<1> DEFINE new == Len(xml) + 1
<1>1. /\ Len(xml) \in Nat /\ DOMAIN xml = 1..Len(xml)
      /\ \A k \in 1..Len(xml) : xml'[k] = xml[k] /\ k < new
      /\ xml'[new] = e /\ \A k \in DOMAIN xml' : k \in 1..Len(xml) \/ k = new
  BY Grown
<1>2. /\ \A k \in DOMAIN xml : xml[k].name = name =>
                                 xml[k].test \in 1..upto /\ xml[k].error = 0
      /\ \A k, l \in DOMAIN xml : xml[k].name = name /\ xml[l].name = name /\ k < l =>
                                    xml[k].test < xml[l].test
  BY DEF OnceInOrder
<1>3. ~(new < new) /\ \A k \in 1..Len(xml) : ~(new < k)
  BY <1>1
<1> HIDE DEF new
<1>4. ASSUME e.name # name PROVE OnceInOrder(name, upto)'
  BY <1>1, <1>2, <1>4 DEF OnceInOrder
<1>5. ASSUME NEW more, e.name = name, e.test = more, more = upto + 1, e.error = 0
      PROVE  OnceInOrder(name, more)'
  <2>1. \A k \in DOMAIN xml' : xml'[k].name = name =>
                                 xml'[k].test \in 1..more /\ xml'[k].error = 0
    BY <1>1, <1>2, <1>5
  <2>2. \A k \in 1..Len(xml) : xml'[k].name = name => xml'[k].test < xml'[new].test
    BY <1>1, <1>2, <1>5
  <2>3. \A k, l \in DOMAIN xml' : xml'[k].name = name /\ xml'[l].name = name /\ k < l =>
                                    xml'[k].test < xml'[l].test
    BY <1>1, <1>2, <1>3, <2>2
  <2> QED BY <2>1, <2>3 DEF OnceInOrder
<1> QED BY <1>4, <1>5

\* The suites, the bodies and the names do not change with the elements.
LEMMA SameBodies ==
  ASSUME reports' = reports
  PROVE  \A n : /\ CaseBody(n)' = CaseBody(n) /\ Suite_(n)' = Suite_(n)
                /\ (OpensSuite(n)' <=> OpensSuite(n))
BY DEF CaseBody, Suite_, OpensSuite

NoSuite(e) == e.name \notin {"testsuite", "/testsuite"}

LEMMA SuiteGrown ==
  ASSUME xml \in Seq(XmlElement), NEW e, Grows(e), NEW open \in DOMAIN xml, NEW n,
         NEW upto \in Nat, upto <= Len(xml), InSuiteFrom(open, n, upto)
  PROVE  /\ InSuiteFrom(open, n, upto)'
         /\ \A new : new = Len(xml) + 1 /\ upto = Len(xml) /\ NoSuite(e) =>
                       InSuiteFrom(open, n, new)'
<1>1. /\ Len(xml) \in Nat /\ DOMAIN xml = 1..Len(xml) /\ xml'[Len(xml) + 1] = e
      /\ \A k \in 1..Len(xml) : xml'[k] = xml[k]
  BY Grown
<1>2. /\ xml'[open].name = "testsuite"
      /\ SuiteNames[reports'[xml'[open].test].suite] = SuiteNames[reports'[n].suite]
      /\ \A i \in (open + 1)..upto : xml'[i].name \notin {"testsuite", "/testsuite"}
  <2>1. \A i \in (open + 1)..upto : i \in 1..Len(xml)
    BY <1>1
  <2>2. xml'[open] = xml[open] /\ reports' = reports
    BY <1>1 DEF Grows
  <2> QED BY <1>1, <2>1, <2>2 DEF InSuiteFrom, Suite_
<1>3. InSuiteFrom(open, n, upto)'
  BY <1>2 DEF InSuiteFrom, Suite_
<1>4. ASSUME NEW new, new = Len(xml) + 1, upto = Len(xml), NoSuite(e)
      PROVE  InSuiteFrom(open, n, new)'
  <2>1. \A i \in (open + 1)..new : i \in (open + 1)..upto \/ i = new
    BY <1>1, <1>4
  <2>2. \A i \in (open + 1)..new : xml'[i].name \notin {"testsuite", "/testsuite"}
    BY <1>1, <1>2, <1>4, <2>1 DEF NoSuite
  <2> QED BY <1>2, <2>2 DEF InSuiteFrom, Suite_
<1> QED BY <1>3, <1>4

LEMMA CaseGrown ==
  ASSUME xml \in Seq(XmlElement), NEW e, Grows(e), NEW n,
         NEW open \in DOMAIN xml, NEW first \in DOMAIN xml, NEW length \in Nat,
         first + length <= Len(xml), CaseUpto(n, open, first, length)
  PROVE  /\ CaseUpto(n, open, first, length)'
         /\ \A more : /\ more = length + 1 /\ first + length = Len(xml) /\ NoSuite(e)
                      /\ e = CaseBody(n)[more]
                      => CaseUpto(n, open, first, more)'
<1>1. /\ Len(xml) \in Nat /\ DOMAIN xml = 1..Len(xml) /\ xml'[Len(xml) + 1] = e
      /\ \A k \in 1..Len(xml) : xml'[k] = xml[k]
  BY Grown
<1>2. CaseBody(n)' = CaseBody(n)
  BY SameBodies DEF Grows
<1>3. /\ open < first /\ InSuiteFrom(open, n, first + length)
      /\ xml[first] = Element("testcase", n, 0)
      /\ \A j \in 1..length : xml[first + j] = CaseBody(n)[j]
  BY DEF CaseUpto
<1>4. \A j \in 1..length : first + j \in 1..Len(xml)
  BY <1>1
<1>5. /\ xml'[first] = Element("testcase", n, 0)
      /\ \A j \in 1..length : xml'[first + j] = CaseBody(n)[j]
  BY <1>1, <1>3, <1>4
<1>6. first + length \in Nat
  BY <1>1
<1>7. CaseUpto(n, open, first, length)'
  <2>1. InSuiteFrom(open, n, first + length)'
    BY <1>3, <1>6, SuiteGrown
  <2> QED BY <1>2, <1>3, <1>5, <2>1 DEF CaseUpto
<1>8. ASSUME NEW more, more = length + 1, first + length = Len(xml), NoSuite(e),
             e = CaseBody(n)[more]
      PROVE  CaseUpto(n, open, first, more)'
  <2>1. first + more = Len(xml) + 1
    BY <1>1, <1>8
  <2>2. InSuiteFrom(open, n, first + more)'
    BY <1>3, <1>6, <1>8, <2>1, SuiteGrown
  <2>3. \A j \in 1..more : j \in 1..length \/ j = more
    BY <1>8
  <2>4. \A j \in 1..more : xml'[first + j] = CaseBody(n)[j]
    BY <1>1, <1>5, <1>8, <2>1, <2>3
  <2> QED BY <1>2, <1>3, <1>5, <2>2, <2>4 DEF CaseUpto
<1> QED BY <1>7, <1>8

LEMMA CompleteGrown ==
  ASSUME TypeOK, xml \in Seq(XmlElement), NEW e, Grows(e),
         NEW n \in DOMAIN reports, CompleteCase(n)
  PROVE  CompleteCase(n)'
<1>1. PICK length \in Nat : length = Len(CaseBody(n)) /\ length = Len(CaseBody(n)')
  BY CaseBodyIs, SameBodies DEF Grows
<1>2. PICK open, first \in DOMAIN xml :
        /\ first + length + 1 \in DOMAIN xml
        /\ CaseUpto(n, open, first, length)
        /\ xml[first + length + 1] = Element("/testcase", n, 0)
  BY <1>1 DEF CompleteCase
<1>3. /\ Len(xml) \in Nat /\ DOMAIN xml = 1..Len(xml)
      /\ \A k \in DOMAIN xml : xml'[k] = xml[k] /\ k \in DOMAIN xml'
  BY Grown
<1>4. first + length <= Len(xml)
  BY <1>1, <1>2, <1>3
<1>5. CaseUpto(n, open, first, length)'
  BY <1>1, <1>2, <1>4, CaseGrown
<1>6. /\ open \in DOMAIN xml' /\ first \in DOMAIN xml' /\ first + length + 1 \in DOMAIN xml'
      /\ xml'[first + length + 1] = Element("/testcase", n, 0)
  BY <1>2, <1>3
<1> QED BY <1>1, <1>5, <1>6 DEF CompleteCase
--------------------------------------------------------------------------------
(* The summary: the parts of the invariant, after a step *)

\* The elements nest, and at the end so many suites are open.
Nested(d) ==
  /\ \A k \in DOMAIN xml : OpenBefore(k) \in {0, 1}
  /\ OpenBefore(Len(xml)) = d

LEMMA NestedGrown ==
  ASSUME xml \in Seq(XmlElement), NEW e, Grows(e), NEW d, NEW after \in {0, 1}, Nested(d),
         after = d + (IF e.name = "testsuite" THEN 1
                      ELSE IF e.name = "/testsuite" THEN -1 ELSE 0)
  PROVE  Nested(after)'
<1>1. /\ Len(xml) \in Nat /\ Len(xml') = Len(xml) + 1 /\ DOMAIN xml = 1..Len(xml)
      /\ \A k \in DOMAIN xml' : k \in 1..Len(xml) \/ k = Len(xml) + 1
  BY Grown
<1>2. PICK new : new = Len(xml) + 1
  OBVIOUS
<1>3. /\ \A k \in 0..Len(xml) : OpenBefore(k)' = OpenBefore(k)
      /\ OpenBefore(new)' =
           OpenBefore(Len(xml)) + (IF e.name = "testsuite" THEN 1
                                   ELSE IF e.name = "/testsuite" THEN -1 ELSE 0)
  BY <1>2, OpenGrown
<1>4. OpenBefore(new)' = after
  BY <1>3 DEF Nested
<1>5. \A k \in DOMAIN xml' : OpenBefore(k)' \in {0, 1}
  <2> TAKE k \in DOMAIN xml'
  <2>1. CASE k \in 1..Len(xml)
    <3>1. k \in 0..Len(xml) /\ k \in DOMAIN xml
      BY <1>1, <2>1
    <3> QED BY <1>3, <3>1 DEF Nested
  <2>2. CASE k = Len(xml) + 1
    BY <1>2, <1>4, <2>2
  <2> QED BY <1>1, <2>1, <2>2
<1>6. Len(xml') = new
  BY <1>1, <1>2
<1>7. OpenBefore(Len(xml))' = after
  BY <1>4, <1>6 DEF OpenBefore
<1> QED BY <1>5, <1>7 DEF Nested

LEMMA OrderNext ==
  ASSUME NEW a, NEW b, OnceInOrder("testcase", a)', OnceInOrder("/testcase", b)',
         a = IF writer' \in InCase THEN report' ELSE report' - 1, b = report' - 1
  PROVE  OrderInv'
BY DEF OrderInv, OnceInOrder

LEMMA SuiteNext ==
  ASSUME NEW open, NEW n, NEW upto, open \in DOMAIN xml', InSuiteFrom(open, n, upto)',
         n = SuiteOf', upto = Len(xml')
  PROVE  SuiteInv'
BY DEF SuiteInv, InSuiteFrom, Suite_

LEMMA CurrentNext ==
  ASSUME NEW open, NEW first, NEW n, NEW length, open \in DOMAIN xml', first \in DOMAIN xml',
         CaseUpto(n, open, first, length)', n = report', length = Len(xml') - first,
         \/ writer' = "failure" /\ length = error' - 1
         \/ writer' = "skipped" /\ length = Len(reports'[n].errors)
         \/ writer' = "/testcase" /\ length = Len(CaseBody(n)')
  PROVE  CurrentCase'
<1>1. /\ open < first /\ xml'[open].name = "testsuite"
      /\ SuiteNames[reports'[xml'[open].test].suite] = SuiteNames[reports'[report'].suite]
      /\ \A i \in (open + 1)..(first + (Len(xml') - first)) :
           xml'[i].name \notin {"testsuite", "/testsuite"}
      /\ xml'[first] = Element("testcase", report', 0)
  BY DEF CaseUpto, InSuiteFrom, Suite_
<1>2. \A j \in 1..(Len(xml') - first) : xml'[first + j] = CaseBody(report)'[j]
  <2>1. CaseBody(report)' = CaseBody(n)'
    BY DEF CaseBody
  <2> QED BY <2>1 DEF CaseUpto
<1>3. Len(xml') - first = CASE writer' = "failure"   -> error' - 1
                            [] writer' = "skipped"   -> Len(reports'[report'].errors)
                            [] writer' = "/testcase" -> Len(CaseBody(report)')
  <2>1. CaseBody(report)' = CaseBody(n)'
    BY DEF CaseBody
  <2> QED BY <2>1
<1> QED BY <1>1, <1>2, <1>3 DEF CurrentCase, CaseUpto, InSuiteFrom, Suite_

LEMMA NestingNext ==
  ASSUME NEW d, Nested(d)', d = IF SuiteIsOpen' THEN 1 ELSE 0
  PROVE  NestingInv'
BY DEF NestingInv, Nested

\* Where nothing is written, all stays as it is.
LEMMA NotGrown ==
  ASSUME xml' = xml, reports' = reports
  PROVE  /\ \A name, upto : OnceInOrder(name, upto)' <=> OnceInOrder(name, upto)
         /\ \A open, n, upto : InSuiteFrom(open, n, upto)' <=> InSuiteFrom(open, n, upto)
         /\ \A n, open, first, length :
              CaseUpto(n, open, first, length)' <=> CaseUpto(n, open, first, length)
         /\ \A n : CompleteCase(n)' <=> CompleteCase(n)
         /\ \A d : Nested(d)' <=> Nested(d)
BY DEF OnceInOrder, InSuiteFrom, CaseUpto, CompleteCase, Nested, OpenBefore, Suite_, CaseBody
--------------------------------------------------------------------------------
(* The summary: the steps of the writer *)

SummaryOK == TypeOK /\ SummaryTypeOK /\ WalkInv /\ SummaryInv

\* What is there before a step that writes or passes an element.
LEMMA PartsBefore ==
  ASSUME SummaryOK, writer \in Writing, ~lost
  PROVE  /\ EndsInv /\ OrderInv /\ SuiteInv /\ NestingInv /\ xml \in Seq(XmlElement)
         /\ \A n \in 1..(report - 1) : CompleteCase(n)
         /\ writer \in InCase => CurrentCase
         /\ Nested(IF SuiteIsOpen THEN 1 ELSE 0)
         /\ Len(xml) \in Nat \ {0} /\ DOMAIN xml = 1..Len(xml)
<1>1. /\ EndsInv /\ OrderInv /\ SuiteInv /\ NestingInv /\ xml \in Seq(XmlElement)
      /\ \A n \in 1..(report - 1) : CompleteCase(n)
      /\ writer \in InCase => CurrentCase
  BY DEF SummaryOK, SummaryInv, SummaryTypeOK
<1>2. xml # <<>>
  BY <1>1 DEF EndsInv
<1> QED BY <1>1, <1>2, EmptySeq, LenProperties DEF Nested, NestingInv

\* What an element says.
LEMMA ElementIs ==
  ASSUME NEW name \in Elements, NEW n \in Nat, NEW k \in Nat
  PROVE  /\ Element(name, n, k) \in XmlElement
         /\ Element(name, n, k).name = name
         /\ Element(name, n, k).test = n /\ Element(name, n, k).error = k
BY DEF Element, XmlElement

\* The reports up to this one keep their elements, and the first element stays.
LEMMA GrowthKeeps ==
  ASSUME SummaryOK, writer \in Writing, ~lost, NEW e, Grows(e),
         report - 1 <= Len(reports)
  PROVE  /\ xml' # <<>> /\ xml'[1].name = "testsuites"
         /\ \A n \in 1..(report - 1) : CompleteCase(n)'
<1>1. /\ EndsInv /\ xml \in Seq(XmlElement) /\ Len(xml) \in Nat \ {0}
      /\ \A n \in 1..(report - 1) : CompleteCase(n)
  BY PartsBefore
<1>2. xml' # <<>> /\ xml'[1].name = "testsuites"
  <2>1. 1 \in 1..Len(xml) /\ xml'[1] = xml[1] /\ DOMAIN xml' = 1..(Len(xml) + 1)
    BY <1>1, Grown
  <2>2. 1 \in DOMAIN xml'
    BY <1>1, <2>1
  <2> QED BY <1>1, <2>1, <2>2 DEF EndsInv
<1>3. \A n \in 1..(report - 1) : n \in DOMAIN reports
  BY LenProperties DEF SummaryOK, TypeOK, SummaryTypeOK
<1> QED BY <1>1, <1>2, <1>3, CompleteGrown DEF SummaryOK

\* An element inside a suite.
LEMMA InsideGrown ==
  ASSUME SummaryOK, writer \in Writing, ~lost, NEW e, Grows(e), NoSuite(e),
         SuiteIsOpen, SuiteIsOpen', SuiteOf' = SuiteOf
  PROVE  SuiteInv' /\ NestingInv'
<1>1. /\ SuiteInv /\ Nested(1) /\ xml \in Seq(XmlElement) /\ Len(xml) \in Nat
  BY PartsBefore
<1>2. PICK open, n, upto :
        /\ open \in DOMAIN xml /\ n = SuiteOf /\ upto = Len(xml)
        /\ InSuiteFrom(open, n, upto)
  BY <1>1 DEF SuiteInv
<1>3. PICK new : new = Len(xml) + 1
  OBVIOUS
<1>4. InSuiteFrom(open, n, new)'
  BY <1>1, <1>2, <1>3, SuiteGrown
<1>5. open \in DOMAIN xml' /\ new = Len(xml')
  BY <1>1, <1>2, <1>3, Grown
<1>6. SuiteInv'
  BY <1>2, <1>4, <1>5, SuiteNext
<1>7. Nested(1)'
  BY <1>1, NestedGrown DEF NoSuite
<1> QED BY <1>6, <1>7, NestingNext

\* Nothing new inside a suite, or one more report in the same.
LEMMA InsideSame ==
  ASSUME SummaryOK, writer \in Writing, ~lost, xml' = xml, reports' = reports,
         SuiteIsOpen, SuiteIsOpen', Suite_(SuiteOf) = SuiteNames[reports[SuiteOf'].suite]
  PROVE  SuiteInv' /\ NestingInv'
<1>1. SuiteInv /\ Nested(1)
  BY PartsBefore
<1>2. PICK open, n, upto :
        /\ open \in DOMAIN xml /\ n = SuiteOf /\ upto = Len(xml)
        /\ InSuiteFrom(open, n, upto)
  BY <1>1 DEF SuiteInv
<1>3. PICK m : m = SuiteOf'
  OBVIOUS
<1>4. InSuiteFrom(open, m, upto)
  BY <1>2, <1>3 DEF InSuiteFrom, Suite_
<1>5. InSuiteFrom(open, m, upto)' /\ Nested(1)'
  BY <1>1, <1>4, NotGrown
<1>6. SuiteInv'
  BY <1>2, <1>3, <1>5, SuiteNext
<1> QED BY <1>5, <1>6, NestingNext

\* The first element is written (cl_summary_open_testsuites).
LEMMA TestsuitesStep ==
  ASSUME SummaryOK, WriteTestsuites PROVE SummaryInv'
<1> SUFFICES ASSUME writer' \in Writing, ~lost' PROVE SummaryInv'
  BY DEF SummaryInv
<1>1. /\ writer = "testsuites" /\ report' = report /\ reports' = reports
      /\ writer' = IF reports = <<>> THEN "/testsuites" ELSE "testsuite"
      /\ xml' = Append(xml, Element("testsuites", 0, 0))
  BY DEF WriteTestsuites, At, Write, SummarySteps, vars, results, Writing, InCase
<1>2. xml = <<>> /\ report = 1 /\ DOMAIN xml = {} /\ Len(xml) = 0 /\ xml \in Seq(XmlElement)
  BY <1>1, EmptySeq DEF SummaryOK, WalkInv
<1>3. PICK e \in XmlElement : e = Element("testsuites", 0, 0) /\ e.name = "testsuites"
  <2>1. "testsuites" \in Elements
    BY DEF Elements
  <2> QED BY <2>1, ElementIs
<1>4. Grows(e)
  BY <1>1, <1>3 DEF Grows
<1>5. EndsInv'
  <2>1. xml'[1] = e /\ 1 \in DOMAIN xml'
    BY <1>2, <1>4, Grown
  <2>2. xml' # <<>> /\ writer' \notin {"fclose", "written"}
    BY <1>1, <2>1
  <2> QED BY <1>3, <2>1, <2>2 DEF EndsInv
<1>6. OrderInv'
  <2>1. OnceInOrder("testcase", 0) /\ OnceInOrder("/testcase", 0)
    BY <1>2 DEF OnceInOrder
  <2>2. OnceInOrder("testcase", 0)' /\ OnceInOrder("/testcase", 0)'
    BY <1>2, <1>3, <1>4, <2>1, OrderGrown
  <2>3. writer' \notin InCase
    BY <1>1 DEF InCase
  <2> QED BY <1>1, <1>2, <2>2, <2>3, OrderNext
<1>7. ~SuiteIsOpen'
  BY <1>1, <1>2 DEF SuiteIsOpen, OpensSuite, InCase
<1>8. NestingInv'
  <2>1. Nested(0)
    <3>1. {i \in 1..Len(xml) : xml[i].name = "testsuite"} = {}
      BY <1>2
    <3>2. {i \in 1..Len(xml) : xml[i].name = "/testsuite"} = {}
      BY <1>2
    <3> QED BY <1>2, <3>1, <3>2, FS_EmptySet DEF Nested, OpenBefore
  <2>2. Nested(0)'
    BY <1>2, <1>3, <1>4, <2>1, NestedGrown
  <2> QED BY <1>7, <2>2, NestingNext
<1>9. SuiteInv'
  BY <1>7 DEF SuiteInv
<1>10. writer' \notin InCase /\ 1..(report' - 1) = {}
  BY <1>1, <1>2 DEF InCase
<1> QED BY <1>5, <1>6, <1>8, <1>9, <1>10 DEF SummaryInv

\* The order of the cases, where another element is written.
LEMMA OrderKept ==
  ASSUME SummaryOK, writer \in Writing, ~lost, NEW e, Grows(e),
         e.name \notin {"testcase", "/testcase"}, report' = report,
         writer' \in InCase <=> writer \in InCase
  PROVE  OrderInv'
<1>1. OrderInv /\ xml \in Seq(XmlElement)
  BY PartsBefore
<1>2. PICK a, b : a = (IF writer \in InCase THEN report ELSE report - 1) /\ b = report - 1
  OBVIOUS
<1>3. a \in Nat /\ b \in Nat
  BY <1>2 DEF SummaryOK, SummaryTypeOK
<1>4. OnceInOrder("testcase", a) /\ OnceInOrder("/testcase", b)
  BY <1>1, <1>2 DEF OrderInv
<1>5. OnceInOrder("testcase", a)' /\ OnceInOrder("/testcase", b)'
  BY <1>1, <1>3, <1>4, OrderGrown
<1>6. a = (IF writer' \in InCase THEN report' ELSE report' - 1) /\ b = report' - 1
  BY <1>2
<1> QED BY <1>5, <1>6, OrderNext

\* A step that writes nothing and stays at its report.
LEMMA SameKeeps ==
  ASSUME SummaryOK, writer \in Writing, ~lost, xml' = xml, reports' = reports,
         report' = report, writer' \in InCase <=> writer \in InCase,
         writer' \notin {"fclose", "written"} \/ writer = "fclose"
  PROVE  /\ EndsInv' /\ OrderInv'
         /\ \A n \in 1..(report' - 1) : CompleteCase(n)'
<1>1. /\ EndsInv /\ OrderInv
      /\ \A n \in 1..(report - 1) : CompleteCase(n)
  BY PartsBefore
<1>2. EndsInv'
  BY <1>1 DEF EndsInv
<1>3. PICK a, b : a = (IF writer \in InCase THEN report ELSE report - 1) /\ b = report - 1
  OBVIOUS
<1>4. OnceInOrder("testcase", a) /\ OnceInOrder("/testcase", b)
  BY <1>1, <1>3 DEF OrderInv
<1>5. OnceInOrder("testcase", a)' /\ OnceInOrder("/testcase", b)'
  BY <1>4, NotGrown
<1>6. a = (IF writer' \in InCase THEN report' ELSE report' - 1) /\ b = report' - 1
  BY <1>3
<1>7. OrderInv'
  BY <1>5, <1>6, OrderNext
<1> QED BY <1>1, <1>2, <1>7, NotGrown

\* A suite is opened, or the open one goes on (cl_summary_open_testsuite).
LEMMA TestsuiteStep ==
  ASSUME SummaryOK, WriteTestsuite PROVE SummaryInv'
<1> SUFFICES ASSUME writer' \in Writing, ~lost' PROVE SummaryInv'
  BY DEF SummaryInv
<1>1. /\ writer = "testsuite" /\ writer' = "testcase" /\ ~lost
      /\ report' = report /\ reports' = reports
      /\ IF OpensSuite(report) THEN xml' = Append(xml, Element("testsuite", report, 0))
                               ELSE xml' = xml
  BY DEF WriteTestsuite, At, Write, SummarySteps, vars, results, Writing, InCase
<1>2. /\ writer \in Writing /\ writer \notin InCase /\ writer' \notin InCase
      /\ writer' \notin {"fclose", "written"}
  BY <1>1 DEF Writing, InCase
<1>3. PICK n : n = report
  OBVIOUS
<1>4. n \in DOMAIN reports /\ n \in Nat /\ n - 1 <= Len(reports)
  BY <1>1, <1>3, LenProperties DEF SummaryOK, WalkInv, TypeOK, SummaryTypeOK
<1>5. /\ SuiteIsOpen <=> ~OpensSuite(report)
      /\ SuiteIsOpen' /\ SuiteOf = n /\ SuiteOf' = n
  BY <1>1, <1>3 DEF SuiteIsOpen, SuiteOf, InCase
<1>6. CASE OpensSuite(report)
  <2>1. "testsuite" \in Elements
    BY DEF Elements
  <2>2. PICK e \in XmlElement : e = Element("testsuite", n, 0) /\ e.name = "testsuite" /\ e.test = n
    BY <1>4, <2>1, ElementIs
  <2>3. Grows(e)
    BY <1>1, <1>3, <1>6, <2>2 DEF Grows
  <2>4. OrderInv'
    BY <1>1, <1>2, <2>2, <2>3, OrderKept
  <2>5. EndsInv' /\ \A m \in 1..(report' - 1) : CompleteCase(m)'
    BY <1>1, <1>2, <1>3, <1>4, <2>3, GrowthKeeps DEF EndsInv
  <2>6. Nested(0) /\ xml \in Seq(XmlElement)
    BY <1>1, <1>2, <1>5, <1>6, PartsBefore
  <2>7. Nested(1)'
    BY <2>2, <2>3, <2>6, NestedGrown
  <2>8. NestingInv'
    BY <1>5, <2>7, NestingNext
  <2>9. SuiteInv'
    <3>1. PICK new : new = Len(xml) + 1
      OBVIOUS
    <3>2. new \in Nat /\ new = Len(xml') /\ new \in DOMAIN xml' /\ xml'[new] = e
      BY <2>3, <2>6, <3>1, Grown
    <3>3. (new + 1)..new = {}
      BY <3>2
    <3>4. InSuiteFrom(new, n, new)'
      BY <2>2, <3>2, <3>3 DEF InSuiteFrom, Suite_
    <3> QED BY <1>5, <3>2, <3>4, SuiteNext
  <2> QED BY <1>2, <2>4, <2>5, <2>8, <2>9 DEF SummaryInv
<1>7. CASE ~OpensSuite(report)
  <2>1. /\ EndsInv' /\ OrderInv'
        /\ \A m \in 1..(report' - 1) : CompleteCase(m)'
    BY <1>1, <1>2, <1>7, SameKeeps
  <2>2. Suite_(SuiteOf) = SuiteNames[reports[SuiteOf'].suite]
    BY <1>5 DEF Suite_
  <2>3. SuiteInv' /\ NestingInv'
    BY <1>1, <1>2, <1>5, <1>7, <2>2, InsideSame
  <2> QED BY <1>2, <2>1, <2>3 DEF SummaryInv
<1> QED BY <1>6, <1>7

\* Where a test's case has come to, with its report and the errors of that.
LEMMA CaseBefore ==
  ASSUME SummaryOK, writer \in InCase, ~lost
  PROVE  \E n, open, first, length :
           /\ n = report /\ n \in DOMAIN reports /\ n \in Nat /\ n - 1 <= Len(reports)
           /\ open \in DOMAIN xml /\ first \in DOMAIN xml /\ length \in Nat
           /\ first + length = Len(xml) /\ CaseUpto(n, open, first, length)
           /\ writer = "failure" => length = error - 1
           /\ writer = "skipped" => length = Len(reports[n].errors)
           /\ writer = "/testcase" => length = Len(CaseBody(n))
<1>1. writer \in Writing
  BY DEF Writing
<1>2. CurrentCase /\ Len(xml) \in Nat /\ DOMAIN xml = 1..Len(xml)
  BY <1>1, PartsBefore
<1>3. PICK n : n = report
  OBVIOUS
<1>4. n \in DOMAIN reports /\ n \in Nat /\ n - 1 <= Len(reports)
  BY <1>3, LenProperties DEF SummaryOK, WalkInv, TypeOK, SummaryTypeOK
<1>5. PICK open, first, length :
        /\ open \in DOMAIN xml /\ first \in DOMAIN xml /\ length = Len(xml) - first
        /\ CaseUpto(n, open, first, length)
        /\ length = CASE writer = "failure"   -> error - 1
                      [] writer = "skipped"   -> Len(reports[n].errors)
                      [] writer = "/testcase" -> Len(CaseBody(n))
  BY <1>2, <1>3 DEF CurrentCase
<1>6. length \in Nat /\ first + length = Len(xml)
  BY <1>2, <1>5
<1>7. /\ writer = "failure" => length = error - 1
      /\ writer = "skipped" => length = Len(reports[n].errors)
      /\ writer = "/testcase" => length = Len(CaseBody(n))
  BY <1>5
<1> QED BY <1>3, <1>4, <1>5, <1>6, <1>7

\* The case of a test begins (cl_summary_open_testcase).
LEMMA TestcaseStep ==
  ASSUME SummaryOK, WriteTestcase PROVE SummaryInv'
<1> SUFFICES ASSUME writer' \in Writing, ~lost' PROVE SummaryInv'
  BY DEF SummaryInv
<1>1. /\ writer = "testcase" /\ writer' = "failure" /\ ~lost /\ error' = 1
      /\ report' = report /\ reports' = reports
      /\ xml' = Append(xml, Element("testcase", report, 0))
  BY DEF WriteTestcase, At, WriteUnchecked, SummarySteps, vars, results
<1>2. writer \in Writing /\ writer \notin InCase /\ writer' \in InCase
  BY <1>1 DEF Writing, InCase
<1>3. PICK n, new : n = report /\ new = Len(xml) + 1
  OBVIOUS
<1>4. n \in DOMAIN reports /\ n \in Nat /\ n - 1 \in Nat /\ n - 1 <= Len(reports)
  BY <1>1, <1>3, LenProperties DEF SummaryOK, WalkInv, TypeOK, SummaryTypeOK
<1>5. SuiteIsOpen /\ SuiteIsOpen' /\ SuiteOf = n /\ SuiteOf' = n
  BY <1>1, <1>3 DEF SuiteIsOpen, SuiteOf, InCase
<1>6. PICK e \in XmlElement :
        /\ e = Element("testcase", n, 0) /\ e.name = "testcase" /\ e.test = n /\ e.error = 0
        /\ NoSuite(e)
  <2>1. "testcase" \in Elements
    BY DEF Elements
  <2> QED BY <1>4, <2>1, ElementIs DEF NoSuite
<1>7. Grows(e)
  BY <1>1, <1>3, <1>6 DEF Grows
<1>8. EndsInv' /\ \A m \in 1..(report' - 1) : CompleteCase(m)'
  BY <1>1, <1>2, <1>3, <1>4, <1>7, GrowthKeeps DEF EndsInv
<1>9. /\ OrderInv /\ SuiteInv /\ xml \in Seq(XmlElement) /\ Len(xml) \in Nat
      /\ DOMAIN xml = 1..Len(xml)
  BY <1>1, <1>2, PartsBefore
<1>10. OrderInv'
  <2>1. PICK b : b = n - 1
    OBVIOUS
  <2>2. OnceInOrder("testcase", b) /\ OnceInOrder("/testcase", b)
    BY <1>2, <1>3, <1>9, <2>1 DEF OrderInv
  <2>3. b \in Nat /\ n = b + 1
    BY <1>4, <2>1
  <2>4. OnceInOrder("testcase", n)'
    BY <1>6, <1>7, <1>9, <2>2, <2>3, OrderGrown
  <2>5. OnceInOrder("/testcase", b)'
    BY <1>6, <1>7, <1>9, <2>2, <2>3, OrderGrown
  <2>6. n = (IF writer' \in InCase THEN report' ELSE report' - 1) /\ b = report' - 1
    BY <1>1, <1>2, <1>3, <2>1
  <2> QED BY <2>4, <2>5, <2>6, OrderNext
<1>11. SuiteInv' /\ NestingInv'
  BY <1>1, <1>2, <1>5, <1>6, <1>7, InsideGrown
<1>12. CurrentCase'
  <2>1. PICK open : open \in DOMAIN xml /\ InSuiteFrom(open, n, Len(xml))
    BY <1>5, <1>9 DEF SuiteInv
  <2>2. PICK upto : upto = Len(xml)
    OBVIOUS
  <2>3. /\ InSuiteFrom(open, n, upto) /\ open \in DOMAIN xml
        /\ upto \in Nat /\ upto <= Len(xml) /\ upto = Len(xml) /\ new = Len(xml) + 1
    BY <1>3, <1>9, <2>1, <2>2
  <2>4. InSuiteFrom(open, n, new)'
    BY ONLY <1>6, <1>7, <1>9, <2>3, SuiteGrown
  <2>5. /\ xml'[new] = e /\ new \in DOMAIN xml' /\ open \in DOMAIN xml' /\ open < new
        /\ new + 0 = new /\ Len(xml') - new = 0 /\ 1..0 = {}
    BY <1>3, <1>7, <1>9, <2>1, Grown
  <2>6. CaseUpto(n, open, new, 0)'
    BY <1>6, <2>4, <2>5 DEF CaseUpto
  <2> QED BY <1>1, <1>3, <2>5, <2>6, CurrentNext
<1> QED BY <1>8, <1>10, <1>11, <1>12 DEF SummaryInv

\* The step of a case: an element that belongs to it, or none.
LEMMA BodyStep ==
  ASSUME SummaryOK, writer \in InCase, ~lost, reports' = reports, report' = report,
         writer' \in InCase, NEW n, NEW open, NEW first, NEW length, n = report,
         n - 1 <= Len(reports), open \in DOMAIN xml, first \in DOMAIN xml, length \in Nat,
         first + length = Len(xml), CaseUpto(n, open, first, length),
         NEW more,
         \/ more = length /\ xml' = xml
         \/ /\ more = length + 1
            /\ \E e \in XmlElement : /\ e = CaseBody(n)[more] /\ xml' = Append(xml, e)
                                     /\ e.name \in {"failure", "skipped"},
         \/ writer' = "failure" /\ more = error' - 1
         \/ writer' = "skipped" /\ more = Len(reports[n].errors)
         \/ writer' = "/testcase" /\ more = Len(CaseBody(n))
  PROVE  SummaryInv'
<1>1. /\ writer \in Writing /\ SuiteIsOpen /\ SuiteIsOpen' /\ SuiteOf = n /\ SuiteOf' = n
      /\ writer' \notin {"fclose", "written"}
  BY DEF Writing, InCase, SuiteIsOpen, SuiteOf
<1>2. /\ xml \in Seq(XmlElement) /\ Len(xml) \in Nat /\ DOMAIN xml = 1..Len(xml)
  BY <1>1, PartsBefore
<1>3. \/ writer' = "failure" /\ more = error' - 1
      \/ writer' = "skipped" /\ more = Len(reports'[n].errors)
      \/ writer' = "/testcase" /\ more = Len(CaseBody(n)')
  BY SameBodies
<1>4. CASE more = length /\ xml' = xml
  <2>1. CaseUpto(n, open, first, more)'
    BY <1>4, NotGrown
  <2>2. more = Len(xml') - first
    BY <1>2, <1>4
  <2>3. CurrentCase'
    BY <1>3, <1>4, <2>1, <2>2, CurrentNext
  <2>4. /\ EndsInv' /\ OrderInv'
        /\ \A m \in 1..(report' - 1) : CompleteCase(m)'
    BY <1>1, <1>4, SameKeeps
  <2>5. Suite_(SuiteOf) = SuiteNames[reports[SuiteOf'].suite]
    BY <1>1 DEF Suite_
  <2>6. SuiteInv' /\ NestingInv'
    BY <1>1, <1>4, <2>5, InsideSame
  <2> QED BY <2>3, <2>4, <2>6 DEF SummaryInv
<1>5. ASSUME more = length + 1,
             NEW e \in XmlElement, e = CaseBody(n)[more], xml' = Append(xml, e),
             e.name \in {"failure", "skipped"}
      PROVE  SummaryInv'
  <2>1. Grows(e) /\ NoSuite(e) /\ e.name \notin {"testcase", "/testcase"}
    BY <1>5 DEF Grows, NoSuite
  <2>2. CaseUpto(n, open, first, more)'
    BY <1>2, <1>5, <2>1, CaseGrown
  <2>3. /\ more = Len(xml') - first /\ open \in DOMAIN xml' /\ first \in DOMAIN xml'
    BY <1>2, <1>5, <2>1, Grown
  <2>4. CurrentCase'
    BY <1>3, <2>2, <2>3, CurrentNext
  <2>5. OrderInv'
    BY <1>1, <2>1, OrderKept
  <2>6. EndsInv' /\ \A m \in 1..(report' - 1) : CompleteCase(m)'
    BY <1>1, <2>1, GrowthKeeps DEF EndsInv
  <2>7. SuiteInv' /\ NestingInv'
    BY <1>1, <2>1, InsideGrown
  <2> QED BY <2>4, <2>5, <2>6, <2>7 DEF SummaryInv
<1> QED BY <1>4, <1>5

\* An error is written, or the last one was (cl_summary_failure).
LEMMA FailureStep ==
  ASSUME SummaryOK, WriteFailure PROVE SummaryInv'
<1> SUFFICES ASSUME writer' \in Writing, ~lost' PROVE SummaryInv'
  BY DEF SummaryInv
<1>1. /\ writer = "failure" /\ ~lost /\ report' = report /\ reports' = reports
      /\ IF error <= Len(reports[report].errors)
           THEN /\ writer' = "failure" /\ error' = error + 1
                /\ xml' = Append(xml, Element("failure", report, error))
           ELSE writer' = "skipped" /\ xml' = xml /\ error' = error
  BY DEF WriteFailure, At, Write, SummarySteps, vars, results, Writing, InCase
<1>2. writer \in InCase /\ writer' \in InCase
  BY <1>1 DEF InCase
<1>3. PICK n, open, first, length :
        /\ n = report /\ n \in DOMAIN reports /\ n \in Nat /\ n - 1 <= Len(reports)
        /\ open \in DOMAIN xml /\ first \in DOMAIN xml /\ length \in Nat
        /\ first + length = Len(xml) /\ CaseUpto(n, open, first, length)
        /\ length = error - 1
  BY <1>1, <1>2, CaseBefore
<1>4. PICK m, k : m = Len(reports[n].errors) /\ k = error
  OBVIOUS
<1>5. m \in Nat /\ k \in Nat \ {0} /\ k <= m + 1
  BY <1>1, <1>3, <1>4, CaseBodyIs DEF SummaryOK, SummaryTypeOK, WalkInv
<1>6. CASE k <= m
  <2>1. "failure" \in Elements
    BY DEF Elements
  <2>2. PICK e \in XmlElement : e = Element("failure", n, k) /\ e.name = "failure"
    BY <1>3, <1>5, <2>1, ElementIs
  <2>3. CaseBody(n)[k] = e
    <3>1. k \in 1..m
      BY <1>5, <1>6
    <3>2. \A l \in 1..m : CaseBody(n)[l] = Element("failure", n, l)
      BY <1>3, <1>4, CaseBodyIs DEF SummaryOK
    <3> QED BY <2>2, <3>1, <3>2
  <2>4. k = length + 1 /\ k = error' - 1
    BY <1>1, <1>3, <1>4, <1>5, <1>6
  <2>5. writer' = "failure" /\ xml' = Append(xml, e)
    BY <1>1, <1>3, <1>4, <1>6, <2>2
  <2> QED BY <1>1, <1>2, <1>3, <2>2, <2>3, <2>4, <2>5, BodyStep
<1>7. CASE ~(k <= m)
  <2>1. length = m
    <3>1. k = m + 1
      BY <1>5, <1>7
    <3>2. length = k - 1
      BY <1>3, <1>4
    <3> QED BY <1>5, <3>1, <3>2
  <2>2. writer' = "skipped" /\ xml' = xml
    BY <1>1, <1>3, <1>4, <1>7
  <2> QED BY <1>1, <1>2, <1>3, <1>4, <2>1, <2>2, BodyStep
<1> QED BY <1>6, <1>7

\* A skip is written (cl_summary_skipped).
LEMMA SkippedStep ==
  ASSUME SummaryOK, WriteSkipped PROVE SummaryInv'
<1> SUFFICES ASSUME writer' \in Writing, ~lost' PROVE SummaryInv'
  BY DEF SummaryInv
<1>1. /\ writer = "skipped" /\ writer' = "/testcase" /\ ~lost
      /\ report' = report /\ reports' = reports
      /\ IF reports[report].status = "SKIP"
           THEN xml' = Append(xml, Element("skipped", report, 0))
           ELSE xml' = xml
  BY DEF WriteSkipped, At, WriteUnchecked, SummarySteps, vars, results
<1>2. writer \in InCase /\ writer' \in InCase
  BY <1>1 DEF InCase
<1>3. PICK n, open, first, length :
        /\ n = report /\ n \in DOMAIN reports /\ n \in Nat /\ n - 1 <= Len(reports)
        /\ open \in DOMAIN xml /\ first \in DOMAIN xml /\ length \in Nat
        /\ first + length = Len(xml) /\ CaseUpto(n, open, first, length)
        /\ length = Len(reports[n].errors)
  BY <1>1, <1>2, CaseBefore
<1>4. CASE reports[n].status = "SKIP"
  <2>1. "skipped" \in Elements
    BY DEF Elements
  <2>2. PICK e \in XmlElement : e = Element("skipped", n, 0) /\ e.name = "skipped"
    BY <1>3, <2>1, ElementIs
  <2>3. CaseBody(n)[length + 1] = e /\ Len(CaseBody(n)) = length + 1
    <3>1. LET m == Len(reports[n].errors)
          IN /\ Len(CaseBody(n)) = IF reports[n].status = "SKIP" THEN m + 1 ELSE m
             /\ reports[n].status = "SKIP" => CaseBody(n)[m + 1] = Element("skipped", n, 0)
      BY <1>3, CaseBodyIs DEF SummaryOK
    <3> QED BY <1>3, <1>4, <2>2, <3>1
  <2>4. xml' = Append(xml, e)
    BY <1>1, <1>3, <1>4, <2>2
  <2>5. PICK more : more = length + 1
    OBVIOUS
  <2> QED BY <1>1, <1>2, <1>3, <2>2, <2>3, <2>4, <2>5, BodyStep
<1>5. CASE reports[n].status # "SKIP"
  <2>1. Len(CaseBody(n)) = length
    BY <1>3, <1>5, CaseBodyIs DEF SummaryOK
  <2>2. xml' = xml
    BY <1>1, <1>3, <1>5
  <2> QED BY <1>1, <1>2, <1>3, <2>1, <2>2, BodyStep
<1> QED BY <1>4, <1>5

\* The case of a test ends (cl_summary_close_testcase).
LEMMA CloseTestcaseStep ==
  ASSUME SummaryOK, CloseTestcase PROVE SummaryInv'
<1> SUFFICES ASSUME writer' \in Writing, ~lost' PROVE SummaryInv'
  BY DEF SummaryInv
<1>1. /\ writer = "/testcase" /\ writer' = "/testsuite" /\ ~lost
      /\ report' = report + 1 /\ reports' = reports
      /\ xml' = Append(xml, Element("/testcase", report, 0))
  BY DEF CloseTestcase, At, Write, SummarySteps, vars, results, Writing, InCase
<1>2. writer \in Writing /\ writer \in InCase /\ writer' \notin InCase
  BY <1>1 DEF Writing, InCase
<1>3. PICK n, open, first, length :
        /\ n = report /\ n \in DOMAIN reports /\ n \in Nat /\ n - 1 <= Len(reports)
        /\ open \in DOMAIN xml /\ first \in DOMAIN xml /\ length \in Nat
        /\ first + length = Len(xml) /\ CaseUpto(n, open, first, length)
        /\ length = Len(CaseBody(n))
  BY <1>1, <1>2, CaseBefore
<1>4. PICK e \in XmlElement :
        /\ e = Element("/testcase", n, 0) /\ e.name = "/testcase" /\ e.test = n /\ e.error = 0
        /\ NoSuite(e)
  <2>1. "/testcase" \in Elements
    BY DEF Elements
  <2> QED BY <1>3, <2>1, ElementIs DEF NoSuite
<1>5. Grows(e)
  BY <1>1, <1>3, <1>4 DEF Grows
<1>6. /\ OrderInv /\ xml \in Seq(XmlElement) /\ Len(xml) \in Nat /\ DOMAIN xml = 1..Len(xml)
  BY <1>1, <1>2, PartsBefore
<1>7. SuiteIsOpen /\ SuiteIsOpen' /\ SuiteOf = n /\ SuiteOf' = n
  BY <1>1, <1>3 DEF SuiteIsOpen, SuiteOf, InCase
<1>8. SuiteInv' /\ NestingInv'
  BY <1>1, <1>2, <1>4, <1>5, <1>7, InsideGrown
<1>9. OrderInv'
  <2>1. PICK b : b = n - 1
    OBVIOUS
  <2>2. OnceInOrder("testcase", n) /\ OnceInOrder("/testcase", b)
    BY <1>2, <1>3, <1>6, <2>1 DEF OrderInv
  <2>3. b \in Nat /\ n = b + 1
    BY <1>1, <1>3, <2>1 DEF SummaryOK, SummaryTypeOK
  <2>4. OnceInOrder("testcase", n)'
    BY <1>3, <1>4, <1>5, <1>6, <2>2, OrderGrown
  <2>5. OnceInOrder("/testcase", n)'
    BY <1>4, <1>5, <1>6, <2>2, <2>3, OrderGrown
  <2>6. n = (IF writer' \in InCase THEN report' ELSE report' - 1) /\ n = report' - 1
    BY <1>1, <1>2, <1>3
  <2> QED BY <2>4, <2>5, <2>6, OrderNext
<1>10. CompleteCase(n)'
  <2>1. CaseUpto(n, open, first, length)'
    BY <1>3, <1>5, <1>6, CaseGrown
  <2>2. PICK last : last = first + length + 1
    OBVIOUS
  <2>3. /\ last \in DOMAIN xml' /\ xml'[last] = e
        /\ open \in DOMAIN xml' /\ first \in DOMAIN xml'
    BY <1>3, <1>5, <1>6, <2>2, Grown
  <2>4. length = Len(CaseBody(n)')
    BY <1>1, <1>3, SameBodies
  <2>5. \E o, f \in DOMAIN xml' :
          /\ f + length + 1 \in DOMAIN xml' /\ CaseUpto(n, o, f, length)'
          /\ xml'[f + length + 1] = Element("/testcase", n, 0)
    BY <1>4, <2>1, <2>2, <2>3
  <2> QED BY <2>4, <2>5 DEF CompleteCase, CaseBody, CaseUpto, InSuiteFrom, Suite_
<1>11. EndsInv' /\ \A m \in 1..(report - 1) : CompleteCase(m)'
  BY <1>1, <1>2, <1>3, <1>5, GrowthKeeps DEF EndsInv
<1>12. \A m \in 1..(report' - 1) : m = n \/ m \in 1..(report - 1)
  BY <1>1, <1>3
<1>13. \A m \in 1..(report' - 1) : CompleteCase(m)'
  BY <1>10, <1>11, <1>12
<1> QED BY <1>2, <1>8, <1>9, <1>11, <1>13 DEF SummaryInv

\* A suite is closed, or goes on with the next report (cl_summary_close_testsuite).
LEMMA CloseTestsuiteStep ==
  ASSUME SummaryOK, CloseTestsuite PROVE SummaryInv'
<1> SUFFICES ASSUME writer' \in Writing, ~lost' PROVE SummaryInv'
  BY DEF SummaryInv
<1>1. /\ writer = "/testsuite" /\ ~lost /\ report' = report /\ reports' = reports
      /\ writer' = IF report > Len(reports) THEN "/testsuites" ELSE "testsuite"
      /\ IF ClosesSuite(report - 1)
           THEN xml' = Append(xml, Element("/testsuite", report - 1, 0))
           ELSE xml' = xml
  BY DEF CloseTestsuite, At, Write, SummarySteps, vars, results, Writing, InCase
<1>2. /\ writer \in Writing /\ writer \notin InCase /\ writer' \notin InCase
      /\ writer' \notin {"fclose", "written"}
  BY <1>1 DEF Writing, InCase
<1>3. PICK n : n = report - 1
  OBVIOUS
<1>4. /\ n \in DOMAIN reports /\ n \in Nat \ {0} /\ n <= Len(reports) /\ Len(reports) \in Nat
      /\ report = n + 1
  BY <1>1, <1>3, LenProperties DEF SummaryOK, WalkInv, TypeOK, SummaryTypeOK
<1>5. SuiteIsOpen /\ SuiteOf = n
  BY <1>1, <1>3 DEF SuiteIsOpen, SuiteOf, InCase
<1>6. ClosesSuite(n) <=> ~SuiteIsOpen'
  <2>1. OpensSuite(report)' <=> Suite_(n) # Suite_(report)
    BY <1>1, <1>4 DEF OpensSuite, Suite_
  <2>2. CASE report > Len(reports)
    <3>1. n = Len(reports) /\ writer' = "/testsuites"
      BY <1>1, <1>4, <2>2
    <3> QED BY <3>1 DEF SuiteIsOpen, InCase, ClosesSuite
  <2>3. CASE ~(report > Len(reports))
    <3>1. n # Len(reports) /\ writer' = "testsuite"
      BY <1>1, <1>4, <2>3
    <3>2. SuiteIsOpen' <=> ~OpensSuite(report)'
      BY <3>1 DEF SuiteIsOpen, InCase
    <3>3. ClosesSuite(n) <=> Suite_(report) # Suite_(n)
      BY <1>4, <3>1 DEF ClosesSuite
    <3> QED BY <2>1, <3>2, <3>3
  <2> QED BY <2>2, <2>3
<1>7. CASE ClosesSuite(n)
  <2>1. "/testsuite" \in Elements
    BY DEF Elements
  <2>2. PICK e \in XmlElement : e = Element("/testsuite", n, 0) /\ e.name = "/testsuite"
    BY <1>4, <2>1, ElementIs
  <2>3. Grows(e)
    BY <1>1, <1>3, <1>7, <2>2 DEF Grows
  <2>4. OrderInv'
    BY <1>1, <1>2, <2>2, <2>3, OrderKept
  <2>5. EndsInv' /\ \A m \in 1..(report' - 1) : CompleteCase(m)'
    BY <1>1, <1>2, <1>3, <1>4, <2>3, GrowthKeeps DEF EndsInv
  <2>6. Nested(1) /\ xml \in Seq(XmlElement)
    BY <1>1, <1>2, <1>5, PartsBefore
  <2>7. Nested(0)'
    BY <2>2, <2>3, <2>6, NestedGrown
  <2>8. NestingInv'
    BY <1>6, <1>7, <2>7, NestingNext
  <2>9. SuiteInv'
    BY <1>6, <1>7 DEF SuiteInv
  <2> QED BY <1>2, <2>4, <2>5, <2>8, <2>9 DEF SummaryInv
<1>8. CASE ~ClosesSuite(n)
  <2>1. xml' = xml /\ SuiteIsOpen'
    BY <1>1, <1>3, <1>6, <1>8
  <2>2. /\ EndsInv' /\ OrderInv'
        /\ \A m \in 1..(report' - 1) : CompleteCase(m)'
    BY <1>1, <1>2, <2>1, SameKeeps
  <2>3. Suite_(SuiteOf) = SuiteNames[reports[SuiteOf'].suite]
    <3>1. Suite_(report) = Suite_(n)
      BY <1>4, <1>8 DEF ClosesSuite
    <3>2. SuiteOf' = report
      BY <1>1 DEF SuiteOf
    <3> QED BY <1>5, <3>1, <3>2 DEF Suite_
  <2>4. SuiteInv' /\ NestingInv'
    BY <1>1, <1>2, <1>5, <2>1, <2>3, InsideSame
  <2> QED BY <1>2, <2>2, <2>4 DEF SummaryInv
<1> QED BY <1>7, <1>8

\* The last element is written (cl_summary_close_testsuites).
LEMMA CloseTestsuitesStep ==
  ASSUME SummaryOK, CloseTestsuites PROVE SummaryInv'
<1> SUFFICES ASSUME writer' \in Writing, ~lost' PROVE SummaryInv'
  BY DEF SummaryInv
<1>1. /\ writer = "/testsuites" /\ writer' = "fclose" /\ ~lost
      /\ report' = report /\ reports' = reports
      /\ xml' = Append(xml, Element("/testsuites", 0, 0))
  BY DEF CloseTestsuites, At, Write, SummarySteps, vars, results, Writing, InCase
<1>2. /\ writer \in Writing /\ writer \notin InCase /\ writer' \notin InCase
      /\ ~SuiteIsOpen /\ ~SuiteIsOpen'
  BY <1>1 DEF Writing, InCase, SuiteIsOpen
<1>3. report - 1 <= Len(reports)
  BY <1>1, LenProperties DEF SummaryOK, WalkInv, TypeOK
<1>4. PICK e \in XmlElement : e = Element("/testsuites", 0, 0) /\ e.name = "/testsuites"
  <2>1. "/testsuites" \in Elements
    BY DEF Elements
  <2> QED BY <2>1, ElementIs
<1>5. Grows(e)
  BY <1>1, <1>4 DEF Grows
<1>6. OrderInv'
  BY <1>1, <1>2, <1>4, <1>5, OrderKept
<1>7. /\ xml' # <<>> /\ xml'[1].name = "testsuites"
      /\ \A m \in 1..(report' - 1) : CompleteCase(m)'
  BY <1>1, <1>2, <1>3, <1>5, GrowthKeeps
<1>8. Nested(0) /\ xml \in Seq(XmlElement)
  BY <1>1, <1>2, PartsBefore
<1>9. EndsInv'
  <2>1. xml'[Len(xml')] = e
    BY <1>5, <1>8, Grown
  <2> QED BY <1>4, <1>7, <2>1 DEF EndsInv
<1>10. Nested(0)'
  BY <1>4, <1>5, <1>8, NestedGrown
<1>11. NestingInv' /\ SuiteInv'
  BY <1>2, <1>10, NestingNext DEF SuiteInv
<1> QED BY <1>2, <1>6, <1>7, <1>9, <1>11 DEF SummaryInv

\* The summary is closed (clar_summary_shutdown).
LEMMA FcloseStep ==
  ASSUME SummaryOK, Fclose PROVE SummaryInv'
<1> SUFFICES ASSUME writer' \in Writing, ~lost' PROVE SummaryInv'
  BY DEF SummaryInv
<1>1. /\ writer = "fclose" /\ writer' = "written" /\ ~lost
      /\ report' = report /\ reports' = reports /\ xml' = xml
  BY DEF Fclose, At, SummarySteps, vars, results, Writing, InCase
<1>2. /\ writer \in Writing /\ writer \notin InCase /\ writer' \notin InCase
      /\ ~SuiteIsOpen /\ ~SuiteIsOpen'
  BY <1>1 DEF Writing, InCase, SuiteIsOpen
<1>3. /\ EndsInv' /\ OrderInv'
      /\ \A m \in 1..(report' - 1) : CompleteCase(m)'
  BY <1>1, <1>2, SameKeeps
<1>4. Nested(0)
  BY <1>1, <1>2, PartsBefore
<1>5. Nested(0)'
  BY <1>1, <1>4, NotGrown
<1>6. NestingInv' /\ SuiteInv'
  BY <1>2, <1>5, NestingNext DEF SuiteInv
<1> QED BY <1>2, <1>3, <1>6 DEF SummaryInv

\* No step leaves the summary otherwise than as its point says.
LEMMA SummaryStep ==
  ASSUME IInv, SummaryTypeOK, PlaceInv, SummaryInv, [ReportsNext]_reportsVars
  PROVE  SummaryInv'
<1>1. SummaryOK
  BY DEF SummaryOK, PlaceInv, WalkInv, IInv
<1>2. ASSUME UNCHANGED summary, writer # "idle" => reports' = reports PROVE SummaryInv'
  <2> SUFFICES ASSUME writer' \in Writing, ~lost' PROVE SummaryInv'
    BY DEF SummaryInv
  <2>1. /\ writer' = writer /\ report' = report /\ error' = error /\ xml' = xml /\ ~lost
        /\ writer \in Writing /\ reports' = reports
    BY <1>2 DEF summary, Writing, InCase
  <2>2. /\ EndsInv /\ OrderInv /\ SuiteInv /\ NestingInv
        /\ \A n \in 1..(report - 1) : CompleteCase(n)
        /\ writer \in InCase => CurrentCase
    BY <1>1, <2>1, PartsBefore
  <2>3. EndsInv' /\ OrderInv' /\ SuiteInv' /\ NestingInv'
    BY <2>1, <2>2 DEF EndsInv, OrderInv, OnceInOrder, SuiteInv, SuiteIsOpen, SuiteOf, OpensSuite,
       InSuiteFrom, Suite_, NestingInv, OpenBefore
  <2>4. \A n \in 1..(report' - 1) : CompleteCase(n)'
    BY <2>1, <2>2, NotGrown
  <2>5. writer' \in InCase => CurrentCase'
    <3> SUFFICES ASSUME writer \in InCase PROVE CurrentCase'
      BY <2>1
    <3>1. PICK n, open, first, length :
            /\ n = report /\ open \in DOMAIN xml /\ first \in DOMAIN xml /\ length \in Nat
            /\ first + length = Len(xml) /\ CaseUpto(n, open, first, length)
            /\ writer = "failure" => length = error - 1
            /\ writer = "skipped" => length = Len(reports[n].errors)
            /\ writer = "/testcase" => length = Len(CaseBody(n))
      BY <1>1, <2>1, CaseBefore
    <3>2. CaseUpto(n, open, first, length)' /\ CaseBody(n)' = CaseBody(n)
      BY <2>1, <3>1, NotGrown, SameBodies
    <3>3. length = Len(xml') - first /\ n = report'
      <4>1. DOMAIN xml = 1..Len(xml) /\ Len(xml) \in Nat
        BY <1>1, <2>1, PartsBefore
      <4> QED BY <2>1, <3>1, <4>1
    <3>4. \/ writer' = "failure" /\ length = error' - 1
          \/ writer' = "skipped" /\ length = Len(reports'[n].errors)
          \/ writer' = "/testcase" /\ length = Len(CaseBody(n)')
      BY <2>1, <3>1, <3>2 DEF InCase
    <3> QED BY <2>1, <3>1, <3>2, <3>3, <3>4, CurrentNext
  <2> QED BY <2>3, <2>4, <2>5 DEF SummaryInv
<1>3. CASE ReportsNext /\ ~WritesSummary
  <2>1. UNCHANGED summary
    BY <1>3, SummaryStays
  <2>2. writer # "idle" => reports' = reports
    BY <1>3, Settles DEF PlaceInv
  <2> QED BY <1>2, <2>1, <2>2
<1>4. CASE UNCHANGED reportsVars
  BY <1>2, <1>4 DEF reportsVars, vars, results
<1>5. CASE WritesSummary
  <2>1. CASE clar_summary_shutdown \/ FcloseOnError
    <3>1. writer' \notin Writing
      <4>1. writer' \in {"testsuites", "failed"}
        BY <2>1 DEF clar_summary_shutdown, FcloseOnError
      <4> QED BY <4>1 DEF Writing, InCase
    <3> QED BY <3>1 DEF SummaryInv
  <2>2. CASE FcloseTwiceCrashes
    <3>1. UNCHANGED summary /\ writer = "fclose again"
      BY <2>2 DEF FcloseTwiceCrashes, Meanwhile, At
    <3>2. writer' \notin Writing
      BY <3>1 DEF Writing, InCase, summary
    <3> QED BY <3>2 DEF SummaryInv
  <2> QED BY <1>1, <1>5, <2>1, <2>2, TestsuitesStep, TestsuiteStep, TestcaseStep, FailureStep,
             SkippedStep, CloseTestcaseStep, CloseTestsuiteStep, CloseTestsuitesStep,
             FcloseStep DEF WritesSummary
<1> QED BY <1>3, <1>4, <1>5
--------------------------------------------------------------------------------
(* The summary: its theorems *)

\* At each point of a run, what has been printed and what the summary holds are what the
\* reports and the place of the writer say (print.h, clar_summary_shutdown).
THEOREM ReportsInvariantHolds == ReportsSpec => []ReportsInvariant
<1>1. ReportsInit => PlaceInv /\ SummaryInv
  <2>1. ReportsInit => /\ xml = <<>> /\ writer = "idle" /\ report = 1 /\ exit = Running
    BY DEF ReportsInit, Init
  <2>2. Running # 0 /\ "idle" \notin Writing
    BY DEF Running, Writing, InCase
  <2> QED BY <2>1, <2>2 DEF PlaceInv, SummaryInv, InCase
<1>2. /\ IInv /\ ReportsTypeOK /\ PlaceInv /\ SummaryInv /\ [ReportsNext]_reportsVars
      => PlaceInv' /\ SummaryInv'
  <2>1. ReportsTypeOK => SummaryTypeOK
    BY DEF ReportsTypeOK, SummaryTypeOK
  <2> QED BY <2>1, PlacesStep, SummaryStep
<1>3. ReportsSpec => [](PlaceInv /\ SummaryInv)
  BY <1>1, <1>2, ReportsInvariance, ReportsTypeCorrect, PTL DEF ReportsSpec
<1> QED BY <1>3, OutputIsOfReports, PTL DEF ReportsInvariant

\* The one element of a name that a report has.
LEMMA PositionIs ==
  ASSUME xml \in Seq(XmlElement), NEW name \in Elements, NEW n \in Nat, NEW upto,
         OnceInOrder(name, upto), NEW k \in DOMAIN xml, xml[k] = Element(name, n, 0)
  PROVE  Position(name, n) = k
<1>1. \A i \in DOMAIN xml : xml[i] = Element(name, n, 0) => i = k
  <2> SUFFICES ASSUME NEW i \in DOMAIN xml, xml[i] = Element(name, n, 0) PROVE i = k
    OBVIOUS
  <2>1. /\ xml[i].name = name /\ xml[i].test = n /\ xml[k].name = name /\ xml[k].test = n
    BY ElementIs
  <2>2. ~(i < k) /\ ~(k < i)
    BY <2>1 DEF OnceInOrder
  <2>3. i \in Nat /\ k \in Nat
    BY LenProperties
  <2> QED BY <2>2, <2>3
<1> QED BY <1>1 DEF Position

\* The case of a report that is complete is where the property looks for it.
LEMMA CompleteIsFound ==
  ASSUME TypeOK, xml \in Seq(XmlElement), NEW n \in DOMAIN reports, CompleteCase(n),
         NEW upto, OnceInOrder("testcase", upto), OnceInOrder("/testcase", upto)
  PROVE  CaseIsComplete(n)
<1>1. PICK length : length = Len(CaseBody(n))
  OBVIOUS
<1>2. length \in Nat /\ n \in Nat /\ CaseBody(n) \in Seq(XmlElement)
  BY <1>1, CaseBodyIs, LenProperties
<1>3. PICK open, first, last :
        /\ open \in DOMAIN xml /\ first \in DOMAIN xml /\ last \in DOMAIN xml
        /\ last = first + length + 1
        /\ CaseUpto(n, open, first, length) /\ xml[last] = Element("/testcase", n, 0)
  BY <1>1 DEF CompleteCase
<1>4. /\ DOMAIN xml = 1..Len(xml) /\ Len(xml) \in Nat
  BY LenProperties
<1>5. /\ open < first /\ InSuiteFrom(open, n, first + length)
      /\ xml[first] = Element("testcase", n, 0)
      /\ \A j \in 1..length : xml[first + j] = CaseBody(n)[j]
  BY <1>3 DEF CaseUpto
<1>6. "testcase" \in Elements /\ "/testcase" \in Elements
  BY DEF Elements
<1>7. Position("testcase", n) = first /\ Position("/testcase", n) = last
  BY <1>2, <1>3, <1>5, <1>6, PositionIs
<1>8. xml[last].name = "/testcase"
  BY <1>2, <1>3, <1>6, ElementIs
<1>9. \E k \in 1..(first - 1) :
        /\ xml[k].name = "testsuite" /\ Suite_(xml[k].test) = Suite_(n)
        /\ \A i \in (k + 1)..last : xml[i].name \notin {"testsuite", "/testsuite"}
  <2>1. open \in 1..(first - 1)
    BY <1>3, <1>4, <1>5
  <2>2. \A i \in (open + 1)..last : i \in (open + 1)..(first + length) \/ i = last
    BY <1>2, <1>3, <1>4
  <2>3. \A i \in (open + 1)..last : xml[i].name \notin {"testsuite", "/testsuite"}
    BY <1>5, <1>8, <2>2 DEF InSuiteFrom
  <2> QED BY <1>5, <2>1, <2>3 DEF InSuiteFrom
<1>10. SubSeq(xml, first + 1, last - 1) = CaseBody(n)
  <2>1. PICK from, to : from = first + 1 /\ to = last - 1
    OBVIOUS
  <2>2. /\ from \in Int /\ to \in Int /\ to - from + 1 = length
        /\ length = (IF from <= to THEN to - from + 1 ELSE 0)
    <3>1. first \in Nat /\ last \in Nat /\ last = first + length + 1
      BY <1>3, <1>4
    <3> QED BY <1>2, <2>1, <3>1
  <2>3. \A i \in from..to : i \in DOMAIN xml
    BY <1>3, <1>4, <2>1
  <2>4. \A i \in from..to : xml[i] \in XmlElement
    BY <2>3, ElementOfSeq
  <2>5. /\ SubSeq(xml, from, to) \in Seq(XmlElement)
        /\ Len(SubSeq(xml, from, to)) = IF from <= to THEN to - from + 1 ELSE 0
        /\ \A i \in 1..(to - from + 1) : SubSeq(xml, from, to)[i] = xml[from + i - 1]
    BY <2>2, <2>4, SubSeqProperties
  <2>6. \A i \in 1..length : SubSeq(xml, from, to)[i] = CaseBody(n)[i]
    <3> TAKE i \in 1..length
    <3>1. SubSeq(xml, from, to)[i] = xml[from + i - 1]
      BY <2>2, <2>5
    <3>2. from + i - 1 = first + i
      BY <1>2, <1>3, <1>4, <2>1
    <3>3. xml[first + i] = CaseBody(n)[i]
      BY <1>5
    <3> QED BY <3>1, <3>2, <3>3
  <2>7. SubSeq(xml, from, to) = CaseBody(n)
    BY <1>1, <1>2, <2>2, <2>5, <2>6, SeqEqual
  <2> QED BY <2>1, <2>7
<1> QED BY <1>7, <1>9, <1>10 DEF CaseIsComplete

\* A summary that is said to be written is whole and well nested: every test of the run
\* once and in order, with all its errors, in an element of its suite, for any suites,
\* tests and errors, whichever of the writes may fail; and no status of 0 is given without
\* it (clar_summary_shutdown; but for summary.h:103, 114).
THEOREM SummariesAgree == ReportsSpec => []SummaryAgrees
<1>1. ASSUME IInv, ReportsTypeOK, PlaceInv, SummaryInv PROVE SummaryAgrees
  <2>1. (exit = 0 /\ write_summary) => writer = "written"
    BY <1>1 DEF PlaceInv
  <2> SUFFICES ASSUME writer = "written", ~lost
               PROVE  /\ {xml[k].test : k \in Cases} = DOMAIN reports
                      /\ \A k, l \in Cases : k < l => xml[k].test < xml[l].test
                      /\ \A n \in DOMAIN reports : CaseIsComplete(n)
                      /\ \A k \in DOMAIN xml : OpenBefore(k) \in {0, 1}
                      /\ OpenBefore(Len(xml)) = 0
                      /\ xml[1].name = "testsuites" /\ xml[Len(xml)].name = "/testsuites"
    BY <2>1 DEF SummaryAgrees
  <2>2. SummaryOK
    BY <1>1 DEF SummaryOK, PlaceInv, WalkInv, IInv, ReportsTypeOK, SummaryTypeOK
  <2>3. writer \in Writing /\ writer \notin InCase /\ ~SuiteIsOpen
    BY DEF Writing, InCase, SuiteIsOpen
  <2>4. /\ EndsInv /\ OrderInv /\ Nested(0) /\ xml \in Seq(XmlElement)
        /\ \A n \in 1..(report - 1) : CompleteCase(n)
    BY <2>2, <2>3, PartsBefore
  <2>5. PICK m : m = Len(reports) /\ m = report - 1 /\ m \in Nat /\ DOMAIN reports = 1..m
    <3>1. report = Len(reports) + 1
      BY <1>1 DEF PlaceInv
    <3>2. Len(reports) \in Nat /\ DOMAIN reports = 1..Len(reports)
      BY <1>1, LenProperties DEF IInv, TypeOK
    <3> QED BY <3>1, <3>2
  <2>6. OnceInOrder("testcase", m) /\ OnceInOrder("/testcase", m)
    BY <2>3, <2>4, <2>5 DEF OrderInv
  <2>7. \A n \in DOMAIN reports : CompleteCase(n) /\ CaseIsComplete(n)
    <3>1. \A n \in DOMAIN reports : CompleteCase(n)
      BY <2>4, <2>5
    <3>2. TypeOK
      BY <1>1 DEF IInv
    <3> QED BY <2>4, <2>6, <3>1, <3>2, CompleteIsFound
  <2>8. {xml[k].test : k \in Cases} = DOMAIN reports
    <3>1. \A k \in Cases : xml[k].test \in DOMAIN reports
      BY <2>5, <2>6 DEF Cases, OnceInOrder
    <3>2. \A n \in DOMAIN reports : \E k \in Cases : xml[k].test = n
      <4> TAKE n \in DOMAIN reports
      <4>1. PICK first \in DOMAIN xml : xml[first] = Element("testcase", n, 0)
        BY <2>7 DEF CompleteCase, CaseUpto
      <4>2. xml[first].name = "testcase" /\ xml[first].test = n
        BY <4>1 DEF Element
      <4> QED BY <4>2 DEF Cases
    <3> QED BY <3>1, <3>2
  <2>9. \A k, l \in Cases : k < l => xml[k].test < xml[l].test
    BY <2>6 DEF Cases, OnceInOrder
  <2>10. xml[1].name = "testsuites" /\ xml[Len(xml)].name = "/testsuites"
    BY <2>4 DEF EndsInv
  <2> QED BY <2>4, <2>7, <2>8, <2>9, <2>10 DEF Nested
<1>2. ReportsInvariant => PlaceInv /\ SummaryInv
  BY DEF ReportsInvariant
<1> QED BY <1>1, <1>2, ReportsInvariance, ReportsTypeCorrect, ReportsInvariantHolds, PTL
===============================================================================
