----------------------------- MODULE ClarRunProofs -----------------------------
(***************************************************************************)
(* Theorems about ClarRun, for all schedules, all bounds, and every set of *)
(* calls and faults.  The steps of the driver are told apart by what they  *)
(* do to the list of reports; one lemma follows for each part of IInv.     *)
(***************************************************************************)
EXTENDS ClarRunInv, SequenceTheorems, TLAPS

\* The last report, and no other, has become this.
Rewritten(status, errors) ==
  /\ reports' \in Seq(Report)
  /\ Len(reports') = Len(reports)
  /\ \A n \in 1..Len(reports) : n # Current => reports'[n] = reports[n]
  /\ reports'[Current].status = status
  /\ reports'[Current].errors = errors
  /\ reports'[Current].suite = reports[Current].suite
  /\ reports'[Current].test = reports[Current].test

\* One error, at Where, was added to the last report.
NewErrors ==
  /\ reports'[Current].errors # <<>>
  /\ \A k \in DOMAIN reports'[Current].errors :
       \/ reports'[Current].errors[k] = Where
       \/ /\ k \in DOMAIN reports[Current].errors
          /\ reports'[Current].errors[k] = reports[Current].errors[k]

\* The status with which a test is left.
LeftStatus == IF reports[Current].status = "NOTRUN" THEN "OK"
                                                    ELSE reports[Current].status

\* The steps that record an error.
Fails ==
  \/ cl_check \/ cl_assert \/ cl_fs_cleanup_asserts \/ CreateSandboxAsserts
  \/ SandboxCleanupAsserts \/ TempdirShutdownAsserts

\* The steps that leave the reports alone.
Quiet ==
  \/ cl_set_cleanup \/ cl_invoke_enter \/ cl_invoke_leave \/ test_chdir
  \/ cl_fs_cleanup \/ CreateSandbox \/ Setjmp \/ InitializeReturns \/ TestReturns
  \/ LocalCleanupReturns \/ ClearInvokepoint \/ CleanupReturns \/ SandboxCleanup
  \/ EndTest \/ clar_test_init \/ clar_test_init_aborts \/ SkipSuite \/ BeginSuite
  \/ EndSuite \/ QuitSuite \/ EndRun \/ TempdirShutdown \/ TempdirShutdownCrashes
  \/ Return \/ Exited

\* These are all the steps there are.
LEMMA Steps ==
  ASSUME Next PROVE Fails \/ cl_skip \/ Landed \/ BeginTest \/ Quiet
BY DEF Next, CallsApi, RunsTest, RunsSuites, Fails, Quiet
--------------------------------------------------------------------------------
(* What a step does to the reports *)

\* The last report is one.
LEMMA CurrentReport ==
  ASSUME TypeOK, reports # <<>>
  PROVE  /\ Current \in 1..Len(reports) /\ Len(reports) \in Nat
         /\ DOMAIN reports = 1..Len(reports)
         /\ reports[Current].status \in Statuses
         /\ reports[Current].errors \in Seq(Site)
<1>1. /\ Current \in 1..Len(reports) /\ reports[Current] \in Report
      /\ Len(reports) \in Nat /\ DOMAIN reports = 1..Len(reports)
  BY EmptySeq, ElementOfSeq, LenProperties DEF Current, TypeOK
<1> QED BY <1>1 DEF Report

\* LastReport changes the last report and nothing else of the list.
LEMMA LastReportEffect ==
  ASSUME TypeOK, reports # <<>>,
         NEW status \in Statuses, NEW errors \in Seq(Site),
         LastReport(status, errors)
  PROVE  Rewritten(status, errors)
<1> DEFINE new == [reports[Current] EXCEPT !.status = status, !.errors = errors]
<1>1. /\ Current \in 1..Len(reports) /\ reports[Current] \in Report
      /\ reports \in Seq(Report)
  BY EmptySeq, ElementOfSeq DEF Current, TypeOK
<1>2. /\ new \in Report
      /\ new.status = status /\ new.errors = errors
      /\ new.suite = reports[Current].suite /\ new.test = reports[Current].test
  BY <1>1 DEF Report
<1>3. reports' = [reports EXCEPT ![Current] = new]
  BY DEF LastReport
<1> HIDE DEF new
<1> QED BY <1>1, <1>2, <1>3, ExceptSeq DEF Rewritten

\* A rewritten list has the same tests in it, in the same places.
LEMMA RanKept ==
  ASSUME TypeOK, reports # <<>>, NEW status, NEW errors, Rewritten(status, errors)
  PROVE  \A i, k : Ran(i, k) => Ran(i, k)'
<1>1. DOMAIN reports = 1..Len(reports) /\ DOMAIN reports' = DOMAIN reports
  BY CurrentReport, LenProperties DEF Rewritten, TypeOK
<1>2. \A n \in DOMAIN reports : /\ reports'[n].suite = reports[n].suite
                                /\ reports'[n].test = reports[n].test
  BY <1>1 DEF Rewritten
<1> QED BY <1>1, <1>2 DEF Ran

\* RecordError adds one error, at Where, to the last report.
LEMMA RecordErrorEffect ==
  ASSUME TypeOK, reports # <<>>, RecordError
  PROVE  /\ Rewritten("FAILURE", Append(reports[Current].errors, Where))
         /\ NewErrors
         /\ total_errors' = total_errors + 1
<1> DEFINE old == reports[Current].errors
<1>1. Where \in Site /\ old \in Seq(Site)
  BY CurrentReport DEF Where, Site, TypeOK, Current
<1>2. Append(old, Where) \in Seq(Site) /\ "FAILURE" \in Statuses
  BY <1>1, AppendProperties DEF Statuses
<1>3. Rewritten("FAILURE", Append(old, Where))
  BY <1>2, LastReportEffect DEF RecordError
<1>4. reports'[Current].errors = Append(old, Where)
  BY <1>3 DEF Rewritten
<1> HIDE DEF old
<1>5. /\ Append(old, Where) # <<>>
      /\ Len(Append(old, Where)) = Len(old) + 1 /\ Len(old) \in Nat
      /\ \A i \in 1..Len(old) : Append(old, Where)[i] = old[i]
      /\ Append(old, Where)[Len(old) + 1] = Where
      /\ DOMAIN old = 1..Len(old)
  BY <1>1, AppendProperties, LenProperties
<1>6. DOMAIN Append(old, Where) = 1..(Len(old) + 1)
  BY <1>2, <1>5, LenProperties
<1>7. \A k \in 1..(Len(old) + 1) : k = Len(old) + 1 \/ k \in 1..Len(old)
  BY <1>5
<1>8. \A k \in DOMAIN Append(old, Where) :
        \/ Append(old, Where)[k] = Where
        \/ k \in DOMAIN old /\ Append(old, Where)[k] = old[k]
  BY <1>5, <1>6, <1>7
<1>9. NewErrors
  BY <1>4, <1>5, <1>8 DEF NewErrors, old
<1> QED BY <1>3, <1>9 DEF RecordError, old

\* Around a test there is a report to write to.
LEMMA InTestHasReport ==
  ASSUME IInv, pc \in InTest PROVE TypeOK /\ reports # <<>>
BY DEF IInv, CountInv, TypeOK, Current

\* An error is only recorded where there is a report, and at most one each step.
LEMMA FailsEffect ==
  ASSUME IInv, Fails
  PROVE  /\ reports # <<>> /\ Rewritten("FAILURE", Append(reports[Current].errors, Where))
         /\ NewErrors /\ total_errors' = total_errors + 1
<1>1. TypeOK /\ reports # <<>>
  BY InTestHasReport DEF Fails, cl_check, cl_assert, cl_fs_cleanup_asserts,
     CreateSandboxAsserts, SandboxCleanupAsserts, TempdirShutdownAsserts,
     InUserCode, InTest, IInv
<1>2. RecordError
  BY DEF Fails, cl_check, cl_assert, cl_fs_cleanup_asserts,
     CreateSandboxAsserts, SandboxCleanupAsserts, TempdirShutdownAsserts
<1> QED BY <1>1, <1>2, RecordErrorEffect

\* cl_skip only changes the status.
LEMMA SkipEffect ==
  ASSUME IInv, cl_skip
  PROVE  reports # <<>> /\ Rewritten("SKIP", reports[Current].errors)
<1>1. TypeOK /\ reports # <<>>
  BY InTestHasReport DEF cl_skip, InUserCode, InTest
<1>2. LastReport("SKIP", reports[Current].errors) /\ "SKIP" \in Statuses
  BY DEF cl_skip, Statuses
<1> QED BY <1>1, <1>2, LastReportEffect, CurrentReport

\* Leaving a test only changes its status.
LEMMA LandedEffect ==
  ASSUME IInv, Landed
  PROVE  reports # <<>> /\ Rewritten(LeftStatus, reports[Current].errors)
<1>1. TypeOK /\ reports # <<>>
  BY InTestHasReport DEF Landed, InTest
<1>2. LastReport(LeftStatus, reports[Current].errors)
  BY DEF Landed, LeftStatus
<1>3. LeftStatus \in Statuses
  BY <1>1, CurrentReport DEF LeftStatus, Statuses
<1> QED BY <1>1, <1>2, <1>3, LastReportEffect, CurrentReport

\* A new test has a report of its own, and the others keep theirs.
LEMMA BeginTestEffect ==
  ASSUME IInv, BeginTest
  PROVE  /\ reports' \in Seq(Report) /\ Len(reports') = Len(reports) + 1
         /\ Len(reports) \in Nat
         /\ DOMAIN reports = 1..Len(reports)
         /\ DOMAIN reports' = 1..(Len(reports) + 1)
         /\ \A n \in DOMAIN reports' : n \in DOMAIN reports \/ n = Len(reports) + 1
         /\ \A n \in 1..Len(reports) : reports'[n] = reports[n]
         /\ reports'[Len(reports) + 1] =
              [suite |-> at, test |-> nth + 1, status |-> "NOTRUN", errors |-> <<>>]
<1> DEFINE new == [suite |-> at, test |-> nth + 1, status |-> "NOTRUN", errors |-> <<>>]
<1>1. reports \in Seq(Report) /\ at \in Nat /\ nth \in Nat
  BY DEF IInv, TypeOK
<1>2. <<>> \in Seq(Site)
  BY EmptySeq
<1>3. new \in Report
  BY <1>1, <1>2 DEF Report, Statuses
<1>4. reports' = Append(reports, new)
  BY DEF BeginTest
<1> HIDE DEF new
<1>5. /\ Append(reports, new) \in Seq(Report)
      /\ Len(Append(reports, new)) = Len(reports) + 1 /\ Len(reports) \in Nat
      /\ DOMAIN reports = 1..Len(reports)
      /\ \A n \in 1..Len(reports) : Append(reports, new)[n] = reports[n]
      /\ Append(reports, new)[Len(reports) + 1] = new
  BY <1>1, <1>3, AppendProperties, LenProperties
<1>6. DOMAIN Append(reports, new) = 1..(Len(reports) + 1)
  BY <1>5, LenProperties
<1>7. \A n \in 1..(Len(reports) + 1) : n \in 1..Len(reports) \/ n = Len(reports) + 1
  BY <1>5
<1> QED BY <1>4, <1>5, <1>6, <1>7 DEF new
--------------------------------------------------------------------------------
(* The parts of the invariant *)

\* The other steps leave the reports alone.
LEMMA QuietEffect == ASSUME Quiet PROVE UNCHANGED <<reports, total_errors>>
BY DEF Quiet, cl_set_cleanup, cl_invoke_enter, cl_invoke_leave, test_chdir,
   cl_fs_cleanup, CreateSandbox, Setjmp, InitializeReturns, TestReturns,
   LocalCleanupReturns, ClearInvokepoint, CleanupReturns, SandboxCleanup, EndTest,
   clar_test_init, clar_test_init_aborts, SkipSuite, BeginSuite, EndSuite,
   QuitSuite, EndRun, TempdirShutdown, TempdirShutdownCrashes, Return, Exited,
   vars, results

\* An error is at a line of the test it is recorded for.
LEMMA WhereIsHome == ASSUME IInv PROVE Where.test = Current
BY DEF IInv, InvokeInv, Where, NoSite

\* Errors are recorded in the report of the test they come from.
LEMMA HomeStep ==
  ASSUME IInv, Next PROVE ErrorsStayHome'
<1>1. TypeOK /\ ErrorsStayHome
  BY DEF IInv
<1>2. ASSUME reports # <<>>, NEW status, NEW errors, Rewritten(status, errors),
             \A k \in DOMAIN errors : errors[k].test = Current
      PROVE  ErrorsStayHome'
  <2>1. DOMAIN reports = 1..Len(reports) /\ DOMAIN reports' = 1..Len(reports)
    BY <1>1, <1>2, CurrentReport, LenProperties DEF Rewritten
  <2> QED BY <1>1, <1>2, <2>1 DEF ErrorsStayHome, Rewritten
<1>3. CASE Fails
  <2>1. /\ reports # <<>>
        /\ Rewritten("FAILURE", Append(reports[Current].errors, Where))
        /\ NewErrors
    BY <1>3, FailsEffect
  <2>2. \A k \in DOMAIN reports'[Current].errors :
          reports'[Current].errors[k].test = Current
    BY <1>1, <2>1, WhereIsHome, CurrentReport DEF NewErrors, ErrorsStayHome
  <2> QED BY <1>2, <2>1, <2>2 DEF Rewritten
<1>4. CASE cl_skip \/ Landed
  <2>1. \E status : reports # <<>> /\ Rewritten(status, reports[Current].errors)
    BY <1>4, SkipEffect, LandedEffect
  <2>2. \A k \in DOMAIN reports[Current].errors : reports[Current].errors[k].test = Current
    BY <1>1, <2>1, CurrentReport DEF ErrorsStayHome
  <2> QED BY <1>2, <2>1, <2>2
<1>5. CASE BeginTest
  <2>1. /\ DOMAIN reports = 1..Len(reports) /\ DOMAIN reports' = 1..(Len(reports) + 1)
        /\ \A n \in 1..Len(reports) : reports'[n] = reports[n]
        /\ \A n \in DOMAIN reports' : n \in DOMAIN reports \/ n = Len(reports) + 1
        /\ reports'[Len(reports) + 1].errors = <<>> /\ Len(reports) \in Nat
    BY <1>5, BeginTestEffect
  <2>2. DOMAIN <<>> = {}
    OBVIOUS
  <2> QED BY <1>1, <2>1, <2>2 DEF ErrorsStayHome
<1>6. CASE Quiet
  BY <1>1, <1>6, QuietEffect DEF ErrorsStayHome
<1> QED BY <1>3, <1>4, <1>5, <1>6, Steps

\* A verdict of OK is given to tests without errors, FAILURE to those with some.
LEMMA VerdictStep ==
  ASSUME IInv, Next PROVE VerdictInv'
<1>1. TypeOK /\ VerdictInv /\ total_errors \in Nat
  BY DEF IInv, TypeOK
<1>2. ASSUME reports # <<>>, NEW status, NEW errors, Rewritten(status, errors),
             status \in {"OK", "NOTRUN"} => errors = <<>>,
             status = "FAILURE" => errors # <<>>,
             total_errors' = 0 => total_errors = 0 /\ errors = <<>>
      PROVE  VerdictInv'
  <2>1. DOMAIN reports = 1..Len(reports) /\ DOMAIN reports' = 1..Len(reports)
    BY <1>1, <1>2, CurrentReport, LenProperties DEF Rewritten
  <2> QED BY <1>1, <1>2, <2>1 DEF VerdictInv, Rewritten, Failed
<1>3. CASE Fails
  <2>1. /\ reports # <<>>
        /\ Rewritten("FAILURE", Append(reports[Current].errors, Where))
        /\ NewErrors /\ total_errors' = total_errors + 1
    BY <1>3, FailsEffect
  <2>2. Append(reports[Current].errors, Where) # <<>> /\ total_errors' # 0
    BY <1>1, <2>1 DEF NewErrors, Rewritten
  <2> QED BY <1>2, <2>1, <2>2
<1>4. CASE cl_skip
  <2>1. reports # <<>> /\ Rewritten("SKIP", reports[Current].errors)
    BY <1>4, SkipEffect
  <2>2. total_errors' = 0 => total_errors = 0 /\ reports[Current].errors = <<>>
    BY <1>1, <1>4, <2>1, CurrentReport DEF cl_skip, VerdictInv, Failed
  <2> QED BY <1>2, <2>1, <2>2
<1>5. CASE Landed
  <2>1. reports # <<>> /\ Rewritten(LeftStatus, reports[Current].errors)
    BY <1>5, LandedEffect
  <2>2. /\ LeftStatus \in {"OK", "NOTRUN"} => reports[Current].errors = <<>>
        /\ LeftStatus = "FAILURE" => reports[Current].errors # <<>>
        /\ total_errors' = 0 => total_errors = 0 /\ reports[Current].errors = <<>>
    BY <1>1, <1>5, <2>1, CurrentReport DEF Landed, LeftStatus, VerdictInv, Failed
  <2> QED BY <1>2, <2>1, <2>2
<1>6. CASE BeginTest
  <2>1. /\ DOMAIN reports = 1..Len(reports) /\ DOMAIN reports' = 1..(Len(reports) + 1)
        /\ \A n \in 1..Len(reports) : reports'[n] = reports[n]
        /\ \A n \in DOMAIN reports' : n \in DOMAIN reports \/ n = Len(reports) + 1
        /\ reports'[Len(reports) + 1].errors = <<>> /\ Len(reports) \in Nat
        /\ reports'[Len(reports) + 1].status = "NOTRUN"
    BY <1>6, BeginTestEffect
  <2>2. total_errors' = total_errors
    BY <1>6 DEF BeginTest
  <2> QED BY <1>1, <2>1, <2>2 DEF VerdictInv, Failed
<1>7. CASE Quiet
  BY <1>1, <1>7, QuietEffect DEF VerdictInv, Failed
<1> QED BY <1>3, <1>4, <1>5, <1>6, <1>7, Steps

\* The trampoline is enabled and disabled in step with the test.
LEMMA JumpStep ==
  ASSUME IInv, Next PROVE JumpInv'
<1> USE DEF IInv, CountInv, InTest, Between, UserCode, TypeOK, Current, Call,
           Exit, schedule, results, output, jump, user,
           sandboxVars, JumpInv
<1>1. CASE Fails
  <2>1. reports # <<>> /\ Rewritten("FAILURE", Append(reports[Current].errors, Where))
        /\ NewErrors /\ total_errors' = total_errors + 1
    BY <1>1, FailsEffect
  <2>2. CASE cl_check \/ cl_assert \/ cl_fs_cleanup_asserts \/
           CreateSandboxAsserts \/ SandboxCleanupAsserts \/
           TempdirShutdownAsserts
    BY <2>1, <2>2 DEF cl_check, cl_assert, cl_fs_cleanup_asserts,
       CreateSandboxAsserts, SandboxCleanupAsserts, TempdirShutdownAsserts,
       InUserCode, abort_test, TempdirRemovalFails, SandboxRemovalFails,
       Rewritten
  <2> QED BY <1>1, <2>2 DEF Fails
<1>2. CASE cl_skip
  <2>1. Rewritten("SKIP", reports[Current].errors)
    BY <1>2, SkipEffect
  <2> QED
    BY <1>2, <2>1 DEF cl_skip, InUserCode, abort_test, Rewritten
<1>3. CASE Landed
  <2>1. Rewritten(LeftStatus, reports[Current].errors)
    BY <1>3, LandedEffect
  <2> QED
    BY <1>3, <2>1 DEF Landed, Rewritten
<1>4. CASE BeginTest
  BY <1>4 DEF BeginTest
<1>5. CASE cl_set_cleanup \/ cl_invoke_enter \/ cl_invoke_leave \/ test_chdir \/
         cl_fs_cleanup
  BY <1>5 DEF cl_set_cleanup, cl_invoke_enter, cl_invoke_leave, test_chdir,
     cl_fs_cleanup, InUserCode, clar_tempdir_shutdown, clar_abort
<1>6. CASE Setjmp \/ InitializeReturns \/ TestReturns \/ LocalCleanupReturns
  BY <1>6 DEF Setjmp, InitializeReturns, TestReturns, LocalCleanupReturns
<1>7. CASE ClearInvokepoint \/ CleanupReturns \/ EndTest
  BY <1>7 DEF ClearInvokepoint, CleanupReturns, EndTest
<1>8. CASE CreateSandbox \/ SandboxCleanup
  BY <1>8 DEF CreateSandbox, SandboxCleanup, clar_sandbox_create,
     TempdirReached, clar_sandbox_cleanup
<1>9. CASE SkipSuite \/ BeginSuite \/ EndSuite \/ QuitSuite \/ EndRun
  BY <1>9 DEF SkipSuite, BeginSuite, EndSuite, QuitSuite, EndRun
<1>10. CASE clar_test_init \/ clar_test_init_aborts \/ TempdirShutdown \/
         TempdirShutdownCrashes \/ Return \/ Exited
  BY <1>10 DEF clar_test_init, clar_test_init_aborts, TempdirShutdown,
     TempdirShutdownCrashes, Return, Exited, clar_tempdir_init, clar_abort,
     clar_tempdir_shutdown, TempdirRemovalFails, vars
<1> QED BY <1>1, <1>2, <1>3, <1>4, <1>5, <1>6, <1>7, <1>8, <1>9, <1>10, Steps DEF Quiet

\* The driver keeps its place in the schedule.
LEMMA CountStep ==
  ASSUME IInv, Next PROVE CountInv'
<1> USE DEF IInv, CountInv, InTest, Between, UserCode, TypeOK, Current, Call,
           Exit, schedule, results, output, jump, user,
           sandboxVars, JumpInv
<1>1. CASE Fails
  <2>1. reports # <<>> /\ Rewritten("FAILURE", Append(reports[Current].errors, Where))
        /\ NewErrors /\ total_errors' = total_errors + 1
    BY <1>1, FailsEffect
  <2>2. CASE cl_check \/ cl_assert \/ cl_fs_cleanup_asserts \/
           CreateSandboxAsserts \/ SandboxCleanupAsserts \/
           TempdirShutdownAsserts
    BY <2>1, <2>2 DEF cl_check, cl_assert, cl_fs_cleanup_asserts,
       CreateSandboxAsserts, SandboxCleanupAsserts, TempdirShutdownAsserts,
       InUserCode, abort_test, TempdirRemovalFails, SandboxRemovalFails,
       Rewritten
  <2> QED BY <1>1, <2>2 DEF Fails
<1>2. CASE cl_skip
  <2>1. Rewritten("SKIP", reports[Current].errors)
    BY <1>2, SkipEffect
  <2> QED
    BY <1>2, <2>1 DEF cl_skip, InUserCode, abort_test, Rewritten
<1>3. CASE Landed
  <2>1. Rewritten(LeftStatus, reports[Current].errors)
    BY <1>3, LandedEffect
  <2> QED
    BY <1>3, <2>1 DEF Landed, Rewritten
<1>4. CASE BeginTest
  <2>1. Len(reports') = Len(reports) + 1 /\ Len(reports) \in Nat
    BY <1>4, BeginTestEffect
  <2> QED
    BY <1>4, <2>1 DEF BeginTest
<1>5. CASE cl_set_cleanup \/ cl_invoke_enter \/ cl_invoke_leave \/ test_chdir \/
         cl_fs_cleanup
  BY <1>5 DEF cl_set_cleanup, cl_invoke_enter, cl_invoke_leave, test_chdir,
     cl_fs_cleanup, InUserCode, clar_tempdir_shutdown, clar_abort
<1>6. CASE Setjmp \/ InitializeReturns \/ TestReturns \/ LocalCleanupReturns
  BY <1>6 DEF Setjmp, InitializeReturns, TestReturns, LocalCleanupReturns
<1>7. CASE ClearInvokepoint \/ CleanupReturns \/ EndTest
  BY <1>7, SMTT(30) DEF ClearInvokepoint, CleanupReturns, EndTest
<1>8. CASE CreateSandbox \/ SandboxCleanup
  BY <1>8 DEF CreateSandbox, SandboxCleanup, clar_sandbox_create,
     TempdirReached, clar_sandbox_cleanup
<1>9. CASE SkipSuite \/ BeginSuite \/ EndSuite \/ QuitSuite \/ EndRun
  BY <1>9, SMTT(30) DEF SkipSuite, BeginSuite, EndSuite, QuitSuite, EndRun
<1>10. CASE clar_test_init \/ clar_test_init_aborts \/ TempdirShutdown \/
         TempdirShutdownCrashes \/ Return \/ Exited
  BY <1>10 DEF clar_test_init, clar_test_init_aborts, TempdirShutdown,
     TempdirShutdownCrashes, Return, Exited, clar_tempdir_init, clar_abort,
     clar_tempdir_shutdown, TempdirRemovalFails, vars
<1> QED BY <1>1, <1>2, <1>3, <1>4, <1>5, <1>6, <1>7, <1>8, <1>9, <1>10, Steps DEF Quiet

\* A cleanup does not outlive its test.
LEMMA CleanupStep ==
  ASSUME IInv, Next PROVE CleanupInv'
<1> USE DEF IInv, CountInv, InTest, Between, UserCode, TypeOK, Current, Call,
           Exit, schedule, results, output, jump, user,
           sandboxVars, CleanupInv, JumpInv
<1>1. CASE Fails
  <2>1. reports # <<>> /\ Rewritten("FAILURE", Append(reports[Current].errors, Where))
        /\ NewErrors /\ total_errors' = total_errors + 1
    BY <1>1, FailsEffect
  <2>2. CASE cl_check \/ cl_assert \/ cl_fs_cleanup_asserts \/
           CreateSandboxAsserts \/ SandboxCleanupAsserts \/
           TempdirShutdownAsserts
    BY <2>1, <2>2 DEF cl_check, cl_assert, cl_fs_cleanup_asserts,
       CreateSandboxAsserts, SandboxCleanupAsserts, TempdirShutdownAsserts,
       InUserCode, abort_test, TempdirRemovalFails, SandboxRemovalFails,
       Rewritten
  <2> QED BY <1>1, <2>2 DEF Fails
<1>2. CASE cl_skip
  <2>1. Rewritten("SKIP", reports[Current].errors)
    BY <1>2, SkipEffect
  <2> QED
    BY <1>2, <2>1 DEF cl_skip, InUserCode, abort_test, Rewritten
<1>3. CASE Landed
  <2>1. Rewritten(LeftStatus, reports[Current].errors)
    BY <1>3, LandedEffect
  <2> QED
    BY <1>3, <2>1 DEF Landed, Rewritten
<1>4. CASE BeginTest
  <2>1. Len(reports') = Len(reports) + 1 /\ Len(reports) \in Nat
    BY <1>4, BeginTestEffect
  <2> QED
    BY <1>4, <2>1 DEF BeginTest
<1>5. CASE cl_set_cleanup \/ cl_invoke_enter \/ cl_invoke_leave \/ test_chdir \/
         cl_fs_cleanup
  BY <1>5, SMTT(30) DEF cl_set_cleanup, cl_invoke_enter, cl_invoke_leave, test_chdir,
     cl_fs_cleanup, InUserCode, clar_tempdir_shutdown, clar_abort
<1>6. CASE Setjmp \/ InitializeReturns \/ TestReturns \/ LocalCleanupReturns
  BY <1>6 DEF Setjmp, InitializeReturns, TestReturns, LocalCleanupReturns
<1>7. CASE ClearInvokepoint \/ CleanupReturns \/ EndTest
  BY <1>7 DEF ClearInvokepoint, CleanupReturns, EndTest
<1>8. CASE CreateSandbox \/ SandboxCleanup
  BY <1>8 DEF CreateSandbox, SandboxCleanup, clar_sandbox_create,
     TempdirReached, clar_sandbox_cleanup
<1>9. CASE SkipSuite \/ BeginSuite \/ EndSuite \/ QuitSuite \/ EndRun
  BY <1>9 DEF SkipSuite, BeginSuite, EndSuite, QuitSuite, EndRun
<1>10. CASE clar_test_init \/ clar_test_init_aborts \/ TempdirShutdown \/
         TempdirShutdownCrashes \/ Return \/ Exited
  BY <1>10 DEF clar_test_init, clar_test_init_aborts, TempdirShutdown,
     TempdirShutdownCrashes, Return, Exited, clar_tempdir_init, clar_abort,
     clar_tempdir_shutdown, TempdirRemovalFails, vars
<1> QED BY <1>1, <1>2, <1>3, <1>4, <1>5, <1>6, <1>7, <1>8, <1>9, <1>10, Steps DEF Quiet

\* An invoke point does not outlive its test.
LEMMA InvokeStep ==
  ASSUME IInv, Next PROVE InvokeInv'
<1> USE DEF IInv, CountInv, InTest, Between, UserCode, TypeOK, Current, Call,
           Exit, schedule, results, output, jump, user,
           sandboxVars, InvokeInv, JumpInv, NoSite, Site
<1>1. CASE Fails
  <2>1. reports # <<>> /\ Rewritten("FAILURE", Append(reports[Current].errors, Where))
        /\ NewErrors /\ total_errors' = total_errors + 1
    BY <1>1, FailsEffect
  <2>2. CASE cl_check \/ cl_assert \/ cl_fs_cleanup_asserts \/
           CreateSandboxAsserts \/ SandboxCleanupAsserts \/
           TempdirShutdownAsserts
    BY <2>1, <2>2 DEF cl_check, cl_assert, cl_fs_cleanup_asserts,
       CreateSandboxAsserts, SandboxCleanupAsserts, TempdirShutdownAsserts,
       InUserCode, abort_test, TempdirRemovalFails, SandboxRemovalFails,
       Rewritten
  <2> QED BY <1>1, <2>2 DEF Fails
<1>2. CASE cl_skip
  <2>1. Rewritten("SKIP", reports[Current].errors)
    BY <1>2, SkipEffect
  <2> QED
    BY <1>2, <2>1 DEF cl_skip, InUserCode, abort_test, Rewritten
<1>3. CASE Landed
  <2>1. Rewritten(LeftStatus, reports[Current].errors)
    BY <1>3, LandedEffect
  <2> QED
    BY <1>3, <2>1 DEF Landed, Rewritten
<1>4. CASE BeginTest
  <2>1. Len(reports') = Len(reports) + 1 /\ Len(reports) \in Nat
    BY <1>4, BeginTestEffect
  <2> QED
    BY <1>4, <2>1 DEF BeginTest
<1>5. CASE cl_set_cleanup \/ cl_invoke_enter \/ cl_invoke_leave \/ test_chdir \/
         cl_fs_cleanup
  BY <1>5, SMTT(30) DEF cl_set_cleanup, cl_invoke_enter, cl_invoke_leave, test_chdir,
     cl_fs_cleanup, InUserCode, clar_tempdir_shutdown, clar_abort
<1>6. CASE Setjmp \/ InitializeReturns \/ TestReturns \/ LocalCleanupReturns
  BY <1>6 DEF Setjmp, InitializeReturns, TestReturns, LocalCleanupReturns
<1>7. CASE ClearInvokepoint \/ CleanupReturns \/ EndTest
  BY <1>7, SMTT(30) DEF ClearInvokepoint, CleanupReturns, EndTest
<1>8. CASE CreateSandbox \/ SandboxCleanup
  BY <1>8 DEF CreateSandbox, SandboxCleanup, clar_sandbox_create,
     TempdirReached, clar_sandbox_cleanup
<1>9. CASE SkipSuite \/ BeginSuite \/ EndSuite \/ QuitSuite \/ EndRun
  BY <1>9 DEF SkipSuite, BeginSuite, EndSuite, QuitSuite, EndRun
<1>10. CASE clar_test_init \/ clar_test_init_aborts \/ TempdirShutdown \/
         TempdirShutdownCrashes \/ Return \/ Exited
  BY <1>10 DEF clar_test_init, clar_test_init_aborts, TempdirShutdown,
     TempdirShutdownCrashes, Return, Exited, clar_tempdir_init, clar_abort,
     clar_tempdir_shutdown, TempdirRemovalFails, vars
<1> QED BY <1>1, <1>2, <1>3, <1>4, <1>5, <1>6, <1>7, <1>8, <1>9, <1>10, Steps DEF Quiet

\* The sandbox comes and goes with its test.
LEMMA SandboxStep ==
  ASSUME IInv, Next PROVE SandboxInv'
<1> USE DEF IInv, CountInv, InTest, Between, UserCode, TypeOK, Current, Call,
           Exit, schedule, results, output, jump, user,
           sandboxVars, SandboxInv, SandboxTypeOK, Up, Resolves,
           Places, TempdirReached, JumpInv
<1>1. CASE Fails
  <2>1. reports # <<>> /\ Rewritten("FAILURE", Append(reports[Current].errors, Where))
        /\ NewErrors /\ total_errors' = total_errors + 1
    BY <1>1, FailsEffect
  <2>2. CASE cl_check \/ cl_assert \/ cl_fs_cleanup_asserts \/
           CreateSandboxAsserts \/ SandboxCleanupAsserts \/
           TempdirShutdownAsserts
    <3>1. CASE cl_check \/ cl_assert
      BY <2>1, <3>1, SandboxAssumption DEF cl_check, cl_assert, InUserCode, abort_test,
         Rewritten
    <3>2. CASE cl_fs_cleanup_asserts
      BY <2>1, <3>2, SandboxAssumption DEF cl_fs_cleanup_asserts, InUserCode, abort_test,
         TempdirRemovalFails, Rewritten
    <3>3. CASE CreateSandboxAsserts
      BY <2>1, <3>3, SandboxAssumption DEF CreateSandboxAsserts, abort_test, Rewritten
    <3>4. CASE SandboxCleanupAsserts
      BY <2>1, <3>4, SandboxAssumption DEF SandboxCleanupAsserts, abort_test,
         SandboxRemovalFails, Rewritten
    <3>5. CASE TempdirShutdownAsserts
      BY <2>1, <3>5, SandboxAssumption DEF TempdirShutdownAsserts, abort_test,
         TempdirRemovalFails, Rewritten
    <3> QED BY <2>2, <3>1, <3>2, <3>3, <3>4, <3>5
  <2> QED BY <1>1, <2>2 DEF Fails
<1>2. CASE cl_skip
  <2>1. Rewritten("SKIP", reports[Current].errors)
    BY <1>2, SkipEffect
  <2> QED
    BY <1>2, <2>1, SandboxAssumption DEF cl_skip, InUserCode, abort_test, Rewritten
<1>3. CASE Landed
  <2>1. Rewritten(LeftStatus, reports[Current].errors)
    BY <1>3, LandedEffect
  <2> QED
    BY <1>3, <2>1, SandboxAssumption DEF Landed, Rewritten
<1>4. CASE BeginTest
  <2>1. Len(reports') = Len(reports) + 1 /\ Len(reports) \in Nat
    BY <1>4, BeginTestEffect
  <2> QED
    BY <1>4, <2>1 DEF BeginTest
<1>5. CASE cl_set_cleanup \/ cl_invoke_enter \/ cl_invoke_leave \/ test_chdir \/
         cl_fs_cleanup
  BY <1>5, SandboxAssumption, SMTT(30) DEF cl_set_cleanup, cl_invoke_enter,
     cl_invoke_leave, test_chdir, cl_fs_cleanup, InUserCode,
     clar_tempdir_shutdown, clar_abort
<1>6. CASE Setjmp \/ InitializeReturns \/ TestReturns \/ LocalCleanupReturns
  BY <1>6, SandboxAssumption DEF Setjmp, InitializeReturns, TestReturns,
     LocalCleanupReturns
<1>7. CASE ClearInvokepoint \/ CleanupReturns \/ EndTest
  BY <1>7, SandboxAssumption DEF ClearInvokepoint, CleanupReturns, EndTest
<1>8. CASE CreateSandbox
  BY <1>8, SandboxAssumption DEF CreateSandbox, clar_sandbox_create,
     TempdirReached
<1>9. CASE SandboxCleanup
  BY <1>9, SandboxAssumption DEF SandboxCleanup, clar_sandbox_cleanup
<1>10. CASE SkipSuite \/ BeginSuite \/ EndSuite \/ QuitSuite \/ EndRun
  BY <1>10, SandboxAssumption DEF SkipSuite, BeginSuite, EndSuite, QuitSuite,
     EndRun
<1>11. CASE clar_test_init \/ clar_test_init_aborts \/ TempdirShutdown \/
         TempdirShutdownCrashes \/ Return \/ Exited
  BY <1>11, SandboxAssumption DEF clar_test_init, clar_test_init_aborts,
     TempdirShutdown, TempdirShutdownCrashes, Return, Exited, clar_tempdir_init,
     clar_abort, clar_tempdir_shutdown, TempdirRemovalFails, vars
<1> QED BY <1>1, <1>2, <1>3, <1>4, <1>5, <1>6, <1>7, <1>8, <1>9, <1>10, <1>11, Steps DEF
   Quiet

\* Once the last report has a verdict, all have.
LEMMA Settled ==
  ASSUME IInv, reports # <<>>, NEW status, NEW errors, Rewritten(status, errors),
         status # "NOTRUN"
  PROVE  NotRunInv'
<1>1. TypeOK /\ NotRunInv
  BY DEF IInv
<1>2. DOMAIN reports = 1..Len(reports) /\ DOMAIN reports' = 1..Len(reports)
  BY <1>1, CurrentReport, LenProperties DEF Rewritten
<1>3. \A n \in DOMAIN reports' : reports'[n].status # "NOTRUN"
  BY <1>1, <1>2 DEF NotRunInv, Rewritten
<1> QED BY <1>3 DEF NotRunInv

\* A new test has none yet.
LEMMA NotRunBegins == ASSUME IInv, BeginTest PROVE NotRunInv'
<1>1. /\ Len(reports') = Len(reports) + 1
      /\ DOMAIN reports = 1..Len(reports)
      /\ \A n \in DOMAIN reports' : n \in DOMAIN reports \/ n = Len(reports')
      /\ \A n \in DOMAIN reports : reports'[n] = reports[n]
  BY BeginTestEffect
<1>2. \A n \in DOMAIN reports : reports[n].status # "NOTRUN"
  BY DEF BeginTest, IInv, NotRunInv
<1>3. \A n \in DOMAIN reports' : reports'[n].status = "NOTRUN" => n = Len(reports')
  BY <1>1, <1>2
<1>4. pc' = "create"
  BY DEF BeginTest
<1> QED BY <1>3, <1>4 DEF NotRunInv, Current

\* A test that was left has a verdict.
LEMMA NotRunStep ==
  ASSUME IInv, Next PROVE NotRunInv'
<1> USE DEF IInv, CountInv, InTest, Between, UserCode, TypeOK, Current, Call,
           Exit, schedule, results, output, jump, user,
           sandboxVars, NotRunInv, JumpInv
<1>1. CASE Fails
  <2>1. reports # <<>> /\ Rewritten("FAILURE", Append(reports[Current].errors, Where))
    BY <1>1, FailsEffect
  <2> QED BY <2>1, Settled
<1>2. CASE cl_skip
  <2>1. reports # <<>> /\ Rewritten("SKIP", reports[Current].errors)
    BY <1>2, SkipEffect
  <2> QED BY <2>1, Settled
<1>3. CASE Landed
  <2>1. reports # <<>> /\ Rewritten(LeftStatus, reports[Current].errors)
    BY <1>3, LandedEffect
  <2>2. LeftStatus # "NOTRUN"
    BY DEF LeftStatus
  <2> QED BY <2>1, <2>2, Settled
<1>4. CASE BeginTest
  BY <1>4, NotRunBegins
<1>5. CASE cl_set_cleanup \/ cl_invoke_enter \/ cl_invoke_leave \/ test_chdir \/
         cl_fs_cleanup
  BY <1>5 DEF cl_set_cleanup, cl_invoke_enter, cl_invoke_leave, test_chdir,
     cl_fs_cleanup, InUserCode, clar_tempdir_shutdown, clar_abort
<1>6. CASE Setjmp \/ InitializeReturns \/ TestReturns \/ LocalCleanupReturns
  BY <1>6 DEF Setjmp, InitializeReturns, TestReturns, LocalCleanupReturns
<1>7. CASE ClearInvokepoint \/ CleanupReturns \/ EndTest
  BY <1>7 DEF ClearInvokepoint, CleanupReturns, EndTest
<1>8. CASE CreateSandbox \/ SandboxCleanup
  BY <1>8 DEF CreateSandbox, SandboxCleanup, clar_sandbox_create,
     TempdirReached, clar_sandbox_cleanup
<1>9. CASE SkipSuite \/ BeginSuite \/ EndSuite \/ QuitSuite \/ EndRun
  BY <1>9 DEF SkipSuite, BeginSuite, EndSuite, QuitSuite, EndRun
<1>10. CASE clar_test_init \/ clar_test_init_aborts \/ TempdirShutdown \/
         TempdirShutdownCrashes \/ Return \/ Exited
  BY <1>10 DEF clar_test_init, clar_test_init_aborts, TempdirShutdown,
     TempdirShutdownCrashes, Return, Exited, clar_tempdir_init, clar_abort,
     clar_tempdir_shutdown, TempdirRemovalFails, vars
<1> QED BY <1>1, <1>2, <1>3, <1>4, <1>5, <1>6, <1>7, <1>8, <1>9, <1>10, Steps DEF Quiet

\* No printed verdict is changed.
LEMMA PrintedStep ==
  ASSUME IInv, Next PROVE PrintedIsFinal'
<1>1. /\ TypeOK /\ PrintedIsFinal /\ CountInv /\ JumpInv
      /\ printed \in Seq(Statuses) /\ tests_ran \in Nat
      /\ DOMAIN printed = 1..Len(printed) /\ Len(printed) \in Nat
  BY LenProperties DEF IInv, TypeOK
<1>2. ASSUME reports # <<>>, NEW status, NEW errors, Rewritten(status, errors),
             pc \in InTest, UNCHANGED <<printed, tests_ran>>
      PROVE  PrintedIsFinal'
  <2>1. /\ Current = tests_ran + 1 /\ Len(printed) = tests_ran
        /\ \A k \in DOMAIN printed : printed[k] = reports[k].status
    BY <1>1, <1>2 DEF PrintedIsFinal, InTest, UserCode, CountInv
  <2>2. \A k \in DOMAIN printed : k \in 1..Len(reports) /\ k # Current
    BY <1>1, <2>1 DEF Current
  <2> QED BY <1>2, <2>1, <2>2 DEF PrintedIsFinal, Rewritten
<1>3. CASE Fails
  <2>1. /\ reports # <<>>
        /\ Rewritten("FAILURE", Append(reports[Current].errors, Where))
    BY <1>3, FailsEffect
  <2>2. UNCHANGED <<printed, tests_ran>>
    BY <1>3 DEF Fails, cl_check, cl_assert, cl_fs_cleanup_asserts,
       CreateSandboxAsserts, SandboxCleanupAsserts, TempdirShutdownAsserts, output
  <2>3. pc \in InTest \/ pc' = "exited"
    BY <1>1, <1>3 DEF Fails, cl_check, cl_assert, cl_fs_cleanup_asserts,
       CreateSandboxAsserts, SandboxCleanupAsserts, TempdirShutdownAsserts,
       InUserCode, InTest, JumpInv, abort_test, Exit
  <2> QED BY <1>2, <2>1, <2>2, <2>3 DEF PrintedIsFinal
<1>4. CASE cl_skip
  <2>1. reports # <<>> /\ Rewritten("SKIP", reports[Current].errors)
    BY <1>4, SkipEffect
  <2>2. pc \in InTest /\ UNCHANGED <<printed, tests_ran>>
    BY <1>4 DEF cl_skip, InUserCode, InTest, output
  <2> QED BY <1>2, <2>1, <2>2
<1>5. CASE Landed
  <2>1. reports # <<>> /\ Rewritten(LeftStatus, reports[Current].errors)
    BY <1>5, LandedEffect
  <2>2. pc \in InTest /\ UNCHANGED <<printed, tests_ran>>
    BY <1>5 DEF Landed, InTest, output
  <2> QED BY <1>2, <2>1, <2>2
<1>6. CASE BeginTest
  <2>1. /\ \A n \in 1..Len(reports) : reports'[n] = reports[n]
        /\ Len(reports) \in Nat
    BY <1>6, BeginTestEffect
  <2>2. /\ UNCHANGED <<printed, tests_ran>> /\ pc = "next"
    BY <1>6 DEF BeginTest, output
  <2>3. Len(reports) = tests_ran /\ Len(printed) = tests_ran
    BY <1>1, <2>2 DEF CountInv, Between, Current
  <2> QED BY <1>1, <2>1, <2>2, <2>3 DEF PrintedIsFinal
<1>7. CASE EndTest
  <2>1. /\ pc = "end" /\ tests_ran' = tests_ran + 1 /\ UNCHANGED reports
        /\ printed' = Append(printed, reports[Current].status)
    BY <1>7 DEF EndTest, results
  <2>2. Current = tests_ran + 1 /\ Len(printed) = tests_ran
    BY <1>1, <2>1 DEF CountInv, InTest
  <2>3. reports[Current].status \in Statuses
    BY <1>1, <2>1, <2>2, CurrentReport, InTestHasReport DEF InTest
  <2>4. /\ printed' \in Seq(Statuses) /\ Len(printed') = tests_ran + 1
        /\ \A k \in 1..tests_ran : printed'[k] = printed[k]
        /\ printed'[tests_ran + 1] = reports[tests_ran + 1].status
    BY <1>1, <2>1, <2>2, <2>3, AppendProperties
  <2>5. DOMAIN printed' = 1..(tests_ran + 1)
    BY <2>4, LenProperties
  <2>6. \A k \in 1..(tests_ran + 1) : k \in 1..tests_ran \/ k = tests_ran + 1
    BY <1>1
  <2> QED BY <1>1, <2>1, <2>2, <2>4, <2>5, <2>6 DEF PrintedIsFinal
<1>8. CASE Quiet /\ ~EndTest
  <2>1. UNCHANGED <<reports, printed, tests_ran>> /\ (pc = "exited" => pc' = "exited")
    BY <1>8, QuietEffect DEF Quiet, cl_set_cleanup, cl_invoke_enter,
       cl_invoke_leave, test_chdir, cl_fs_cleanup, CreateSandbox, Setjmp,
       InitializeReturns, TestReturns, LocalCleanupReturns, ClearInvokepoint,
       CleanupReturns, SandboxCleanup, clar_test_init, clar_test_init_aborts,
       SkipSuite, BeginSuite, EndSuite, QuitSuite, EndRun, TempdirShutdown,
       TempdirShutdownCrashes, Return, Exited, vars, output, InUserCode, UserCode
  <2> QED BY <1>1, <2>1 DEF PrintedIsFinal
<1> QED BY <1>3, <1>4, <1>5, <1>6, <1>7, <1>8, Steps

\* A process that has exited does nothing more.
LEMMA ExitedStays ==
  ASSUME Next, pc = "exited" PROVE UNCHANGED vars
BY DEF Next, CallsApi, RunsTest, RunsSuites, cl_check, cl_assert, cl_skip,
   cl_set_cleanup, cl_invoke_enter, cl_invoke_leave, test_chdir, cl_fs_cleanup,
   cl_fs_cleanup_asserts, CreateSandbox, CreateSandboxAsserts, Setjmp,
   InitializeReturns, TestReturns, Landed, LocalCleanupReturns, ClearInvokepoint,
   CleanupReturns, SandboxCleanup, SandboxCleanupAsserts, EndTest, clar_test_init,
   clar_test_init_aborts, SkipSuite, BeginSuite, BeginTest, EndSuite, QuitSuite,
   EndRun, TempdirShutdown, TempdirShutdownAsserts, TempdirShutdownCrashes,
   Return, Exited, InUserCode, UserCode

\* Status 0 is only reached at the end of the schedule.
LEMMA ExitStep ==
  ASSUME IInv, Next PROVE ExitInv'
<1>1. TypeOK /\ ExitInv /\ CountInv /\ total_errors \in Nat
  BY DEF IInv, TypeOK
<1>2. CASE pc = "exited"
  BY <1>1, <1>2, ExitedStays DEF ExitInv, vars, schedule, results, output, Current
<1>3. CASE Return
  <2>1. /\ pc = "summary" /\ pc' = "exited"
        /\ UNCHANGED <<at, total_errors, reports, tests_ran>>
        /\ exit' = total_errors % ExitModulus \/ exit' # 0
    BY <1>3 DEF Return, clar_abort, Exit, Killed, schedule, results, output
  <2>2. at > Len(Entries) /\ Current = tests_ran
    BY <1>1, <2>1 DEF CountInv, Between
  <2>3. total_errors < ExitModulus => total_errors % ExitModulus = total_errors
    BY <1>1, RunAssumption
  <2> QED BY <2>1, <2>2, <2>3 DEF ExitInv, Current
<1>4. CASE pc # "exited" /\ ~Return
  <2>1. exit = Running
    BY <1>1, <1>4 DEF ExitInv
  <2>2. \/ exit' = exit /\ pc' # "exited"
        \/ exit' \in {1, 255, Killed} /\ pc' = "exited"
    <3>1. CASE CallsApi
      BY <1>4, <3>1 DEF CallsApi, cl_check, cl_assert, cl_skip, cl_set_cleanup,
         cl_invoke_enter, cl_invoke_leave, test_chdir, cl_fs_cleanup,
         cl_fs_cleanup_asserts, abort_test, clar_abort, Exit, Call
    <3>2. CASE RunsTest
      BY <1>4, <3>2 DEF RunsTest, CreateSandbox, CreateSandboxAsserts, Setjmp,
         InitializeReturns, TestReturns, Landed, LocalCleanupReturns,
         ClearInvokepoint, CleanupReturns, SandboxCleanup, SandboxCleanupAsserts,
         EndTest, abort_test, Exit, Call
    <3>3. CASE RunsSuites
      BY <1>4, <3>3 DEF RunsSuites, clar_test_init, clar_test_init_aborts,
         SkipSuite, BeginSuite, BeginTest, EndSuite, QuitSuite, EndRun,
         TempdirShutdown, TempdirShutdownAsserts, TempdirShutdownCrashes,
         abort_test, clar_abort, Exit, Call
    <3> QED BY <1>4, <3>1, <3>2, <3>3 DEF Next, Exited
  <2> QED BY <2>1, <2>2 DEF ExitInv, Running, Killed
<1> QED BY <1>2, <1>3, <1>4

\* A test that was begun stays so.
LEMMA RanStays ==
  ASSUME IInv, Next PROVE \A i, k : Ran(i, k) => Ran(i, k)'
<1>1. TypeOK
  BY DEF IInv
<1>2. CASE Fails \/ cl_skip \/ Landed
  <2>1. \E status, errors : reports # <<>> /\ Rewritten(status, errors)
    BY <1>2, FailsEffect, SkipEffect, LandedEffect
  <2> QED BY <1>1, <2>1, RanKept
<1>3. CASE BeginTest
  <2>1. /\ DOMAIN reports = 1..Len(reports) /\ DOMAIN reports' = 1..(Len(reports) + 1)
        /\ \A n \in 1..Len(reports) : reports'[n] = reports[n]
        /\ Len(reports) \in Nat
    BY <1>3, BeginTestEffect
  <2> QED BY <2>1 DEF Ran
<1>4. CASE Quiet
  BY <1>4, QuietEffect DEF Ran
<1> QED BY <1>2, <1>3, <1>4, Steps

\* A step records one error or none.
LEMMA ErrorsCount ==
  ASSUME IInv, Next
  PROVE  total_errors' = total_errors + 1 \/ UNCHANGED total_errors
<1>1. CASE Fails
  BY <1>1, FailsEffect
<1>2. CASE Quiet
  BY <1>2, QuietEffect
<1> QED BY <1>1, <1>2, Steps DEF cl_skip, Landed, BeginTest

\* What the command line said stays said.
LEMMA OptionsStay == ASSUME Next PROVE UNCHANGED <<enabled, exit_on_error>>
<1>1. CASE CallsApi \/ RunsTest
  BY <1>1 DEF CallsApi, RunsTest, cl_check, cl_assert, cl_skip, cl_set_cleanup,
     cl_invoke_enter, cl_invoke_leave, test_chdir, cl_fs_cleanup,
     cl_fs_cleanup_asserts, CreateSandbox, CreateSandboxAsserts, Setjmp,
     InitializeReturns, TestReturns, Landed, LocalCleanupReturns,
     ClearInvokepoint, CleanupReturns, SandboxCleanup, SandboxCleanupAsserts,
     EndTest, schedule
<1>2. CASE RunsSuites \/ Exited
  BY <1>2 DEF RunsSuites, clar_test_init, clar_test_init_aborts, SkipSuite,
     BeginSuite, BeginTest, EndSuite, QuitSuite, EndRun, TempdirShutdown,
     TempdirShutdownAsserts, TempdirShutdownCrashes, Return, Exited, vars,
     schedule
<1> QED BY <1>1, <1>2 DEF Next

\* The number of errors never goes down, so -Q does not change its mind.
LEMMA StopStays ==
  ASSUME IInv, Next
  PROVE  total_errors' >= total_errors /\ (StopNow => StopNow')
<1>1. total_errors \in Nat
  BY DEF IInv, TypeOK
<1>2. total_errors' = total_errors + 1 \/ UNCHANGED total_errors
  BY ErrorsCount
<1> QED BY <1>1, <1>2, OptionsStay DEF StopNow

\* No test of the schedule is left out.
LEMMA ScheduleStep ==
  ASSUME IInv, Next PROVE ScheduleInv'
<1> DEFINE Done(i) == \A k \in 1..Entries[i].tests : Ran(i, k)
<1> SUFFICES ASSUME ~StopNow'
             PROVE  /\ \A i \in DOMAIN Entries \cap enabled : i < at' => Done(i)'
                    /\ pc' \in InTest \cup {"next"} => \A k \in 1..nth' : Ran(at, k)'
  BY OptionsStay DEF ScheduleInv
<1>1. /\ \A i \in DOMAIN Entries \cap enabled : i < at => Done(i)
      /\ pc \in InTest \cup {"next"} => \A k \in 1..nth : Ran(at, k)
      /\ ~StopNow
  BY StopStays DEF IInv, ScheduleInv
<1>2. /\ \A i, k : Ran(i, k) => Ran(i, k)'
      /\ \A i : Done(i) => Done(i)'
  BY RanStays
<1>3. /\ at \in Nat /\ nth \in Nat /\ DOMAIN Entries = 1..Len(Entries)
      /\ Len(Entries) \in Nat
      /\ \A i \in DOMAIN Entries : Entries[i].tests \in Nat
      /\ pc = "next" => at \in DOMAIN Entries
  <2>1. /\ Entries \in Seq(Suite) /\ DOMAIN Entries = 1..Len(Entries)
        /\ Len(Entries) \in Nat
    BY RunAssumption, LenProperties
  <2>2. \A i \in DOMAIN Entries : Entries[i] \in Suite
    BY <2>1, ElementOfSeq
  <2>3. \A i \in DOMAIN Entries : Entries[i].tests \in Nat
    BY <2>2 DEF Suite
  <2> QED BY <2>1, <2>3 DEF IInv, TypeOK, CountInv
<1> HIDE DEF Done
<1>4. \A i \in DOMAIN Entries : i < at + 1 => i < at \/ i = at
  BY <1>3
<1>5. CASE SkipSuite
  <2>1. at' = at + 1 /\ pc' = "suite" /\ at \notin enabled
    BY <1>1, <1>5 DEF SkipSuite, Entry
  <2> QED BY <1>1, <1>2, <1>4, <2>1 DEF InTest, UserCode
<1>6. CASE BeginSuite
  <2>1. at' = at /\ nth' = 0
    BY <1>6 DEF BeginSuite
  <2> QED BY <1>1, <1>2, <2>1
<1>7. CASE BeginTest
  <2>1. at' = at /\ nth' = nth + 1 /\ pc = "next"
    BY <1>7 DEF BeginTest
  <2>2. Ran(at, nth)'
    <3>1. /\ Len(reports) + 1 \in DOMAIN reports'
          /\ reports'[Len(reports) + 1].suite = at
          /\ reports'[Len(reports) + 1].test = nth + 1
      BY <1>7, BeginTestEffect
    <3> QED BY <2>1, <3>1 DEF Ran
  <2>3. \A k \in 1..(nth + 1) : k \in 1..nth \/ k = nth + 1
    BY <1>3
  <2>4. \A k \in 1..nth' : Ran(at, k)'
    BY <1>1, <1>2, <2>1, <2>2, <2>3
  <2> QED BY <1>1, <1>2, <2>1, <2>4
<1>8. CASE EndSuite
  <2>1. at' = at + 1 /\ pc' = "suite" /\ nth >= Entries[at].tests /\ pc = "next"
    BY <1>8 DEF EndSuite, Call, Entry
  <2>2. Done(at)
    BY <1>1, <1>3, <2>1 DEF Done
  <2> QED BY <1>1, <1>2, <1>4, <2>1, <2>2 DEF InTest, UserCode
<1>9. CASE QuitSuite
  BY <1>1, <1>9 DEF QuitSuite
<1>10. CASE ~(SkipSuite \/ BeginSuite \/ BeginTest \/ EndSuite \/ QuitSuite)
  <2>1. /\ UNCHANGED <<at, nth>>
        /\ pc' \in InTest \cup {"next"} => pc \in InTest \cup {"next"}
    <3> USE DEF InTest, UserCode
    <3>1. CASE CallsApi
      BY <3>1 DEF CallsApi, cl_check, cl_assert, cl_skip, cl_set_cleanup,
         cl_invoke_enter, cl_invoke_leave, test_chdir, cl_fs_cleanup,
         cl_fs_cleanup_asserts, InUserCode, schedule
    <3>2. CASE RunsTest
      BY <3>2 DEF RunsTest, CreateSandbox, CreateSandboxAsserts, Setjmp,
         InitializeReturns, TestReturns, Landed, LocalCleanupReturns,
         ClearInvokepoint, CleanupReturns, SandboxCleanup, SandboxCleanupAsserts,
         EndTest, schedule
    <3>3. CASE clar_test_init \/ clar_test_init_aborts \/ EndRun \/ Return
               \/ TempdirShutdown \/ TempdirShutdownCrashes \/ Exited
      BY <3>3 DEF clar_test_init, clar_test_init_aborts, EndRun, TempdirShutdown,
         TempdirShutdownCrashes, Return, Exited, vars, schedule, clar_abort, Exit
    <3>4. CASE TempdirShutdownAsserts
      BY <3>4 DEF TempdirShutdownAsserts, abort_test, Exit, IInv, JumpInv, schedule
    <3> QED BY <1>10, <3>1, <3>2, <3>3, <3>4 DEF Next, RunsSuites
  <2> QED BY <1>1, <1>2, <2>1
<1> QED BY <1>5, <1>6, <1>7, <1>8, <1>9, <1>10

\* The driver is always at one of its points.
LEMMA PlaceStep ==
  ASSUME IInv, Next PROVE pc' \in Points
<1>1. pc \in Points
  BY DEF IInv, TypeOK
<1> USE DEF Points, UserCode
<1>2. CASE CallsApi
  BY <1>1, <1>2 DEF CallsApi, cl_check, cl_assert, cl_skip, cl_set_cleanup,
     cl_invoke_enter, cl_invoke_leave, test_chdir, cl_fs_cleanup,
     cl_fs_cleanup_asserts, abort_test, clar_abort, Call, Exit
<1>3. CASE RunsTest
  BY <1>1, <1>3 DEF RunsTest, CreateSandbox, CreateSandboxAsserts, Setjmp,
     InitializeReturns, TestReturns, Landed, LocalCleanupReturns,
     ClearInvokepoint, CleanupReturns, SandboxCleanup, SandboxCleanupAsserts,
     EndTest, abort_test, clar_abort, Call, Exit
<1>4. CASE RunsSuites
  BY <1>1, <1>4 DEF RunsSuites, clar_test_init, clar_test_init_aborts,
     SkipSuite, BeginSuite, BeginTest, EndSuite, QuitSuite, EndRun,
     TempdirShutdown, TempdirShutdownAsserts, TempdirShutdownCrashes, Return,
     abort_test, clar_abort, Call, Exit
<1>5. CASE Exited
  BY <1>1, <1>5 DEF Exited, vars
<1> QED BY <1>2, <1>3, <1>4, <1>5 DEF Next

\* The last event is one of those there are.
LEMMA EventTypeStep ==
  ASSUME IInv, Next PROVE event' \in Event
<1>1. /\ event \in Event
      /\ \A phase \in Phases : Trace(phase) => event' \in Event
  BY LenProperties DEF IInv, TypeOK, Trace, Event, Current
<1>2. BeginTest => event' \in Event
  BY LenProperties DEF IInv, TypeOK, BeginTest, Event, Current, Phases
<1> USE DEF Phases, UserCode
<1>3. CASE CallsApi
  BY <1>1, <1>2, <1>3 DEF CallsApi, cl_check, cl_assert, cl_skip,
     cl_set_cleanup, cl_invoke_enter, cl_invoke_leave, test_chdir,
     cl_fs_cleanup, cl_fs_cleanup_asserts, abort_test, Call
<1>4. CASE RunsTest
  BY <1>1, <1>2, <1>4 DEF RunsTest, CreateSandbox, CreateSandboxAsserts, Setjmp,
     InitializeReturns, TestReturns, Landed, LocalCleanupReturns,
     ClearInvokepoint, CleanupReturns, SandboxCleanup, SandboxCleanupAsserts,
     EndTest, abort_test, Call
<1>5. CASE RunsSuites
  BY <1>1, <1>2, <1>5 DEF RunsSuites, clar_test_init, clar_test_init_aborts,
     SkipSuite, BeginSuite, BeginTest, EndSuite, QuitSuite, EndRun,
     TempdirShutdown, TempdirShutdownAsserts, TempdirShutdownCrashes, Return,
     abort_test, Call
<1>6. CASE Exited
  BY <1>1, <1>2, <1>6 DEF Exited, vars
<1> QED BY <1>3, <1>4, <1>5, <1>6 DEF Next

\* The directories keep their types.
LEMMA DirsTypeStep ==
  ASSUME IInv, Next PROVE SandboxTypeOK'
<1>1. SandboxTypeOK /\ Current \in Nat /\ Up \in Places
  BY LenProperties DEF IInv, TypeOK, Current, Up, Places
<1> USE DEF SandboxTypeOK, sandboxVars
<1>2. CASE CallsApi
  BY <1>1, <1>2 DEF CallsApi, cl_check, cl_assert, cl_skip, cl_set_cleanup,
     cl_invoke_enter, cl_invoke_leave, test_chdir, cl_fs_cleanup,
     cl_fs_cleanup_asserts, clar_tempdir_shutdown, TempdirRemovalFails, Places
<1>3. CASE RunsTest
  <2>1. CASE CreateSandbox
    <3>1. /\ tempdir' = tempdir /\ sandbox' = Current
          /\ dirs' = dirs \cup {Current} \/ dirs' = dirs
          /\ cwd' = "sandbox" \/ cwd' = cwd
      BY <2>1 DEF CreateSandbox, clar_sandbox_create
    <3> QED BY <1>1, <3>1 DEF Places
  <2>2. CASE SandboxCleanup
    <3>1. /\ tempdir' = tempdir 
          /\ sandbox' = sandbox \/ sandbox' = 0
          /\ dirs' = dirs \ {sandbox} \/ dirs' = dirs
          /\ cwd' = "tempdir" \/ cwd' = cwd
      BY <2>2 DEF SandboxCleanup, clar_sandbox_cleanup
    <3>2. dirs' \subseteq Nat
      BY <1>1, <3>1
    <3> QED BY <1>1, <3>1, <3>2 DEF Places
  <2>3. CASE SandboxCleanupAsserts
    BY <1>1, <2>3 DEF SandboxCleanupAsserts, SandboxRemovalFails, Places
  <2>4. CASE ~(CreateSandbox \/ SandboxCleanup \/ SandboxCleanupAsserts)
    BY <1>1, <1>3, <2>4 DEF RunsTest, CreateSandboxAsserts, Setjmp,
       InitializeReturns, TestReturns, Landed, LocalCleanupReturns,
       ClearInvokepoint, CleanupReturns, EndTest
  <2> QED BY <2>1, <2>2, <2>3, <2>4
<1>4. CASE RunsSuites
  BY <1>1, <1>4 DEF RunsSuites, clar_test_init, clar_test_init_aborts,
     SkipSuite, BeginSuite, BeginTest, EndSuite, QuitSuite, EndRun,
     TempdirShutdown, TempdirShutdownAsserts, TempdirShutdownCrashes, Return,
     clar_tempdir_init, clar_tempdir_shutdown, TempdirRemovalFails, Places
<1>5. CASE Exited
  BY <1>1, <1>5 DEF Exited, vars, sandboxVars
<1> QED BY <1>2, <1>3, <1>4, <1>5 DEF Next

\* The types of the driver's numbers and flags.
ProgressOK ==
  /\ exit \in Nat \cup {Running, Killed}
  /\ at \in Nat \ {0} /\ nth \in Nat
  /\ tests_ran \in Nat
  /\ exit_on_error \in BOOLEAN /\ enabled \in Selections

\* The driver's numbers and flags keep their types.
LEMMA ProgressStep ==
  ASSUME IInv, Next PROVE ProgressOK'
<1>1. ProgressOK
  BY DEF IInv, TypeOK, ProgressOK
<1>2. total_errors % ExitModulus \in Nat
  BY RunAssumption DEF IInv, TypeOK
<1> USE DEF ProgressOK, schedule, output
<1>3. CASE CallsApi
  BY <1>1, <1>2, <1>3 DEF CallsApi, cl_check, cl_assert, cl_skip,
     cl_set_cleanup, cl_invoke_enter, cl_invoke_leave, test_chdir,
     cl_fs_cleanup, cl_fs_cleanup_asserts, abort_test, clar_abort, Exit, Call
<1>4. CASE RunsTest
  BY <1>1, <1>2, <1>4 DEF RunsTest, CreateSandbox, CreateSandboxAsserts, Setjmp,
     InitializeReturns, TestReturns, Landed, LocalCleanupReturns,
     ClearInvokepoint, CleanupReturns, SandboxCleanup, SandboxCleanupAsserts,
     EndTest, abort_test, clar_abort, Exit, Call
<1>5. CASE RunsSuites
  BY <1>1, <1>2, <1>5 DEF RunsSuites, clar_test_init, clar_test_init_aborts,
     SkipSuite, BeginSuite, BeginTest, EndSuite, QuitSuite, EndRun,
     TempdirShutdown, TempdirShutdownAsserts, TempdirShutdownCrashes, Return,
     abort_test, clar_abort, Exit, Call
<1>6. CASE Exited
  BY <1>1, <1>2, <1>6 DEF Exited, vars
<1> QED BY <1>3, <1>4, <1>5, <1>6 DEF Next

\* The types of what belongs to the test.
ContextOK ==
  /\ trampoline_enabled \in BOOLEAN
  /\ trampoline \in Nat
  /\ local_cleanup \in Nat
  /\ invoke \in Site
  /\ depth \in Nat /\ calls \in Nat

\* What belongs to the test keeps its type.
LEMMA ContextStep ==
  ASSUME IInv, Next PROVE ContextOK'
<1>1. /\ ContextOK /\ Current \in Nat /\ NoSite \in Site
      /\ [test |-> Current, level |-> depth] \in Site
  BY LenProperties DEF IInv, TypeOK, Current, NoSite, Site, ContextOK
<1>2. abort_test => depth' = 0 \/ depth' = depth
  BY DEF abort_test
<1> USE DEF ContextOK, jump, user
<1>3. CASE CallsApi
  BY <1>1, <1>2, <1>3 DEF CallsApi, cl_check, cl_assert, cl_skip, cl_set_cleanup,
     cl_invoke_enter, cl_invoke_leave, test_chdir, cl_fs_cleanup,
     cl_fs_cleanup_asserts, InUserCode
<1>4. CASE RunsTest
  <2>1. CASE Setjmp
    BY <1>1, <2>1 DEF Setjmp
  <2>5. CASE Landed
    <3>1. /\ trampoline_enabled' = FALSE /\ calls' = 0
          /\ UNCHANGED <<trampoline, local_cleanup, invoke, depth>>
      BY <2>5 DEF Landed
    <3> QED BY <1>1, <3>1
  <2>2. CASE ClearInvokepoint \/ EndTest
    BY <1>1, <2>2 DEF ClearInvokepoint, EndTest
  <2>3. CASE CreateSandboxAsserts \/ SandboxCleanupAsserts
    BY <1>1, <1>2, <2>3 DEF CreateSandboxAsserts, SandboxCleanupAsserts
  <2>4. CASE ~(Setjmp \/ Landed \/ ClearInvokepoint \/ EndTest
               \/ CreateSandboxAsserts \/ SandboxCleanupAsserts)
    BY <1>1, <1>4, <2>4 DEF RunsTest, CreateSandbox, InitializeReturns,
       TestReturns, LocalCleanupReturns, CleanupReturns, SandboxCleanup
  <2> QED BY <2>1, <2>2, <2>3, <2>4, <2>5
<1>5. CASE RunsSuites
  <2>1. CASE BeginTest
    BY <1>1, <2>1 DEF BeginTest
  <2>2. CASE TempdirShutdownAsserts
    BY <1>1, <1>2, <2>2 DEF TempdirShutdownAsserts
  <2>3. CASE ~(BeginTest \/ TempdirShutdownAsserts)
    BY <1>1, <1>5, <2>3 DEF RunsSuites, clar_test_init, clar_test_init_aborts,
       SkipSuite, BeginSuite, EndSuite, QuitSuite, EndRun, TempdirShutdown,
       TempdirShutdownCrashes, Return
  <2> QED BY <2>1, <2>2, <2>3
<1>6. CASE Exited
  BY <1>1, <1>2, <1>6 DEF Exited, vars
<1> QED BY <1>3, <1>4, <1>5, <1>6 DEF Next

\* The list of reports keeps its type.
LEMMA ReportsStep ==
  ASSUME IInv, Next PROVE reports' \in Seq(Report)
<1>1. CASE Fails \/ cl_skip \/ Landed
  BY <1>1, FailsEffect, SkipEffect, LandedEffect DEF Rewritten
<1>2. CASE BeginTest
  BY <1>2, BeginTestEffect
<1>3. CASE Quiet
  BY <1>3, QuietEffect DEF IInv, TypeOK
<1> QED BY <1>1, <1>2, <1>3, Steps

\* So do the printed statuses.
LEMMA StatusesStep ==
  ASSUME IInv, Next PROVE printed' \in Seq(Statuses)
<1>1. TypeOK /\ printed \in Seq(Statuses)
  BY DEF IInv, TypeOK
<1>2. CASE EndTest
  <2>1. printed' = Append(printed, reports[Current].status)
    BY <1>2 DEF EndTest
  <2>2. reports[Current].status \in Statuses
    BY <1>1, <1>2, CurrentReport, InTestHasReport DEF EndTest, InTest
  <2> QED BY <1>1, <2>1, <2>2, AppendProperties
<1>3. CASE CallsApi
  BY <1>1, <1>3 DEF CallsApi, cl_check, cl_assert, cl_skip, cl_set_cleanup,
     cl_invoke_enter, cl_invoke_leave, test_chdir, cl_fs_cleanup,
     cl_fs_cleanup_asserts, output
<1>4. CASE RunsTest /\ ~EndTest
  BY <1>1, <1>4 DEF RunsTest, CreateSandbox, CreateSandboxAsserts, Setjmp,
     InitializeReturns, TestReturns, Landed, LocalCleanupReturns,
     ClearInvokepoint, CleanupReturns, SandboxCleanup, SandboxCleanupAsserts,
     output
<1>5. CASE RunsSuites \/ Exited
  BY <1>1, <1>5 DEF RunsSuites, clar_test_init, clar_test_init_aborts,
     SkipSuite, BeginSuite, BeginTest, EndSuite, QuitSuite, EndRun,
     TempdirShutdown, TempdirShutdownAsserts, TempdirShutdownCrashes, Return,
     Exited, vars, output
<1> QED BY <1>2, <1>3, <1>4, <1>5 DEF Next

\* All variables keep their types.
LEMMA TypeStep ==
  ASSUME IInv, Next PROVE TypeOK'
<1>1. total_errors' \in Nat
  BY ErrorsCount DEF IInv, TypeOK
<1> QED BY <1>1, PlaceStep, EventTypeStep, DirsTypeStep, ProgressStep, ContextStep,
           ReportsStep, StatusesStep DEF TypeOK, ProgressOK, ContextOK

\* The last event fits the point that is reached.
LEMMA EventStep ==
  ASSUME IInv, Next PROVE EventInv'
<1> USE DEF IInv, CountInv, InTest, Between, UserCode, TypeOK, Current, Call,
           Exit, schedule, results, output, jump, user,
           sandboxVars, EventInv, Due, CleanupInv, JumpInv,
           StopNow, Entry, Trace
<1>1. CASE Fails
  <2>1. reports # <<>> /\ Rewritten("FAILURE", Append(reports[Current].errors, Where))
        /\ NewErrors /\ total_errors' = total_errors + 1
    BY <1>1, FailsEffect
  <2>2. CASE cl_check
    BY <2>1, <2>2 DEF cl_check, InUserCode, Rewritten
  <2>6. CASE cl_assert
    BY <2>1, <2>6, SMTT(30) DEF cl_assert, InUserCode, abort_test, Rewritten
  <2>3. CASE cl_fs_cleanup_asserts
    BY <2>1, <2>3, SMTT(30) DEF cl_fs_cleanup_asserts, InUserCode, abort_test,
       TempdirRemovalFails, Rewritten
  <2>4. CASE CreateSandboxAsserts
    BY <2>1, <2>4 DEF CreateSandboxAsserts, abort_test, Rewritten
  <2>5. CASE SandboxCleanupAsserts \/ TempdirShutdownAsserts
    BY <2>1, <2>5 DEF SandboxCleanupAsserts, TempdirShutdownAsserts, abort_test,
       SandboxRemovalFails, TempdirRemovalFails, Rewritten
  <2> QED BY <1>1, <2>2, <2>3, <2>4, <2>5, <2>6 DEF Fails
<1>2. CASE cl_skip
  <2>1. Rewritten("SKIP", reports[Current].errors)
    BY <1>2, SkipEffect
  <2> QED
    BY <1>2, <2>1 DEF cl_skip, InUserCode, abort_test, Rewritten
<1>3. CASE Landed
  <2>1. Rewritten(LeftStatus, reports[Current].errors)
    BY <1>3, LandedEffect
  <2> QED
    BY <1>3, <2>1 DEF Landed, Rewritten
<1>4. CASE BeginTest
  <2>1. Len(reports') = Len(reports) + 1 /\ Len(reports) \in Nat
    BY <1>4, BeginTestEffect
  <2> QED
    BY <1>4, <2>1 DEF BeginTest
<1>5. CASE cl_set_cleanup
  BY <1>5 DEF cl_set_cleanup, InUserCode
<1>15. CASE cl_invoke_enter \/ cl_invoke_leave \/ test_chdir
  <2>1. UNCHANGED <<pc, event, local_cleanup, at, exit_on_error, total_errors, reports>>
    BY <1>15 DEF cl_invoke_enter, cl_invoke_leave, test_chdir
  <2>2. EventInv
    OBVIOUS
  <2> QED BY ONLY <2>1, <2>2 DEF EventInv, Due, Entry, Current, StopNow
<1>14. CASE cl_fs_cleanup
  <2>1. pc' = "exited" /\ UNCHANGED <<event, reports>>
    BY <1>14 DEF cl_fs_cleanup, clar_abort
  <2>2. EventInv
    OBVIOUS
  <2> QED BY ONLY <2>1, <2>2 DEF EventInv, Current, InTest, UserCode
<1>6. CASE Setjmp \/ InitializeReturns \/ TestReturns \/ LocalCleanupReturns
  BY <1>6, SMTT(30) DEF Setjmp, InitializeReturns, TestReturns, LocalCleanupReturns
<1>7. CASE ClearInvokepoint
  BY <1>7 DEF ClearInvokepoint
<1>8. CASE CleanupReturns
  BY <1>8 DEF CleanupReturns
<1>9. CASE EndTest
  BY <1>9 DEF EndTest
<1>10. CASE CreateSandbox \/ SandboxCleanup
  BY <1>10 DEF CreateSandbox, SandboxCleanup, clar_sandbox_create,
     TempdirReached, clar_sandbox_cleanup
<1>11. CASE SkipSuite \/ BeginSuite
  BY <1>11, SMTT(30) DEF SkipSuite, BeginSuite, Event
<1>12. CASE EndSuite \/ QuitSuite \/ EndRun
  BY <1>12, SMTT(30) DEF EndSuite, QuitSuite, EndRun, Event
<1>13. CASE clar_test_init \/ clar_test_init_aborts \/ TempdirShutdown \/
         TempdirShutdownCrashes \/ Return \/ Exited
  BY <1>13, SMTT(30) DEF clar_test_init, clar_test_init_aborts, TempdirShutdown,
     TempdirShutdownCrashes, Return, Exited, clar_tempdir_init, clar_abort,
     clar_tempdir_shutdown, TempdirRemovalFails, vars
<1> QED BY <1>1, <1>2, <1>3, <1>4, <1>5, <1>6, <1>7, <1>8, <1>9, <1>10, <1>11, <1>12,
   <1>13, <1>14, <1>15, Steps DEF Quiet

--------------------------------------------------------------------------------
(* The theorems *)

\* The invariant holds to begin with.
LEMMA InvInit ==
  ASSUME Init PROVE IInv
<1>1. /\ pc = "start" /\ exit = Running /\ at = 1 /\ nth = 0 /\ tests_ran = 0
      /\ total_errors = 0 /\ exit_on_error \in BOOLEAN /\ enabled \in Selections
      /\ reports = <<>> /\ printed = <<>> /\ trampoline_enabled = FALSE
      /\ trampoline = 0 /\ local_cleanup = 0 /\ invoke = NoSite
      /\ depth = 0 /\ calls = 0
  BY DEF Init
<1>2. /\ Len(reports) = 0 /\ Len(printed) = 0
      /\ DOMAIN reports = {} /\ DOMAIN printed = {}
  BY <1>1
<1>3. event = [suite |-> 0, test |-> 0, phase |-> "START"] /\ SandboxInit
  BY DEF Init
<1>4. TypeOK
  <2>1. event \in Event /\ pc \in Points
    BY <1>1, <1>3 DEF Event, Phases, Points
  <2>2. SandboxTypeOK
    BY <1>3 DEF SandboxInit, SandboxTypeOK, Places
  <2>3. reports \in Seq(Report) /\ printed \in Seq(Statuses) /\ NoSite \in Site
    BY <1>1, EmptySeq DEF NoSite, Site
  <2>4. /\ exit_on_error \in BOOLEAN /\ trampoline_enabled \in BOOLEAN
        /\ enabled \in Selections
    BY <1>1
  <2>5. exit \in Nat \cup {Running, Killed} /\ invoke \in Site
    BY <1>1, <2>3
  <2>6. /\ at \in Nat \ {0} /\ nth \in Nat /\ tests_ran \in Nat
        /\ total_errors \in Nat /\ trampoline \in Nat /\ local_cleanup \in Nat
        /\ depth \in Nat /\ calls \in Nat
    BY <1>1
  <2> QED BY <2>1, <2>2, <2>3, <2>4, <2>5, <2>6 DEF TypeOK
<1>5. CountInv /\ JumpInv /\ InvokeInv /\ CleanupInv
  BY <1>1, <1>2 DEF CountInv, JumpInv, InvokeInv, CleanupInv, InTest, UserCode,
     Current
<1>6. VerdictInv /\ NotRunInv /\ PrintedIsFinal /\ ErrorsStayHome
  BY <1>1, <1>2 DEF VerdictInv, NotRunInv, PrintedIsFinal, ErrorsStayHome
<1>7. SandboxInv
  BY <1>1, <1>3 DEF SandboxInit, SandboxInv, InTest, UserCode
<1>8. ScheduleInv /\ ExitInv
  <2>1. DOMAIN Entries = 1..Len(Entries) /\ Len(Entries) \in Nat
    BY RunAssumption, LenProperties
  <2> QED BY <1>1, <2>1 DEF ScheduleInv, ExitInv, InTest, UserCode, Running
<1>9. EventInv
  BY <1>1, <1>2, <1>3 DEF EventInv, InTest, UserCode, Current
<1> QED BY <1>4, <1>5, <1>6, <1>7, <1>8, <1>9 DEF IInv

\* A stutter keeps it.
LEMMA InvStutter ==
  ASSUME IInv, UNCHANGED vars PROVE IInv'
<1> USE DEF IInv, vars, schedule, results, output, jump, user, sandboxVars
<1>1. TypeOK'
  BY DEF TypeOK, SandboxTypeOK
<1>2. CountInv' /\ JumpInv' /\ InvokeInv' /\ CleanupInv'
  BY DEF CountInv, JumpInv, InvokeInv, CleanupInv, Current
<1>3. VerdictInv' /\ NotRunInv' /\ PrintedIsFinal' /\ ErrorsStayHome'
  BY DEF VerdictInv, NotRunInv, PrintedIsFinal, ErrorsStayHome, Failed, Current
<1>4. SandboxInv' /\ ExitInv'
  BY DEF SandboxInv, ExitInv, Current
<1>5. ScheduleInv'
  BY DEF ScheduleInv, StopNow, Ran
<1>6. EventInv'
  BY DEF EventInv, StopNow, Due, Entry, Current
<1> QED BY <1>1, <1>2, <1>3, <1>4, <1>5, <1>6

\* The inductive invariant holds in every state: the driver is where its
\* bookkeeping says it is, whatever the code of the tests does.
THEOREM Invariance == Spec => []IInv
<1>1. IInv /\ Next => IInv'
  BY TypeStep, CountStep, JumpStep, InvokeStep, CleanupStep, VerdictStep,
     NotRunStep, SandboxStep, ScheduleStep, ExitStep, PrintedStep, HomeStep,
     EventStep DEF IInv
<1>2. IInv /\ [Next]_vars => IInv'
  BY <1>1, InvStutter
<1> QED BY InvInit, <1>2, PTL DEF Spec

\* Every variable keeps its type.
THEOREM TypeCorrect == Spec => []TypeOK
<1>1. IInv => TypeOK
  BY DEF IInv
<1> QED BY Invariance, <1>1, PTL

\* No failure is attributed to a test after clar_run_test announced its verdict.
THEOREM VerdictsAreFinal == Spec => []PrintedIsFinal
<1>1. IInv => PrintedIsFinal
  BY DEF IInv
<1> QED BY Invariance, <1>1, PTL

\* The invoke point a longjmp leaves behind never reaches the next test's errors.
THEOREM ErrorsAreAtHome == Spec => []ErrorsStayHome
<1>1. IInv => ErrorsStayHome
  BY DEF IInv
<1> QED BY Invariance, <1>1, PTL

\* The cleanup that is set belongs to the last test.
THEOREM CleanupsAreOwn == Spec => []LocalCleanupIsOwn
<1>1. IInv => LocalCleanupIsOwn
  BY DEF IInv, CleanupInv, LocalCleanupIsOwn
<1> QED BY Invariance, <1>1, PTL

\* Exit status 0 means that the whole schedule was run and no error was raised,
\* as long as the number of errors fits the status.
THEOREM ZeroIsClean == Spec => []ZeroMeansClean
<1>1. ASSUME IInv, exit = 0, total_errors < ExitModulus
      PROVE  /\ \A n \in DOMAIN reports : ~Failed(n)
             /\ \A i \in DOMAIN Entries \cap enabled :
                  \A k \in 1..Entries[i].tests :
                    \E n \in DOMAIN printed : reports[n].suite = i /\ reports[n].test = k
  <2>1. total_errors = 0 /\ at > Len(Entries) /\ Current = tests_ran
    BY <1>1 DEF IInv, ExitInv
  <2>2. \A n \in DOMAIN reports : ~Failed(n)
    BY <1>1, <2>1 DEF IInv, VerdictInv
  <2>3. DOMAIN reports = DOMAIN printed
    BY <1>1, <2>1, LenProperties DEF IInv, TypeOK, CountInv, Current
  <2>4. /\ at \in Nat /\ DOMAIN Entries = 1..Len(Entries) /\ Len(Entries) \in Nat
        /\ ~StopNow
    BY <1>1, <2>1, RunAssumption, LenProperties DEF IInv, TypeOK, StopNow
  <2>5. \A i \in DOMAIN Entries : i < at
    BY <2>1, <2>4
  <2>6. \A i \in DOMAIN Entries \cap enabled :
          \A k \in 1..Entries[i].tests : Ran(i, k)
    BY <1>1, <2>4, <2>5 DEF IInv, ScheduleInv
  <2> QED BY <2>2, <2>3, <2>6 DEF Ran
<1>2. IInv => ZeroMeansClean
  BY <1>1 DEF ZeroMeansClean
<1> QED BY Invariance, <1>2, PTL

\* No test finds the sandbox of an earlier one.
THEOREM SandboxesAreOwn == Spec => []NoPollution
<1>1. IInv => NoPollution
  BY DEF IInv, SandboxInv, NoPollution
<1> QED BY Invariance, <1>1, PTL

\* With -Q no test begins after an error.
THEOREM QuitStops == Spec => QuitsOnError
<1> DEFINE Quits == exit_on_error /\ (\E n \in DOMAIN reports : Failed(n))
                      => Len(reports') = Current
<1>1. ASSUME IInv, Next, exit_on_error, \E n \in DOMAIN reports : Failed(n)
      PROVE  Len(reports') = Current
  <2>1. StopNow
    BY <1>1 DEF IInv, TypeOK, VerdictInv, StopNow
  <2>2. CASE Fails \/ cl_skip \/ Landed
    BY <1>1, <2>2, FailsEffect, SkipEffect, LandedEffect DEF Rewritten, Current
  <2>3. CASE BeginTest
    BY <2>1, <2>3 DEF BeginTest
  <2>4. CASE Quiet
    BY <2>4, QuietEffect DEF Current
  <2> QED BY <1>1, <2>2, <2>3, <2>4, Steps
<1>2. IInv /\ [Next]_vars => [Quits]_vars
  BY <1>1
<1> QED BY Invariance, <1>2, PTL DEF Spec, QuitsOnError

\* A longjmp goes to the test that is running, unless its sandbox has too long a path.
THEOREM JumpsAreHome == Spec => JumpsHome
<1> DEFINE Home ==
      (TempPath = "absolute" /\ event'.phase = "LONGJMP" /\ event.phase # "LONGJMP")
        => trampoline = Current \/ (pc = "create" /\ sandbox = 0)
<1>1. ASSUME IInv, Next, TempPath = "absolute",
             event'.phase = "LONGJMP", event.phase # "LONGJMP"
      PROVE  trampoline = Current \/ (pc = "create" /\ sandbox = 0)
  <2>1. CASE cl_assert \/ cl_skip \/ cl_fs_cleanup_asserts
    <3>1. pc \in UserCode /\ abort_test
      BY <2>1 DEF cl_assert, cl_skip, cl_fs_cleanup_asserts, InUserCode
    <3>2. trampoline_enabled
      BY <1>1, <3>1 DEF abort_test
    <3> QED BY <1>1, <3>1, <3>2 DEF IInv, JumpInv, UserCode
  <2>2. CASE CreateSandboxAsserts
    BY <1>1, <2>2 DEF CreateSandboxAsserts, IInv, SandboxInv
  <2>3. CASE SandboxCleanupAsserts \/ TempdirShutdownAsserts
    <3>1. pc \in {"sandbox_cleanup", "shutdown"} /\ abort_test
      BY <2>3 DEF SandboxCleanupAsserts, TempdirShutdownAsserts
    <3> QED BY <1>1, <3>1 DEF IInv, JumpInv, abort_test
  <2>4. CASE CallsApi /\ ~(cl_assert \/ cl_skip \/ cl_fs_cleanup_asserts)
    BY <1>1, <2>4 DEF CallsApi, cl_check, cl_set_cleanup, cl_invoke_enter,
       cl_invoke_leave, test_chdir, cl_fs_cleanup
  <2>5. CASE RunsTest /\ ~(CreateSandboxAsserts \/ SandboxCleanupAsserts)
    BY <1>1, <2>5 DEF RunsTest, CreateSandbox, Setjmp, InitializeReturns,
       TestReturns, Landed, LocalCleanupReturns, ClearInvokepoint, CleanupReturns,
       SandboxCleanup, EndTest, Call, Trace
  <2>6. CASE RunsSuites /\ ~TempdirShutdownAsserts
    BY <1>1, <2>6 DEF RunsSuites, clar_test_init, clar_test_init_aborts, SkipSuite,
       BeginSuite, BeginTest, EndSuite, QuitSuite, EndRun, TempdirShutdown,
       TempdirShutdownCrashes, Return, Call, Trace
  <2>7. CASE Exited
    BY <1>1, <2>7 DEF Exited, vars
  <2> QED BY <1>1, <2>1, <2>2, <2>3, <2>4, <2>5, <2>6, <2>7 DEF Next
<1>2. IInv /\ [Next]_vars => [Home]_vars
  BY <1>1
<1> QED BY Invariance, <1>2, PTL DEF Spec, JumpsHome

\* Without nested cl_invoke there is an invoke point in every helper, and it is a
\* line of the test.
LEMMA HelperStep ==
  ASSUME IInv, Next, HelperInv PROVE HelperInv'
<1> SUFFICES ASSUME MaxDepth <= 1 PROVE HelperInv'
  BY DEF HelperInv
<1>1. depth \in {0, 1} /\ invoke.level = 0 /\ (depth = 1 => invoke # NoSite)
  BY DEF HelperInv
<1>2. CASE cl_invoke_enter
  <2>1. depth = 0 /\ pc \in UserCode
    BY <1>1, <1>2, RunAssumption DEF cl_invoke_enter, InUserCode
  <2>2. depth' = 1 /\ invoke' = [test |-> Current, level |-> 0] /\ Current # 0
    BY <1>2, <2>1 DEF cl_invoke_enter, IInv, CountInv, TypeOK, InTest
  <2> QED BY <2>2 DEF HelperInv, NoSite
<1>3. CASE cl_invoke_leave \/ ClearInvokepoint
  <2>1. invoke' = NoSite
    BY <1>3 DEF cl_invoke_leave, ClearInvokepoint
  <2>2. depth' = 0
    BY <1>1, <1>3 DEF cl_invoke_leave, ClearInvokepoint, user, IInv, InvokeInv, UserCode
  <2> QED BY <2>1, <2>2 DEF HelperInv, NoSite
<1>4. CASE ~(cl_invoke_enter \/ cl_invoke_leave \/ ClearInvokepoint)
  <2>1. UNCHANGED invoke /\ depth' \in {0, depth}
    <3>1. CASE CallsApi
      BY <1>4, <3>1 DEF CallsApi, cl_check, cl_assert, cl_skip, cl_set_cleanup,
         test_chdir, cl_fs_cleanup, cl_fs_cleanup_asserts, abort_test
    <3>2. CASE RunsTest
      BY <1>4, <3>2 DEF RunsTest, CreateSandbox, CreateSandboxAsserts, Setjmp,
         InitializeReturns, TestReturns, Landed, LocalCleanupReturns,
         CleanupReturns, SandboxCleanup, SandboxCleanupAsserts, EndTest,
         abort_test, user
    <3>3. CASE RunsSuites \/ Exited
      BY <3>3 DEF RunsSuites, clar_test_init, clar_test_init_aborts, SkipSuite,
         BeginSuite, BeginTest, EndSuite, QuitSuite, EndRun, TempdirShutdown,
         TempdirShutdownAsserts, TempdirShutdownCrashes, Return, Exited,
         abort_test, user, vars
    <3> QED BY <3>1, <3>2, <3>3 DEF Next
  <2> QED BY <1>1, <2>1 DEF HelperInv
<1> QED BY <1>2, <1>3, <1>4

\* Errors are recorded at the line of the test.
LEMMA ShownStep ==
  ASSUME IInv, Next, HelperInv, InvokeShowsTheTest PROVE InvokeShowsTheTest'
<1> SUFFICES ASSUME MaxDepth <= 1 PROVE InvokeShowsTheTest'
  BY DEF InvokeShowsTheTest
<1> DEFINE Shown(errors) == \A k \in DOMAIN errors : errors[k].level = 0
<1>1. TypeOK /\ \A n \in DOMAIN reports : Shown(reports[n].errors)
  BY DEF IInv, InvokeShowsTheTest
<1>2. ASSUME reports # <<>>, NEW status, NEW errors, Rewritten(status, errors),
             Shown(errors)
      PROVE  InvokeShowsTheTest'
  <2>1. DOMAIN reports = 1..Len(reports) /\ DOMAIN reports' = 1..Len(reports)
    BY <1>1, <1>2, CurrentReport, LenProperties DEF Rewritten
  <2> QED BY <1>1, <1>2, <2>1 DEF InvokeShowsTheTest, Rewritten
<1>3. CASE Fails
  <2>1. /\ reports # <<>>
        /\ Rewritten("FAILURE", Append(reports[Current].errors, Where))
        /\ NewErrors
    BY <1>3, FailsEffect
  <2>2. Where.level = 0
    BY DEF HelperInv, Where
  <2>3. Shown(reports'[Current].errors)
    BY <1>1, <2>1, <2>2, CurrentReport DEF NewErrors
  <2> QED BY <1>2, <2>1, <2>3 DEF Rewritten
<1>4. CASE cl_skip \/ Landed
  <2>1. \E status : reports # <<>> /\ Rewritten(status, reports[Current].errors)
    BY <1>4, SkipEffect, LandedEffect
  <2> QED BY <1>1, <1>2, <2>1, CurrentReport
<1>5. CASE BeginTest
  <2>1. /\ DOMAIN reports = 1..Len(reports) /\ DOMAIN reports' = 1..(Len(reports) + 1)
        /\ \A n \in 1..Len(reports) : reports'[n] = reports[n]
        /\ \A n \in DOMAIN reports' : n \in DOMAIN reports \/ n = Len(reports) + 1
        /\ reports'[Len(reports) + 1].errors = <<>> /\ Len(reports) \in Nat
    BY <1>5, BeginTestEffect
  <2>2. DOMAIN <<>> = {}
    OBVIOUS
  <2> QED BY <1>1, <2>1, <2>2 DEF InvokeShowsTheTest
<1>6. CASE Quiet
  BY <1>1, <1>6, QuietEffect DEF InvokeShowsTheTest
<1> QED BY <1>3, <1>4, <1>5, <1>6, Steps

\* Where helpers do not nest cl_invoke, every error is shown at a line of the test.
THEOREM HelpersAreTransparent == Spec => []InvokeShowsTheTest
<1> DEFINE ShownInv == HelperInv /\ InvokeShowsTheTest
<1>1. Init => ShownInv
  <2>1. DOMAIN <<>> = {}
    OBVIOUS
  <2> QED BY <2>1 DEF Init, HelperInv, InvokeShowsTheTest, NoSite
<1>2. IInv /\ ShownInv /\ [Next]_vars => ShownInv'
  <2>1. ASSUME ShownInv, UNCHANGED vars PROVE ShownInv'
    BY <2>1 DEF HelperInv, InvokeShowsTheTest, vars, results, user
  <2> QED BY <2>1, HelperStep, ShownStep
<1>3. ShownInv => InvokeShowsTheTest
  OBVIOUS
<1> QED BY Invariance, <1>1, <1>2, <1>3, PTL DEF Spec
--------------------------------------------------------------------------------
(* ClarRun implements TestSession: each step of the driver is a step of the    *)
(* session or none.                                                            *)

\* An error was recorded for the last test.
Raised == reports # <<>> /\ reports[Current].errors # <<>>

\* What the session sees of the driver.
sessionVars == <<event, printed, Raised, local_cleanup # 0, pc = "exited">>

\* A step that the session does not see.
LEMMA Unseen ==
  ASSUME UNCHANGED sessionVars PROVE [Session!SessionNext]_Session!sessionVars
BY DEF sessionVars, Session!sessionVars, Raised

\* The steps of the session, in the terms of the driver.
LEMMA Seen ==
  ASSUME pc # "exited",
         \/ Session!SuiteBegin \/ Session!SuiteEnd \/ Session!TestBegin
         \/ Session!Initialize \/ Session!RunBegin \/ Session!RunEnd
         \/ Session!Longjmp \/ Session!NotBegun
         \/ Session!LocalCleanup \/ Session!Cleanup
         \/ Session!TestEnd \/ Session!Raise \/ Session!Register \/ Session!GiveUp
  PROVE  [Session!SessionNext]_Session!sessionVars
BY DEF Session!SessionNext

\* Recording an error raises it.
LEMMA FailsRaises == ASSUME IInv, Fails PROVE Raised'
<1>1. /\ reports # <<>> /\ Rewritten("FAILURE", Append(reports[Current].errors, Where))
      /\ NewErrors
  BY FailsEffect
<1>2. reports' # <<>> /\ Current' = Current
  BY <1>1, CurrentReport, EmptySeq, LenProperties DEF IInv, Rewritten, Current
<1> QED BY <1>1, <1>2 DEF Raised, NewErrors

\* The other steps of a test do not.
LEMMA OthersRaiseNothing ==
  ASSUME IInv, cl_skip \/ Landed \/ Quiet PROVE UNCHANGED Raised
<1>1. CASE cl_skip \/ Landed
  <2>1. /\ reports # <<>> /\ Len(reports') = Len(reports)
        /\ reports'[Current].errors = reports[Current].errors
    BY <1>1, SkipEffect, LandedEffect DEF Rewritten
  <2>2. reports' # <<>> /\ Current' = Current
    BY <2>1, CurrentReport, EmptySeq, LenProperties DEF IInv, Current
  <2> QED BY <2>1, <2>2 DEF Raised
<1>2. CASE Quiet
  BY <1>2, QuietEffect DEF Raised, Current
<1> QED BY <1>1, <1>2

\* In a test an event only changes its phase.
LEMMA PhaseChange ==
  ASSUME IInv, pc \in InTest \cup {"next"},
         NEW phase, Trace(phase)
  PROVE  event' = [event EXCEPT !.phase = phase]
<1>1. event \in Event /\ event.suite = at /\ event.test = Current
  BY DEF IInv, TypeOK, EventInv
<1> QED BY <1>1 DEF Event, Trace

\* The code of the tests runs in the phases where the session lets it.
LEMMA CodePhase ==
  ASSUME IInv, pc \in UserCode
  PROVE  /\ Session!InTest
         /\ pc \in {"initialize", "test"} => event.phase \in {"initialize", "RUN_BEGIN"}
BY DEF IInv, EventInv, UserCode, Session!InTest

\* Leaving the code of a test by abort_test ends the test or the process.
LEMMA AbortStep ==
  ASSUME IInv, pc \in UserCode, abort_test,
         UNCHANGED <<printed, local_cleanup>>, Raised' \/ UNCHANGED Raised
  PROVE  Session!Longjmp \/ Session!GiveUp
<1>1. pc # "exited" /\ (trampoline_enabled => pc \in {"initialize", "test"})
      /\ (pc \in {"initialize", "test"} => trampoline = Current)
  BY DEF IInv, JumpInv, UserCode
<1>2. Session!MayRaise
  BY DEF Session!MayRaise, Raised
<1>3. CASE ~trampoline_enabled
  <2>1. UNCHANGED event /\ pc' = "exited"
    BY <1>3 DEF abort_test, Exit
  <2> QED BY <1>2, <2>1 DEF Session!GiveUp
<1>4. CASE trampoline_enabled
  <2>1. Trace("LONGJMP") /\ pc' = "landed"
    BY <1>1, <1>4 DEF abort_test, Call
  <2>2. event' = [event EXCEPT !.phase = "LONGJMP"]
    BY <2>1, PhaseChange DEF InTest
  <2>3. event.phase \in {"initialize", "RUN_BEGIN"}
    BY <1>1, <1>4, CodePhase
  <2> QED BY <1>1, <1>2, <2>1, <2>2, <2>3 DEF Session!Longjmp, Session!Follows
<1> QED BY <1>3, <1>4
--------------------------------------------------------------------------------
\* The calls of the API.
LEMMA CallsStep ==
  ASSUME IInv, CallsApi
  PROVE  [Session!SessionNext]_Session!sessionVars
<1>1. CASE cl_check
  <2>1. pc \in UserCode /\ UNCHANGED <<event, printed, local_cleanup, pc>>
    BY <1>1 DEF cl_check, InUserCode, output
  <2>2. Raised'
    BY <1>1, FailsRaises DEF Fails
  <2>3. Session!Raise
    BY <2>1, <2>2, CodePhase DEF Session!Raise, Raised
  <2> QED BY <2>1, <2>3, Seen DEF UserCode
<1>2. CASE cl_assert \/ cl_fs_cleanup_asserts
  <2>1. pc \in UserCode /\ abort_test /\ UNCHANGED <<printed, local_cleanup>>
    BY <1>2 DEF cl_assert, cl_fs_cleanup_asserts, InUserCode, output
  <2>2. Raised'
    BY <1>2, FailsRaises DEF Fails
  <2> QED BY <2>1, <2>2, AbortStep, Seen DEF UserCode
<1>3. CASE cl_skip
  <2>1. pc \in UserCode /\ abort_test /\ UNCHANGED <<printed, local_cleanup>>
    BY <1>3 DEF cl_skip, InUserCode, output
  <2>2. UNCHANGED Raised
    BY <1>3, OthersRaiseNothing
  <2> QED BY <2>1, <2>2, AbortStep, Seen DEF UserCode
<1>4. CASE cl_set_cleanup
  <2>1. /\ pc \in UserCode /\ UNCHANGED <<event, printed, pc, reports>>
        /\ local_cleanup' = Current
    BY <1>4 DEF cl_set_cleanup, InUserCode, output, results
  <2>2. Current # 0
    BY <2>1, CurrentReport, InTestHasReport DEF InTest
  <2>3. Session!Register
    BY <2>1, <2>2, CodePhase DEF Session!Register, Current
  <2> QED BY <2>1, <2>3, Seen DEF UserCode
<1>5. CASE cl_invoke_enter \/ cl_invoke_leave \/ test_chdir
  <2>1. UNCHANGED <<event, printed, local_cleanup, pc, reports>>
    BY <1>5 DEF cl_invoke_enter, cl_invoke_leave, test_chdir, output, results
  <2> QED BY <2>1, Unseen DEF sessionVars, Raised, Current
<1>6. CASE cl_fs_cleanup
  <2>1. /\ pc \in UserCode /\ pc' = "exited"
        /\ UNCHANGED <<event, printed, local_cleanup, reports>>
    BY <1>6 DEF cl_fs_cleanup, InUserCode, clar_abort, Exit, output, results
  <2>2. Session!GiveUp
    BY <2>1 DEF Session!GiveUp, Session!MayRaise, Current
  <2> QED BY <2>1, <2>2, Seen DEF UserCode
<1> QED BY <1>1, <1>2, <1>3, <1>4, <1>5, <1>6 DEF CallsApi

\* The steps of clar_run_test.
LEMMA TestStep ==
  ASSUME IInv, RunsTest
  PROVE  [Session!SessionNext]_Session!sessionVars
<1>1. CASE CreateSandbox \/ LocalCleanupReturns \/ CleanupReturns \/ SandboxCleanup
  <2>1. /\ UNCHANGED <<event, printed, local_cleanup, reports>>
        /\ pc # "exited" /\ pc' # "exited"
    BY <1>1 DEF CreateSandbox, LocalCleanupReturns, CleanupReturns, SandboxCleanup,
       output, results
  <2> QED BY <2>1, Unseen DEF sessionVars, Raised, Current
<1>2. CASE CreateSandboxAsserts
  <2>1. /\ pc = "create" /\ abort_test
        /\ UNCHANGED <<printed, local_cleanup>>
    BY <1>2 DEF CreateSandboxAsserts, output
  <2>2. event.phase = "TEST_BEGIN" /\ pc \in InTest /\ trampoline_enabled
    BY <2>1 DEF IInv, EventInv, JumpInv, InTest
  <2>3. event' = [event EXCEPT !.phase = "LONGJMP"]
    BY <2>1, <2>2, PhaseChange DEF abort_test, Call
  <2>4. Raised'
    BY <1>2, FailsRaises DEF Fails
  <2>5. Session!NotBegun
    BY <2>1, <2>2, <2>3, <2>4 DEF Session!NotBegun, Session!Follows, Raised
  <2> QED BY <2>1, <2>5, Seen
<1>3. CASE Setjmp
  <2>1. /\ pc = "setjmp" /\ pc' # "exited"
        /\ UNCHANGED <<printed, local_cleanup, reports>>
        /\ IF Entry.initialize THEN Trace("initialize") ELSE Trace("RUN_BEGIN")
    BY <1>3 DEF Setjmp, Call, output, results
  <2>2. event.phase = "TEST_BEGIN" /\ event.suite = at /\ pc \in InTest
    BY <2>1 DEF IInv, EventInv, InTest
  <2>3. CASE Entry.initialize
    <3>1. event' = [event EXCEPT !.phase = "initialize"]
      BY <2>1, <2>2, <2>3, PhaseChange
    <3>2. Session!Initialize
      BY <2>1, <2>2, <2>3, <3>1 DEF Session!Initialize, Session!Follows, Entry, Current
    <3> QED BY <2>1, <3>2, Seen
  <2>4. CASE ~Entry.initialize
    <3>1. event' = [event EXCEPT !.phase = "RUN_BEGIN"]
      BY <2>1, <2>2, <2>4, PhaseChange
    <3>2. Session!RunBegin
      BY <2>1, <2>2, <2>4, <3>1 DEF Session!RunBegin, Session!Follows, Entry, Current
    <3> QED BY <2>1, <3>2, Seen
  <2> QED BY <2>3, <2>4
<1>4. CASE InitializeReturns
  <2>1. /\ pc = "initialize" /\ pc' # "exited" /\ Trace("RUN_BEGIN")
        /\ UNCHANGED <<printed, local_cleanup, reports>>
    BY <1>4 DEF InitializeReturns, Call, output, results
  <2>2. event.phase = "initialize" /\ pc \in InTest
    BY <2>1 DEF IInv, EventInv, InTest, UserCode
  <2>3. event' = [event EXCEPT !.phase = "RUN_BEGIN"]
    BY <2>1, <2>2, PhaseChange
  <2>4. Session!RunBegin
    BY <2>1, <2>2, <2>3 DEF Session!RunBegin, Session!Follows, Current
  <2> QED BY <2>1, <2>4, Seen
<1>5. CASE TestReturns
  <2>1. /\ pc = "test" /\ pc' # "exited" /\ Trace("RUN_END")
        /\ UNCHANGED <<printed, local_cleanup, reports>>
    BY <1>5 DEF TestReturns, Call, output, results
  <2>2. event.phase = "RUN_BEGIN" /\ pc \in InTest
    BY <2>1 DEF IInv, EventInv, InTest, UserCode
  <2>3. event' = [event EXCEPT !.phase = "RUN_END"]
    BY <2>1, <2>2, PhaseChange
  <2>4. Session!RunEnd
    BY <2>1, <2>2, <2>3 DEF Session!RunEnd, Session!Follows, Current
  <2> QED BY <2>1, <2>4, Seen
<1>6. CASE Landed
  <2>1. /\ pc = "landed" /\ pc' # "exited" /\ UNCHANGED <<printed, local_cleanup>>
        /\ IF local_cleanup # 0 THEN Trace("local_cleanup") ELSE UNCHANGED event
    BY <1>6 DEF Landed, Call, output
  <2>2. UNCHANGED Raised
    BY <1>6, OthersRaiseNothing
  <2>3. event.phase \in {"RUN_END", "LONGJMP"} /\ pc \in InTest
    BY <2>1 DEF IInv, EventInv, InTest
  <2>4. CASE local_cleanup # 0
    <3>1. event' = [event EXCEPT !.phase = "local_cleanup"]
      BY <2>1, <2>3, <2>4, PhaseChange
    <3>2. Session!LocalCleanup
      BY <2>1, <2>2, <2>3, <2>4, <3>1 DEF Session!LocalCleanup, Session!Follows, Raised
    <3> QED BY <2>1, <3>2, Seen
  <2>5. CASE local_cleanup = 0
    BY <2>1, <2>2, <2>5, Unseen DEF sessionVars
  <2> QED BY <2>4, <2>5
<1>7. CASE ClearInvokepoint
  <2>1. /\ pc = "clear" /\ pc' # "exited"
        /\ UNCHANGED <<printed, local_cleanup, reports>>
        /\ IF Entry.cleanup THEN Trace("cleanup") ELSE UNCHANGED event
    BY <1>7 DEF ClearInvokepoint, Call, output, results
  <2>2. event.phase \in Due /\ event.suite = at /\ pc \in InTest
    BY <2>1 DEF IInv, EventInv, InTest
  <2>3. CASE Entry.cleanup
    <3>1. event' = [event EXCEPT !.phase = "cleanup"]
      BY <2>1, <2>2, <2>3, PhaseChange
    <3>2. Session!Cleanup
      BY <2>1, <2>2, <2>3, <3>1 DEF Session!Cleanup, Session!Follows, Session!Due,
         Due, Entry, Current
    <3> QED BY <2>1, <3>2, Seen
  <2>4. CASE ~Entry.cleanup
    BY <2>1, <2>4, Unseen DEF sessionVars, Raised, Current
  <2> QED BY <2>3, <2>4
<1>8. CASE SandboxCleanupAsserts
  <2>1. /\ pc = "sandbox_cleanup" /\ abort_test
        /\ UNCHANGED <<printed, local_cleanup>>
    BY <1>8 DEF SandboxCleanupAsserts, output
  <2>2. UNCHANGED event /\ pc' = "exited"
    BY <2>1 DEF IInv, JumpInv, abort_test, Exit
  <2>3. Raised'
    BY <1>8, FailsRaises DEF Fails
  <2>4. Session!GiveUp
    BY <2>1, <2>2, <2>3 DEF Session!GiveUp, Session!MayRaise, Raised
  <2> QED BY <2>1, <2>4, Seen
<1>9. CASE EndTest
  <2>1. /\ pc = "end" /\ pc' # "exited" /\ Trace("TEST_END")
        /\ UNCHANGED reports /\ local_cleanup' = 0
        /\ printed' = Append(printed, reports[Current].status)
    BY <1>9 DEF EndTest, Call, results
  <2>2. /\ event.phase \in IF Entry.cleanup THEN {"cleanup"} ELSE Due
        /\ event.suite = at /\ pc \in InTest
    BY <2>1 DEF IInv, EventInv, InTest
  <2>3. event' = [event EXCEPT !.phase = "TEST_END"]
    BY <2>1, <2>2, PhaseChange
  <2>4. /\ Current \in DOMAIN reports /\ reports # <<>>
        /\ reports[Current].status \in {"OK", "FAILURE", "SKIP", "NOTRUN"}
    BY <2>2, CurrentReport, InTestHasReport DEF Statuses
  <2>5. /\ reports[Current].status \in {"OK", "FAILURE", "SKIP"}
        /\ reports[Current].status = "OK" => ~Raised
        /\ reports[Current].status = "FAILURE" => Raised
    BY <2>1, <2>4 DEF IInv, NotRunInv, VerdictInv, Failed, Raised
  <2>6. Session!TestEnd
    BY <2>1, <2>2, <2>3, <2>5 DEF Session!TestEnd, Session!Follows, Session!Due, Due,
       Entry, Raised, Current
  <2> QED BY <2>1, <2>6, Seen
<1> QED BY <1>1, <1>2, <1>3, <1>4, <1>5, <1>6, <1>7, <1>8, <1>9 DEF RunsTest

\* The steps between the tests.
LEMMA SuitesStep ==
  ASSUME IInv, RunsSuites
  PROVE  [Session!SessionNext]_Session!sessionVars
<1>1. CASE clar_test_init \/ SkipSuite \/ QuitSuite \/ EndRun \/ TempdirShutdown
  <2>1. /\ UNCHANGED <<event, printed, local_cleanup, reports>>
        /\ pc # "exited" /\ pc' # "exited"
    BY <1>1 DEF clar_test_init, SkipSuite, QuitSuite, EndRun, TempdirShutdown,
       output, results
  <2> QED BY <2>1, Unseen DEF sessionVars, Raised, Current
<1>2. CASE clar_test_init_aborts \/ TempdirShutdownCrashes \/ Return
  <2>1. /\ UNCHANGED <<event, printed, local_cleanup, reports>>
        /\ pc # "exited" /\ pc' = "exited"
    BY <1>2 DEF clar_test_init_aborts, TempdirShutdownCrashes, Return, clar_abort,
       Exit, output, results
  <2>2. Session!GiveUp
    BY <2>1 DEF Session!GiveUp, Session!MayRaise, Current
  <2> QED BY <2>1, <2>2, Seen
<1>3. CASE TempdirShutdownAsserts
  <2>1. /\ pc = "shutdown" /\ abort_test /\ UNCHANGED <<printed, local_cleanup>>
    BY <1>3 DEF TempdirShutdownAsserts, output
  <2>2. UNCHANGED event /\ pc' = "exited"
    BY <2>1 DEF IInv, JumpInv, abort_test, Exit
  <2>3. Raised'
    BY <1>3, FailsRaises DEF Fails
  <2>4. Session!GiveUp
    BY <2>1, <2>2, <2>3 DEF Session!GiveUp, Session!MayRaise, Raised
  <2> QED BY <2>1, <2>4, Seen
<1>4. CASE BeginSuite
  <2>1. /\ pc = "suite" /\ pc' # "exited" /\ at <= Len(Entries) /\ ~StopNow
        /\ UNCHANGED <<printed, local_cleanup, reports>>
        /\ event' = [suite |-> at, test |-> Current, phase |-> "SUITE_BEGIN"]
    BY <1>4 DEF BeginSuite, Call, Trace, output, results
  <2>2. /\ event \in Event /\ event.test = Current /\ event.suite < at
        /\ event.phase \in {"START", "SUITE_END"}
        /\ at \in Nat \ {0}
    BY <2>1 DEF IInv, TypeOK, EventInv
  <2>3. event' = [event EXCEPT !.suite = at, !.phase = "SUITE_BEGIN"]
    <3> DEFINE new == [event EXCEPT !.suite = at, !.phase = "SUITE_BEGIN"]
    <3>1. /\ new \in [suite: Nat, test: Nat, phase: Phases]
          /\ new.suite = at /\ new.test = Current /\ new.phase = "SUITE_BEGIN"
      BY <2>2 DEF Event, Phases
    <3> HIDE DEF new
    <3>2. event' = new
      BY <2>1, <3>1
    <3> QED BY <3>2 DEF new
  <2>4. at \in DOMAIN Entries /\ at > event.suite
    <3>1. DOMAIN Entries = 1..Len(Entries) /\ Len(Entries) \in Nat
      BY RunAssumption, LenProperties
    <3>2. event.suite \in Nat
      BY <2>2 DEF Event
    <3> QED BY <2>1, <2>2, <3>1, <3>2
  <2>5. Session!SuiteBegin
    BY <2>1, <2>2, <2>3, <2>4 DEF Session!SuiteBegin, Current
  <2> QED BY <2>1, <2>5, Seen
<1>5. CASE BeginTest
  <2>1. /\ pc = "next" /\ pc' # "exited"
        /\ UNCHANGED <<printed, local_cleanup>>
        /\ event' = [suite |-> at, test |-> Current + 1, phase |-> "TEST_BEGIN"]
    BY <1>5 DEF BeginTest, output
  <2>2. /\ event \in Event /\ event.test = Current /\ event.suite = at
        /\ event.phase \in {"SUITE_BEGIN", "TEST_END"}
    BY <2>1 DEF IInv, TypeOK, EventInv
  <2>3. event' = [event EXCEPT !.test = @ + 1, !.phase = "TEST_BEGIN"]
    <3> DEFINE new == [event EXCEPT !.test = @ + 1, !.phase = "TEST_BEGIN"]
    <3>1. /\ new \in [suite: Nat, test: Nat, phase: Phases]
          /\ new.suite = at /\ new.test = Current + 1 /\ new.phase = "TEST_BEGIN"
      <4>1. event.test + 1 \in Nat /\ "TEST_BEGIN" \in Phases
        BY <2>2 DEF Event, Phases
      <4> QED BY <2>2, <4>1 DEF Event
    <3> HIDE DEF new
    <3>2. event' = new
      BY <2>1, <3>1
    <3> QED BY <3>2 DEF new
  <2>4. ~Raised'
    <3>1. reports'[Current'].errors = <<>>
      BY <1>5, BeginTestEffect DEF Current
    <3> QED BY <3>1 DEF Raised
  <2>5. Session!TestBegin
    BY <2>1, <2>2, <2>3, <2>4 DEF Session!TestBegin, Raised
  <2> QED BY <2>1, <2>5, Seen
<1>6. CASE EndSuite
  <2>1. /\ pc = "next" /\ pc' # "exited" /\ Trace("SUITE_END")
        /\ UNCHANGED <<printed, local_cleanup, reports>>
    BY <1>6 DEF EndSuite, Call, output, results
  <2>2. event.phase \in {"SUITE_BEGIN", "TEST_END"}
    BY <2>1 DEF IInv, EventInv
  <2>3. event' = [event EXCEPT !.phase = "SUITE_END"]
    BY <2>1, PhaseChange
  <2>4. Session!SuiteEnd
    BY <2>1, <2>2, <2>3 DEF Session!SuiteEnd, Session!Follows, Current
  <2> QED BY <2>1, <2>4, Seen
<1> QED BY <1>1, <1>2, <1>3, <1>4, <1>5, <1>6 DEF RunsSuites

\* However the tempdir is named, the driver keeps all its promises to the author of
\* a suite (TestSession): the calls around each test come once and in order, and
\* each test ends with one verdict that fits its errors.
THEOREM Implements == Spec => KeepsSession
<1>1. Init => Session!SessionInit
  BY DEF Init, Session!SessionInit
<1>2. ASSUME IInv, [Next]_vars
      PROVE  [Session!SessionNext]_Session!sessionVars
  <2>1. CASE UNCHANGED vars
    BY <2>1, Unseen DEF vars, sessionVars, Raised, Current, results, output
  <2>2. CASE Exited
    BY <2>2, Unseen DEF Exited, vars, sessionVars, Raised, Current, results, output
  <2> QED BY <1>2, <2>1, <2>2, CallsStep, TestStep, SuitesStep DEF Next
<1>3. IInv /\ [Next]_vars => [Session!SessionNext]_Session!sessionVars
  BY <1>2
<1> QED BY <1>1, <1>3, Invariance, PTL DEF Spec, KeepsSession, Session!SessionSpec
================================================================================
