-------------------------------- MODULE ClarRun --------------------------------
(***************************************************************************)
(* The test driver: clar_test() of clar.c, from clar_test_init to the      *)
(* return value main() exits with.  It runs the scheduled suites one after *)
(* the other; around each test it calls code the driver does not control   *)
(* (initialize, the test, the cleanups), and that code calls back into the *)
(* driver: cl_check, cl_assert, cl_skip, cl_set_cleanup, cl_invoke,        *)
(* cl_fs_cleanup.  A hard failure leaves the called code by longjmp, or    *)
(* the process by exit, depending on trampoline_enabled.                   *)
(*                                                                         *)
(* pc names the point of the driver that is reached; while it is one of    *)
(* UserCode, the called code is running and any call of Api may come.      *)
(* Tests are numbered in the order they are run: test n is reports[n].     *)
(***************************************************************************)
EXTENDS ClarSandbox, Sequences

CONSTANTS
  Entries,      (* The calls of clar_run_suite, in order: all the suites, or  *)
                (* those of the -s options with the tests their filter keeps. *)
  Selections,   (* The sets of entries that may be enabled: by the mixer, and *)
                (* by the -s, -i and -x options.                              *)
  Api,          (* The calls the tests make.                                  *)
  MaxCalls,     (* Bound: calls that one run of called code makes.            *)
  MaxErrors,    (* Bound: errors of one test before its code raises no more.  *)
  MaxDepth,     (* Bound: helpers running inside helpers, by cl_invoke.       *)
  ExitModulus   (* The parent of the process sees the status modulo this.     *)

Suite == [initialize: BOOLEAN, cleanup: BOOLEAN, tests: Nat]
Calls == {"check", "assert", "skip", "set_cleanup", "invoke", "chdir", "fs_cleanup"}

ASSUME RunAssumption ==
  /\ Entries \in Seq(Suite)
  /\ Api \subseteq Calls
  /\ MaxCalls \in Nat /\ MaxErrors \in Nat /\ MaxDepth \in Nat
  /\ ExitModulus \in Nat \ {0}

VARIABLES
  pc,                  (* The point of the driver that is reached.            *)
  exit,                (* The exit status; Running until then.                *)
  enabled,             (* The entries whose suite is enabled.                  *)
  at, nth,             (* The entry, and how many of its tests were started.  *)
  tests_ran, total_errors, exit_on_error,
  reports,             (* The list _clar.reports; the last is last_report.    *)
  trampoline_enabled,
  trampoline,          (* The test whose frame the jmp_buf holds, 0 for none. *)
  local_cleanup,       (* The test that called cl_set_cleanup, 0 for NULL.    *)
  invoke,              (* The invoke point: a line of some test, or NoSite.   *)
  depth,               (* How many cl_invoke the called code is inside.       *)
  calls,               (* Calls this run of called code made, for MaxCalls.   *)
  printed,             (* The statuses given to clar_print_ontest, in order.  *)
  event                (* The last trace event or callback of a suite.        *)

schedule == <<enabled, at, nth, exit_on_error>>
results  == <<reports, total_errors>>
output   == <<tests_ran, printed>>
jump     == <<trampoline_enabled, trampoline>>
user     == <<depth, calls>>
vars == <<pc, exit, schedule, results, output, jump, user, local_cleanup,
          invoke, event, sandboxVars>>

(* A place in the source of the tests: test 0 is the NULL of an invoke point,
   level n a helper that is called through n nested cl_invoke. *)
Site   == [test: Nat, level: Nat]
NoSite == [test |-> 0, level |-> 0]

Statuses == {"OK", "FAILURE", "SKIP", "NOTRUN"}
Report   == [suite: Nat, test: Nat, status: Statuses, errors: Seq(Site)]

UserCode == {"initialize", "test", "local_cleanup", "cleanup"}
Points == UserCode \cup {"start", "suite", "next", "create", "setjmp", "landed",
            "clear", "sandbox_cleanup", "end", "shutdown", "summary", "exited"}

Phases == UserCode \cup {"START", "SUITE_BEGIN", "SUITE_END", "TEST_BEGIN",
            "TEST_END", "RUN_BEGIN", "RUN_END", "LONGJMP"}
Event == [suite: Nat, test: Nat, phase: Phases]

Running == -1
Killed  == -2   \* the process died of a signal

Current == Len(reports)
Entry   == Entries[at]
\* Mutant of StopNow: -Q looks at the last status and misses skipped failures.
StopOnStatus ==
  exit_on_error /\ reports # <<>> /\ reports[Len(reports)].status = "FAILURE"

StopNow == exit_on_error /\ total_errors > 0

Trace(phase) == event' = [suite |-> at, test |-> Current, phase |-> phase]
Call(function, phase) == pc' = function /\ Trace(phase)
Exit(status) == pc' = "exited" /\ exit' = status
clar_abort == Exit(255)

TypeOK ==
  /\ pc \in Points
  /\ exit \in Nat \cup {Running, Killed}
  /\ enabled \in Selections
  /\ at \in Nat \ {0} /\ nth \in Nat
  /\ tests_ran \in Nat /\ total_errors \in Nat
  /\ exit_on_error \in BOOLEAN
  /\ reports \in Seq(Report)
  /\ trampoline_enabled \in BOOLEAN
  /\ trampoline \in Nat
  /\ local_cleanup \in Nat
  /\ invoke \in Site
  /\ depth \in Nat /\ calls \in Nat
  /\ printed \in Seq(Statuses)
  /\ event \in Event
  /\ SandboxTypeOK

Init ==
  /\ pc = "start" /\ exit = Running
  /\ enabled \in Selections /\ at = 1 /\ nth = 0
  /\ tests_ran = 0 /\ total_errors = 0
  /\ exit_on_error \in BOOLEAN
  /\ reports = <<>>
  /\ trampoline_enabled = FALSE /\ trampoline = 0
  /\ local_cleanup = 0
  /\ invoke = NoSite
  /\ depth = 0 /\ calls = 0
  /\ printed = <<>>
  /\ event = [suite |-> 0, test |-> 0, phase |-> "START"]
  /\ SandboxInit
--------------------------------------------------------------------------------
(* Failing and aborting. *)

\* Mutant of Where: the line of the caller, also when there is none.
WhereOfCaller ==
  IF invoke # NoSite THEN invoke ELSE [test |-> Current, level |-> depth - 1]

\* Mutant of Where: the invoke point is not looked at.
WhereItFailed == [test |-> Current, level |-> depth]

\* Where an error is said to be: the invoke point if there is one.
Where == IF invoke # NoSite THEN invoke ELSE [test |-> Current, level |-> depth]

\* Mutant of RecordError: the head of the list is taken for its last report.
RecordInFirst ==
  /\ reports' = [reports EXCEPT ![1] =
                   [@ EXCEPT !.status = "FAILURE", !.errors = Append(@, Where)]]
  /\ total_errors' = total_errors + 1

\* last_report becomes this.
LastReport(status, errors) ==
  reports' = [reports EXCEPT ![Current] = [@ EXCEPT !.status = status, !.errors = errors]]

\* clar__failv up to should_abort.
RecordError ==
  /\ LastReport("FAILURE", Append(reports[Current].errors, Where))
  /\ total_errors' = total_errors + 1

\* Mutant of abort_test: a failed cleanup ends the process as if nothing was.
AbortQuietly ==
  IF trampoline_enabled
    THEN Call("landed", "LONGJMP") /\ depth' = 0 /\ UNCHANGED exit
    ELSE Exit(0) /\ UNCHANGED <<event, depth>>

\* abort_test.  The longjmp goes to the test's own setjmp; if that has not been
\* reached yet, into the frame an earlier test left (undefined: in practice it
\* lands, the frame being at the same place, or kills the process).
abort_test ==
  \/ /\ ~trampoline_enabled
     /\ Exit(1)
     /\ UNCHANGED <<event, depth>>
  \/ /\ trampoline_enabled /\ trampoline # 0
     /\ Call("landed", "LONGJMP")
     /\ depth' = 0
     /\ UNCHANGED exit
  \/ /\ trampoline_enabled /\ trampoline # Current
     /\ Trace("LONGJMP")
     /\ Exit(Killed)
     /\ UNCHANGED depth
--------------------------------------------------------------------------------
(* The API, called from the code of the tests. *)

InUserCode(call) ==
  /\ pc \in UserCode /\ call \in Api
  /\ calls < MaxCalls
  /\ calls' = calls + 1

MayFail == Len(reports[Current].errors) < MaxErrors

\* cl_check and cl_warning: the failure is recorded, the test goes on.
cl_check ==
  /\ InUserCode("check") /\ MayFail
  /\ RecordError
  /\ UNCHANGED <<pc, exit, schedule, output, jump, depth, local_cleanup, invoke,
                 event, sandboxVars>>

\* cl_assert, cl_must_pass, cl_fail: the failure is recorded and aborts.
cl_assert ==
  /\ InUserCode("assert") /\ MayFail
  /\ RecordError
  /\ abort_test
  /\ UNCHANGED <<schedule, output, jump, local_cleanup, invoke, sandboxVars>>

cl_skip ==
  /\ InUserCode("skip")
  /\ LastReport("SKIP", reports[Current].errors)
  /\ abort_test
  /\ UNCHANGED <<schedule, total_errors, output, jump, local_cleanup, invoke,
                 sandboxVars>>

cl_set_cleanup ==
  /\ InUserCode("set_cleanup")
  /\ local_cleanup' = Current
  /\ UNCHANGED <<pc, exit, schedule, results, output, jump, depth, invoke, event,
                 sandboxVars>>

\* cl_invoke(helper()): the call, and its return.
cl_invoke_enter ==
  /\ InUserCode("invoke") /\ depth < MaxDepth
  /\ invoke' = [test |-> Current, level |-> depth]
  /\ depth' = depth + 1
  /\ UNCHANGED <<pc, exit, schedule, results, output, jump, local_cleanup, event,
                 sandboxVars>>

cl_invoke_leave ==
  /\ depth > 0
  /\ pc \in UserCode
  /\ depth' = depth - 1
  /\ invoke' = NoSite
  /\ UNCHANGED <<pc, exit, schedule, results, output, jump, calls, local_cleanup,
                 event, sandboxVars>>

\* The test changes the working directory and does not restore it.
test_chdir ==
  /\ InUserCode("chdir")
  /\ cwd' \in {"origin", "elsewhere"}
  /\ UNCHANGED <<pc, exit, schedule, results, output, jump, depth, local_cleanup,
                 invoke, event, tempdir, sandbox, dirs>>

\* cl_fs_cleanup: clar_tempdir_shutdown, then clar_tempdir_init, which only
\* enters the directory it was told to make the first time.
cl_fs_cleanup ==
  /\ InUserCode("fs_cleanup")
  /\ clar_tempdir_shutdown
  /\ clar_abort
  /\ UNCHANGED <<schedule, results, output, jump, depth, local_cleanup, invoke,
                 event>>

cl_fs_cleanup_asserts ==
  /\ InUserCode("fs_cleanup")
  /\ TempdirRemovalFails
  /\ RecordError
  /\ abort_test
  /\ UNCHANGED <<schedule, output, jump, local_cleanup, invoke>>
--------------------------------------------------------------------------------
(* clar_test_init *)

clar_test_init ==
  /\ pc = "start"
  /\ clar_tempdir_init
  /\ pc' = "suite"
  /\ UNCHANGED <<exit, schedule, results, output, jump, user, local_cleanup,
                 invoke, event>>

\* The summary file cannot be opened, or the directory cannot be made.
clar_test_init_aborts ==
  /\ pc = "start" /\ Faults \cap {"summary", "mkdtemp"} # {}
  /\ clar_abort
  /\ UNCHANGED <<schedule, results, output, jump, user, local_cleanup, invoke,
                 event, sandboxVars>>

(* clar_test_run and clar_run_suite *)

\* The two returns at the head of clar_run_suite.
SkipSuite ==
  /\ pc = "suite" /\ at <= Len(Entries)
  /\ at \notin enabled \/ StopNow
  /\ at' = at + 1
  /\ UNCHANGED <<pc, exit, enabled, nth, exit_on_error, results, output, jump,
                 user, local_cleanup, invoke, event, sandboxVars>>

BeginSuite ==
  /\ pc = "suite" /\ at <= Len(Entries)
  /\ at \in enabled /\ ~StopNow
  /\ nth' = 0
  /\ Call("next", "SUITE_BEGIN")
  /\ UNCHANGED <<exit, enabled, at, exit_on_error, results, output, jump, user,
                 local_cleanup, invoke, sandboxVars>>

\* One turn of the loop: the report, and the head of clar_run_test.
BeginTest ==
  /\ pc = "next" /\ ~StopNow /\ nth < Entry.tests
  /\ nth' = nth + 1
  /\ reports' = Append(reports, [suite |-> at, test |-> nth + 1,
                                 status |-> "NOTRUN", errors |-> <<>>])
  /\ trampoline_enabled' = TRUE
  /\ event' = [suite |-> at, test |-> Current + 1, phase |-> "TEST_BEGIN"]
  /\ pc' = "create"
  /\ UNCHANGED <<exit, enabled, at, exit_on_error, total_errors, output,
                 trampoline, user, local_cleanup, invoke, sandboxVars>>

EndSuite ==
  /\ pc = "next" /\ ~StopNow /\ nth >= Entry.tests
  /\ at' = at + 1
  /\ Call("suite", "SUITE_END")
  /\ UNCHANGED <<exit, enabled, nth, exit_on_error, results, output, jump,
                 user, local_cleanup, invoke, sandboxVars>>

\* -Q: the return inside the loop, past the SUITE_END event.
QuitSuite ==
  /\ pc = "next" /\ StopNow
  /\ at' = at + 1
  /\ pc' = "suite"
  /\ UNCHANGED <<exit, enabled, nth, exit_on_error, results, output, jump,
                 user, local_cleanup, invoke, event, sandboxVars>>
--------------------------------------------------------------------------------
(* clar_run_test, past its first event *)

\* The result of clar_sandbox_create is not looked at.
CreateSandbox ==
  /\ pc = "create" /\ sandbox = 0
  /\ clar_sandbox_create(Current)
  /\ pc' = "setjmp"
  /\ UNCHANGED <<exit, schedule, results, output, jump, user, local_cleanup,
                 invoke, event>>

\* An assertion of clar_sandbox_create fails: a sandbox is still named, or the
\* path of the new one, which may hold the name of the test, is too long.
CreateSandboxAsserts ==
  /\ pc = "create" /\ (sandbox # 0 \/ "length" \in Faults)
  /\ RecordError
  /\ abort_test
  /\ UNCHANGED <<schedule, output, jump, calls, local_cleanup, invoke, sandboxVars>>

Setjmp ==
  /\ pc = "setjmp"
  /\ trampoline' = Current
  /\ IF Entry.initialize THEN Call("initialize", "initialize")
                         ELSE Call("test", "RUN_BEGIN")
  /\ UNCHANGED <<exit, schedule, results, output, trampoline_enabled, user,
                 local_cleanup, invoke, sandboxVars>>

InitializeReturns ==
  /\ pc = "initialize" /\ depth = 0
  /\ Call("test", "RUN_BEGIN")
  /\ calls' = 0
  /\ UNCHANGED <<exit, schedule, results, output, jump, depth, local_cleanup,
                 invoke, sandboxVars>>

TestReturns ==
  /\ pc = "test" /\ depth = 0
  /\ Call("landed", "RUN_END")
  /\ UNCHANGED <<exit, schedule, results, output, jump, user, local_cleanup,
                 invoke, sandboxVars>>

\* Mutant of Landed: the trampoline is left enabled.
LandedArmed ==
  /\ pc = "landed"
  /\ LastReport(IF reports[Current].status = "NOTRUN" THEN "OK"
                                                      ELSE reports[Current].status,
                reports[Current].errors)
  /\ IF local_cleanup # 0 THEN Call("local_cleanup", "local_cleanup")
                          ELSE pc' = "clear" /\ UNCHANGED event
  /\ calls' = 0
  /\ UNCHANGED <<exit, schedule, total_errors, output, jump, depth, local_cleanup,
                 invoke, sandboxVars>>

\* The test is over, by return or by longjmp.
Landed ==
  /\ pc = "landed"
  /\ trampoline_enabled' = FALSE
  /\ LastReport(IF reports[Current].status = "NOTRUN" THEN "OK"
                                                      ELSE reports[Current].status,
                reports[Current].errors)
  /\ IF local_cleanup # 0 THEN Call("local_cleanup", "local_cleanup")
                          ELSE pc' = "clear" /\ UNCHANGED event
  /\ calls' = 0
  /\ UNCHANGED <<exit, schedule, total_errors, output, trampoline, depth,
                 local_cleanup, invoke, sandboxVars>>

LocalCleanupReturns ==
  /\ pc = "local_cleanup" /\ depth = 0
  /\ pc' = "clear"
  /\ calls' = 0
  /\ UNCHANGED <<exit, schedule, results, output, jump, depth, local_cleanup,
                 invoke, event, sandboxVars>>

\* Mutant of ClearInvokepoint: the invoke point is not cleared.
KeepInvokepoint ==
  /\ pc = "clear"
  /\ IF Entry.cleanup THEN Call("cleanup", "cleanup")
                      ELSE pc' = "sandbox_cleanup" /\ UNCHANGED event
  /\ UNCHANGED <<exit, schedule, results, output, jump, user, local_cleanup,
                 invoke, sandboxVars>>

ClearInvokepoint ==
  /\ pc = "clear"
  /\ invoke' = NoSite
  /\ IF Entry.cleanup THEN Call("cleanup", "cleanup")
                      ELSE pc' = "sandbox_cleanup" /\ UNCHANGED event
  /\ UNCHANGED <<exit, schedule, results, output, jump, user, local_cleanup,
                 sandboxVars>>

CleanupReturns ==
  /\ pc = "cleanup" /\ depth = 0
  /\ pc' = "sandbox_cleanup"
  /\ calls' = 0
  /\ UNCHANGED <<exit, schedule, results, output, jump, depth, local_cleanup,
                 invoke, event, sandboxVars>>

SandboxCleanup ==
  /\ pc = "sandbox_cleanup" /\ sandbox # 0
  /\ clar_sandbox_cleanup
  /\ pc' = "end"
  /\ UNCHANGED <<exit, schedule, results, output, jump, user, local_cleanup,
                 invoke, event>>

\* No sandbox was named, or fs_rm fails, which is a failed assertion too; both come
\* too late for a longjmp.
SandboxCleanupAsserts ==
  /\ pc = "sandbox_cleanup"
  /\ SandboxRemovalFails \/ (sandbox = 0 /\ UNCHANGED sandboxVars)
  /\ RecordError
  /\ abort_test
  /\ UNCHANGED <<schedule, output, jump, calls, local_cleanup, invoke>>

\* Mutant of EndTest: the cleanup of the test stays set.
EndTestKeepsCleanup ==
  /\ pc = "end"
  /\ Call("next", "TEST_END")
  /\ tests_ran' = tests_ran + 1
  /\ printed' = Append(printed, reports[Current].status)
  /\ UNCHANGED <<exit, schedule, results, jump, user, local_cleanup, invoke,
                 sandboxVars>>

EndTest ==
  /\ pc = "end"
  /\ Call("next", "TEST_END")
  /\ tests_ran' = tests_ran + 1
  /\ local_cleanup' = 0
  /\ printed' = Append(printed, reports[Current].status)
  /\ UNCHANGED <<exit, schedule, results, jump, user, invoke, sandboxVars>>
--------------------------------------------------------------------------------
(* clar_test_shutdown, and the return of main() *)

EndRun ==
  /\ pc = "suite" /\ at > Len(Entries)
  /\ pc' = "shutdown"
  /\ UNCHANGED <<exit, schedule, results, output, jump, user, local_cleanup,
                 invoke, event, sandboxVars>>

TempdirShutdown ==
  /\ pc = "shutdown"
  /\ clar_tempdir_shutdown
  /\ pc' = "summary"
  /\ UNCHANGED <<exit, schedule, results, output, jump, user, local_cleanup,
                 invoke, event>>

TempdirShutdownAsserts ==
  /\ pc = "shutdown" /\ reports # <<>>
  /\ TempdirRemovalFails
  /\ RecordError
  /\ abort_test
  /\ UNCHANGED <<schedule, output, jump, calls, local_cleanup, invoke>>

\* The failed assertion is recorded through last_report, NULL if no test was run.
TempdirShutdownCrashes ==
  /\ pc = "shutdown" /\ reports = <<>>
  /\ TempdirRemovalFails
  /\ Exit(Killed)
  /\ UNCHANGED <<schedule, results, output, jump, user, local_cleanup, invoke,
                 event>>

\* The summary may fail; if it was fclose that did, the file is closed twice
\* (undefined: in practice nothing happens, or the process dies).
Return ==
  /\ pc = "summary"
  /\ \/ Exit(total_errors % ExitModulus)
     \/ "summary" \in Faults /\ (clar_abort \/ Exit(Killed))
  /\ UNCHANGED <<schedule, results, output, jump, user, local_cleanup, invoke,
                 event, sandboxVars>>

Exited == pc = "exited" /\ UNCHANGED vars
--------------------------------------------------------------------------------
CallsApi ==
  \/ cl_check \/ cl_assert \/ cl_skip \/ cl_set_cleanup
  \/ cl_invoke_enter \/ cl_invoke_leave \/ test_chdir
  \/ cl_fs_cleanup \/ cl_fs_cleanup_asserts

RunsTest ==
  \/ CreateSandbox \/ CreateSandboxAsserts \/ Setjmp
  \/ InitializeReturns \/ TestReturns \/ Landed \/ LocalCleanupReturns
  \/ ClearInvokepoint \/ CleanupReturns
  \/ SandboxCleanup \/ SandboxCleanupAsserts \/ EndTest

RunsSuites ==
  \/ clar_test_init \/ clar_test_init_aborts
  \/ SkipSuite \/ BeginSuite \/ BeginTest \/ EndSuite \/ QuitSuite
  \/ EndRun \/ TempdirShutdown \/ TempdirShutdownAsserts
  \/ TempdirShutdownCrashes \/ Return

Next == CallsApi \/ RunsTest \/ RunsSuites \/ Exited

Spec == Init /\ [][Next]_vars
\* One thread, which the system schedules; called code makes finitely many calls.
FairSpec == Spec /\ WF_vars(Next)
--------------------------------------------------------------------------------
(* Safety *)

\* The driver keeps its promises to the author of a suite: its initialize and
\* cleanups are called once around each test, in order, even if the test fails,
\* and a verdict of OK means no error was raised (clar_run_test, abort_test;
\* README.md:82-87, 133-135, 231-235).
Session == INSTANCE TestSession WITH
             Suites     <- Entries,
             verdicts   <- printed,
             raised     <- reports # <<>> /\ reports[Current].errors # <<>>,
             registered <- local_cleanup # 0,
             over       <- pc = "exited"
KeepsSession == Session!SessionSpec

\* What was printed for a test stays true: no failure is attributed to a test
\* after its verdict was announced (clar_print_ontest is the last thing
\* clar_run_test does).  Only a failing removal of the whole directory, which
\* ends the process, comes later.
PrintedIsFinal ==
  pc # "exited" => /\ Len(printed) = tests_ran
                   /\ \A k \in DOMAIN printed : printed[k] = reports[k].status

\* An error in the report of a test names a line reached by that test: an invoke
\* point that a longjmp leaves behind does not reach the next test's errors
\* (clar__clear_invokepoint in clar_run_test).
ErrorsStayHome ==
  \A n \in DOMAIN reports : \A k \in DOMAIN reports[n].errors :
    reports[n].errors[k].test = n

\* Where helpers do not call helpers by cl_invoke, an error is shown at a line of
\* the test itself, not of a helper, also after a longjmp left one (clar.h:110-114;
\* a nested cl_invoke overwrites the invoke point of the one around it).
InvokeShowsTheTest ==
  MaxDepth <= 1 =>
    \A n \in DOMAIN reports : \A k \in DOMAIN reports[n].errors :
      reports[n].errors[k].level = 0

\* The cleanup a test sets is called for no other test (the reset of
\* local_cleanup after each test).
LocalCleanupIsOwn == local_cleanup \in {0, Current}

Failed(n) == reports[n].errors # <<>>

\* Status 0 is a clean bill: no error was raised anywhere and every test of the
\* enabled entries was run to its end, whatever way the process ended (the exits
\* of clar_abort and abort_test, -Q, the return of clar_test_run), as long as the
\* number of errors fits the status.
ZeroMeansClean ==
  (exit = 0 /\ total_errors < ExitModulus) =>
    /\ \A n \in DOMAIN reports : ~Failed(n)
    /\ \A i \in DOMAIN Entries \cap enabled :
         \A k \in 1..Entries[i].tests :
           \E n \in DOMAIN printed : reports[n].suite = i /\ reports[n].test = k

\* With -Q no test begins once any error was raised, be it by a cleanup or
\* by a test that went on (the two checks of clar_run_suite).
QuitsOnError ==
  [][exit_on_error /\ (\E n \in DOMAIN reports : Failed(n)) => Len(reports') = Current]_vars

\* A test never finds the sandbox of an earlier one: the directories on disk are
\* at most its own (clar_sandbox_create, clar_sandbox_cleanup).  A relative
\* tempdir makes no sandboxes at all.
NoPollution == dirs \subseteq {Current}

\* Where the tempdir can be reached from everywhere, a longjmp goes to the frame of
\* the test that is running, unless the path of its sandbox is too long: then it
\* comes before setjmp (trampoline_enabled is set earlier, and clar_sandbox_create
\* asserts in between).  It never comes there because of the sandbox of a test before.
JumpsHome ==
  [][(TempPath = "absolute" /\ event'.phase = "LONGJMP" /\ event.phase # "LONGJMP")
        => trampoline = Current \/ (pc = "create" /\ sandbox = 0)]_vars

(* Liveness *)

\* Whatever the tests do, the process exits: no failure in a cleanup throws
\* the driver back to call it again, for ever.
Terminates == <>(pc = "exited")
--------------------------------------------------------------------------------
(* What the documentation says, and the code does not do *)

\* README.md:223-224 says of cl_check that "a test failure will be logged";
\* only the errors of reports whose status is FAILURE are listed.
LoggedFailuresAreListed ==
  pc = "shutdown" => \A n \in DOMAIN reports : Failed(n) => reports[n].status = "FAILURE"

\* sandbox.h:222 asserts that no sandbox is left when one is created.
NoSandboxLeft == pc = "create" => sandbox = 0
================================================================================
