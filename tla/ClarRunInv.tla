------------------------------ MODULE ClarRunInv ------------------------------
(***************************************************************************)
(* The inductive invariant of ClarRun: what holds at each point of the     *)
(* driver, one part per concern.  TLC checks it, ClarRunProofs proves it.  *)
(***************************************************************************)
EXTENDS ClarRun

InTest  == UserCode \cup {"create", "setjmp", "landed", "clear", "sandbox_cleanup", "end"}
Between == {"start", "suite", "next", "shutdown", "summary"}

\* Where the driver stands in the schedule, and how many reports there are.
CountInv ==
  /\ pc \in InTest \cup {"next"} => at \in DOMAIN Entries
  /\ pc \in {"shutdown", "summary"} => at > Len(Entries)
  /\ Len(printed) = tests_ran
  /\ pc \in InTest => Current = tests_ran + 1
  /\ pc \in Between => Current = tests_ran
  /\ Current \in {tests_ran, tests_ran + 1}
  /\ pc = "start" => at = 1

\* The trampoline is enabled exactly while the test may still be left.
JumpInv ==
  /\ pc # "exited" =>
       (trampoline_enabled <=> pc \in {"create", "setjmp", "initialize", "test", "landed"})
  /\ pc \in {"initialize", "test"} => trampoline = Current

\* The stack of helpers is only there in the code of the tests, and an invoke
\* point never outlives the call of clar__clear_invokepoint.
InvokeInv ==
  /\ pc \notin UserCode \cup {"exited"} => depth = 0
  /\ invoke # NoSite =>
       /\ invoke.test = Current
       /\ \/ pc \in {"initialize", "test", "landed", "local_cleanup", "clear", "exited"}
          \/ pc = "cleanup" /\ depth > 0

CleanupInv ==
  /\ local_cleanup # 0 => local_cleanup = Current /\ pc \in InTest \cup {"exited"}
  /\ pc \in {"create", "setjmp"} => local_cleanup = 0
  /\ pc = "local_cleanup" => local_cleanup # 0

\* What the statuses say of the errors.
VerdictInv ==
  \A n \in DOMAIN reports :
    /\ reports[n].status \in {"OK", "NOTRUN"} => ~Failed(n)
    /\ reports[n].status = "FAILURE" => Failed(n)
    /\ total_errors = 0 => ~Failed(n)

\* Only the test that has not been left yet may have no verdict.
NotRunInv ==
  \A n \in DOMAIN reports : reports[n].status = "NOTRUN" =>
    n = Current /\ pc \in {"create", "setjmp", "initialize", "test", "landed", "exited"}

\* The sandbox of the test is there from its creation to its cleanup; a relative
\* tempdir is never reached from where a test leaves the process.
SandboxInv ==
  /\ dirs \subseteq {Current}
  /\ pc \in Between \cup {"create", "end"} => dirs = {}
  /\ pc \notin {"start", "summary", "exited"} => tempdir = "present"
  /\ TempPath = "absolute" =>
       /\ pc \in Between \cup {"create", "end"} => sandbox = 0
       /\ pc \in InTest => sandbox \in {0, Current}
  /\ TempPath # "absolute" =>
       /\ dirs = {}
       /\ pc \in InTest => cwd # "sandbox" /\ (cwd = "parent" => TempPath = "dot")
       /\ pc \in {"suite", "next", "shutdown", "create", "end"} =>
            cwd \in {"tempdir", "elsewhere"}

\* Test k of entry i has been begun.
Ran(i, k) == \E n \in DOMAIN reports : reports[n].suite = i /\ reports[n].test = k

\* The tests before the place reached have been begun, unless -Q skips some.
ScheduleInv ==
  ~StopNow =>
    /\ \A i \in DOMAIN Entries \cap enabled : i < at =>
         \A k \in 1..Entries[i].tests : Ran(i, k)
    /\ pc \in InTest \cup {"next"} => \A k \in 1..nth : Ran(at, k)

\* Status 0 is only reached at the end of the schedule.
ExitInv ==
  /\ exit = 0 => at > Len(Entries) /\ Current = tests_ran
                 /\ (total_errors < ExitModulus => total_errors = 0)
  /\ pc # "exited" => exit = Running

\* The last event of a test whose local cleanup, if any, has been called.
Due == IF local_cleanup # 0 THEN {"local_cleanup"}
                            ELSE {"RUN_END", "LONGJMP", "local_cleanup"}

\* The last event at each point.
EventInv ==
  /\ pc = "start" => event.phase = "START"
  /\ pc = "suite" /\ ~StopNow => event.phase \in {"START", "SUITE_END"}
  /\ pc = "next" => event.phase \in {"SUITE_BEGIN", "TEST_END"}
  /\ pc \in {"create", "setjmp"} => event.phase = "TEST_BEGIN"
  /\ pc = "test" => event.phase = "RUN_BEGIN"
  /\ pc = "landed" => event.phase \in {"RUN_END", "LONGJMP"}
  /\ pc = "clear" => event.phase \in Due
  /\ pc \in {"sandbox_cleanup", "end"} =>
       event.phase \in IF Entry.cleanup THEN {"cleanup"} ELSE Due
  /\ pc \in {"initialize", "local_cleanup", "cleanup"} => event.phase = pc
  /\ event.test = Current
  /\ pc \in InTest \cup {"next"} => event.suite = at
  /\ pc = "suite" => event.suite < at
  /\ pc = "start" => event.suite = 0
  /\ pc = "initialize" => Entry.initialize
  /\ pc = "cleanup" => Entry.cleanup

\* What holds of helpers that do not nest cl_invoke.
HelperInv ==
  MaxDepth <= 1 =>
    depth \in {0, 1} /\ invoke.level = 0 /\ (depth = 1 => invoke # NoSite)

IInv ==
  /\ TypeOK /\ CountInv /\ JumpInv /\ InvokeInv /\ CleanupInv /\ VerdictInv
  /\ NotRunInv /\ SandboxInv /\ ScheduleInv /\ ExitInv /\ EventInv
  /\ PrintedIsFinal /\ ErrorsStayHome
================================================================================
