------------------------------ MODULE TestSession ------------------------------
(***************************************************************************)
(* What the driver promises to the author of a test suite (README.md, "The *)
(* Clar Test Suite" and cl_set_cleanup): around every test, initialize and *)
(* the cleanups are called once, in order and even if the test fails, and  *)
(* every test ends with one verdict, which is a pass only if the test      *)
(* raised no error.  The process may give up at any time, but never lets a *)
(* second test begin while the first is not through.                       *)
(***************************************************************************)
EXTENDS Naturals, Sequences

CONSTANT Suites      (* A sequence of records with initialize and cleanup.    *)

VARIABLES
  event,             (* The last call of a suite's code, or trace event.      *)
  verdicts,          (* The verdicts announced, in the order of the tests.    *)
  raised,            (* An error was raised since the test began.             *)
  registered,        (* A cleanup is set for this test.                       *)
  over               (* The process has exited.                               *)

sessionVars == <<event, verdicts, raised, registered, over>>

Follows(phases, phase) ==
  /\ event.phase \in phases
  /\ event' = [event EXCEPT !.phase = phase]

MayRaise == raised' \in {raised, TRUE}

InTest == event.phase \in {"initialize", "RUN_BEGIN", "local_cleanup", "cleanup"}

\* The test's function is left, and the cleanups that are due have been called.
Due == IF registered THEN {"local_cleanup"} ELSE {"RUN_END", "LONGJMP", "local_cleanup"}
--------------------------------------------------------------------------------
SessionInit ==
  /\ event = [suite |-> 0, test |-> 0, phase |-> "START"]
  /\ verdicts = <<>>
  /\ raised = FALSE /\ registered = FALSE /\ over = FALSE

SuiteBegin ==
  /\ event.phase \in {"START", "SUITE_END"}
  /\ \E s \in DOMAIN Suites :
       s > event.suite /\ event' = [event EXCEPT !.suite = s, !.phase = "SUITE_BEGIN"]
  /\ UNCHANGED <<verdicts, raised, registered, over>>

SuiteEnd ==
  /\ Follows({"SUITE_BEGIN", "TEST_END"}, "SUITE_END")
  /\ UNCHANGED <<verdicts, raised, registered, over>>

TestBegin ==
  /\ event.phase \in {"SUITE_BEGIN", "TEST_END"}
  /\ event' = [event EXCEPT !.test = @ + 1, !.phase = "TEST_BEGIN"]
  /\ raised' = FALSE
  /\ UNCHANGED <<verdicts, registered, over>>

Initialize ==
  /\ Follows({"TEST_BEGIN"}, "initialize")
  /\ Suites[event.suite].initialize
  /\ UNCHANGED <<verdicts, raised, registered, over>>

RunBegin ==
  /\ Follows({"TEST_BEGIN", "initialize"}, "RUN_BEGIN")
  /\ Suites[event.suite].initialize => event.phase = "initialize"
  /\ UNCHANGED <<verdicts, raised, registered, over>>

RunEnd ==
  /\ Follows({"RUN_BEGIN"}, "RUN_END")
  /\ UNCHANGED <<verdicts, raised, registered, over>>

Longjmp ==
  /\ Follows({"initialize", "RUN_BEGIN"}, "LONGJMP")
  /\ MayRaise
  /\ UNCHANGED <<verdicts, registered, over>>

\* A test for which no directory can be made may fail before it is begun; the
\* process may not survive that.
NotBegun ==
  /\ Follows({"TEST_BEGIN"}, "LONGJMP")
  /\ raised' = TRUE
  /\ over' \in BOOLEAN
  /\ UNCHANGED <<verdicts, registered>>

LocalCleanup ==
  /\ registered
  /\ Follows({"RUN_END", "LONGJMP"}, "local_cleanup")
  /\ UNCHANGED <<verdicts, raised, registered, over>>

Cleanup ==
  /\ Follows(Due, "cleanup")
  /\ Suites[event.suite].cleanup
  /\ UNCHANGED <<verdicts, raised, registered, over>>

TestEnd ==
  /\ Follows(Due \cup {"cleanup"}, "TEST_END")
  /\ Suites[event.suite].cleanup => event.phase = "cleanup"
  /\ \E verdict \in {"OK", "FAILURE", "SKIP"} :
       /\ verdict = "OK" => ~raised
       /\ verdict = "FAILURE" => raised
       /\ verdicts' = Append(verdicts, verdict)
  /\ registered' = FALSE
  /\ UNCHANGED <<raised, over>>

\* What a test's code does without leaving: raise an error, set a cleanup.
Raise ==
  /\ InTest /\ raised' = TRUE
  /\ UNCHANGED <<event, verdicts, registered, over>>

Register ==
  /\ InTest /\ registered' = TRUE
  /\ UNCHANGED <<event, verdicts, raised, over>>

GiveUp ==
  /\ over' = TRUE
  /\ MayRaise
  /\ UNCHANGED <<event, verdicts, registered>>

SessionNext ==
  /\ ~over
  /\ \/ SuiteBegin \/ SuiteEnd \/ TestBegin \/ Initialize \/ RunBegin \/ RunEnd
     \/ Longjmp \/ NotBegun \/ LocalCleanup \/ Cleanup \/ TestEnd \/ Raise \/ Register \/ GiveUp

SessionSpec == SessionInit /\ [][SessionNext]_sessionVars
================================================================================
