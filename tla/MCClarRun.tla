------------------------------- MODULE MCClarRun -------------------------------
(* Small instances of ClarRun for TLC. *)
EXTENDS ClarRunInv

Fixture == [initialize |-> TRUE, cleanup |-> TRUE, tests |-> 2]
Bare    == [initialize |-> FALSE, cleanup |-> FALSE, tests |-> 1]
Empty   == [Fixture EXCEPT !.tests = 0]

\* A suite with both callbacks and two tests, one without callbacks, one without
\* tests, and another.
FourSuites  == <<Fixture, Bare, Empty, Bare>>
ThreeSuites == <<Fixture, Bare, Bare>>
OneTest     == <<Bare>>
TwoTests    == <<[Bare EXCEPT !.tests = 2]>>

\* The second suite is disabled; or all are.
NotTheSecond == {{1, 3, 4}}
OrNone       == NotTheSecond \cup {{}}
TheFirst     == {{1}}

PureCalls    == {"check", "assert", "skip", "set_cleanup", "invoke"}
FailingCalls == {"check", "assert", "set_cleanup", "chdir", "fs_cleanup"}
AllCalls     == PureCalls \cup FailingCalls
ChecksSkips  == {"check", "skip"}
NoCalls      == {}
================================================================================
