# A verification of clar

clar is a test framework for C: a driver (`clar.c`, `clar.h`, `clar/*.h`) that
is compiled together with the test suites, and a mixer (`generate.py`) that
scans the suites and writes the tables the driver is built from.  This
directory holds TLA+ models of it, the TLC configurations that check them on
small instances, and proofs that TLAPS checks.

Run everything from this directory: `tlc -config MCClarRun_driver.cfg MCClarRun`
and so on for the runs below (the configuration of a run is named after its module
and the run), and `tlapm` on `Induction.tla`, `ClarRunProofs.tla`, `ClarReportsProofs.tla`,
`ClarOutputProofs.tla`, `ClarFsProofs.tla`, `MixerProofs.tla`, `ClarArgsProofs.tla` and
`SelftestProofs.tla` for the proofs.

## The system

| component | source | state | operations | modelled by |
|---|---|---|---|---|
| test driver | `clar.c:152-439, 598-802, 1028-1049` | `_clar`: reports, counters, trampoline, local cleanup, invoke point | `clar_test_init`, `clar_test_run`, `clar_run_suite`, `clar_run_test`, `clar_test_shutdown`; called back: `cl_check`, `cl_assert`, `cl_skip`, `cl_set_cleanup`, `cl_invoke`, `cl_fs_cleanup` | `ClarRun` |
| sandbox | `clar/sandbox.h` | `_clar_tempdir`, `_clar_sandbox`, the working directory, the disk | tempdir init and shutdown, sandbox create and cleanup | `ClarSandbox` |
| mixer | `generate.py` | `TestSuite.modules`, `.clarcache`, `clar.suite`, `clar_suite.h` | load, refresh, disable, write | `Mixer` |
| command line | `clar.c:389-413, 441-622` | `_clar.explicit`, `enabled` of the suites, options | `-s -i -x -q -Q -t -l -v -r`, the filter | `ClarArgs` |
| assertions | `clar.c:804-1026`, the macros of `clar.h` | none | comparisons by type, descriptions | `ClarAssert` |
| filesystem helpers | `clar/fs.h`, `clar/fixtures.h` | files | `fs_copy`, `fs_rm`, `cl_fixture_sandbox`, `cl_fixture_cleanup` | `ClarFs` |
| printers | `clar/print.h` | verbosity, format | clap, tap | `ClarReports` |
| XML summary | `clar/summary.h` | the open file | init, shutdown | `ClarReports` |
| self test | `test/selftest.c` | a pipe, a child | `execute`, `read_full` | `SelftestExec` |
| build, example | `CMakeLists.txt`, `example/` | none | none | not modelled |

How they interact.  The mixer runs at build time and communicates with the
driver by one file, `clar.suite`, which `clar.c` includes.  In the driver all
is one thread, but control does not nest: the driver calls code it does not
control (initialize, the test, the cleanups), that code calls back, and a
failure leaves it by `longjmp` to the driver, or leaves the process by `exit`.
Which of the two depends on `trampoline_enabled`, that is on where the driver
was when it made the call.  What the driver records is shown three times: by the printers while it runs and at
its end, by the XML summary, and by the exit status.  The sandbox calls the driver's own assertions
(`cl_assert`, `cl_must_pass` in `sandbox.h` and `fs.h`), so a failure inside the
driver takes the same way as a failure in a test, at points where a `longjmp`
may be wrong.  The process-wide working directory is shared by the driver and
the tests, which may change it.

What is hard to test here is listed, with the line where it bites, under
"hazards" in `PROJECT.json`.  The groups:

- *control flow by longjmp*: state that a jump leaves behind (invoke point,
  local cleanup, trampoline), failures at each point of `clar_run_test`;
- *partial failure*: a directory call that fails, and a caller that does not look;
- *boundaries*: the exit status is a count modulo 256;
- *what is announced and what is true*: verdicts, `-Q`, the exit status, errors
  listed, against the errors that were raised;
- *a tree walked call by call*: partial reads and writes, a file or a directory that
  another process makes, removes or holds between two system calls;
- *a build tool among edits and kills*: the mixer's cache and its outputs
  against the files as they change.

What makes each component correct:

- driver: each test gets its own initialize, cleanups and verdict, once and in
  order (`TestSession`); nothing of one test is seen by the next; exit status 0
  means a clean and complete run; every run ends;
- sandbox: no test finds another's directory, and none stays named for the next;
- mixer: every test in the files is listed after a complete run, excluded modules
  are disabled, nothing is listed that is not there;
- command line: `-s`, `-i`, `-x` select the suites and tests they name;
- assertions: fail exactly when what they say is false, and show what differs;
- filesystem: a copy is equal to its source, a removal removes everything below
  and nothing else, and both end;
- printers and summary: what a reader of the output concludes agrees with the
  exit status, and a summary that is said to be written holds every test and
  every error once, well nested;
- self test: parent and child never wait on each other.

## The modules

### ClarSandbox, ClarRun

`ClarSandbox` describes what each function of `sandbox.h` does to four variables:
`tempdir`, `sandbox` (`_clar_sandbox`, named by the number of the test it was
made for, 0 when empty), `dirs` (sandboxes on disk) and `cwd`.  A path is
abstracted to whether the kernel can follow it: `TempPath` says how
`_clar_tempdir` is spelled, and `Resolves` whether that spelling leads to the
directory from the place where the process is.  It is always `"absolute"` where
`realpath` is used (`CLAR_HAS_REALPATH`, which the CMake build defines and a
build by hand, as in `README.md`, does not).  `Faults` is the set of calls that
may fail: `mkdtemp`, making a sandbox (`mkdir`) and entering it (`enter`), a removal
(`rm`), and the summary file; with `length` the path of a sandbox may be too long,
because `_clar_tempdir` may have up to `CLAR_MAX_PATH - 1` characters (sandbox.h:147),
and then the assertion at line 244, or 230, fails.

`ClarRun` extends it with the driver.  `pc` is the point of the driver that is
reached:

    start -> suite -> next -> create -> setjmp -> initialize -> test -> landed
      -> local_cleanup -> clear -> cleanup -> sandbox_cleanup -> end -> next ...
    suite -> shutdown -> summary -> exited

While `pc` is in `UserCode` (`initialize`, `test`, `local_cleanup`, `cleanup`)
any call of `Api` may come, and the code may return; every interleaving of
calls is explored up to `MaxCalls` for each time that such code runs, and `MaxErrors`
errors for each test.  `abort_test` is an operator used by every
action that ends in it: it exits with 1 when the trampoline is off, goes to
`landed` when it is on, and when the `jmp_buf` still holds the frame of an
earlier test (undefined behaviour in C) either lands or kills the process.
`Entries` is the sequence of `clar_run_suite` calls, that is all suites, or those
of `-s` with the tests their filter keeps, and `enabled`, chosen from `Selections`
at the start, those whose suite is enabled.  `event` is the last trace event or
call of a suite's function, `printed` the verdicts given to `clar_print_ontest`.

What is left out: `suites_ran` and `total_skipped` (only printed or never read),
times, the text of errors, failing allocations, a test that calls `exit`, crashes
or removes its own directory.  A cleanup callback given to `cl_set_cleanup` may
be the NULL that unsets it; the model has only the setting.

### TestSession

What the driver promises, said without its bookkeeping: the order of events
around each test, that a cleanup registered is called before the test ends, that
`OK` is not said of a test that raised an error and `FAILURE` is not said of one
that did not.  A test may be given up before it is begun (`NotBegun`): where an
assertion of `clar_sandbox_create` jumps before `setjmp`, the test has failed, if the
process survives the jump.  The process may give up at any time.  `ClarRun` instantiates it
(`Session`) with a refinement mapping, and `KeepsSession` says that `ClarRun`
implements it.

### ClarRunInv, ClarRunProofs

The inductive invariant and the proofs; see "What is proved".

### ClarAssert

The assertions have no state: `Holds` is what `clar.c` decides about a call of a
macro of `clar.h`, with the conversions the macro makes (`to_int`, `to_intmax_t`,
`to_uintmax_t`, of widths `IntBits` and `MaxBits`), and `Describe` is the text
`snprintf` puts into `buf`, a sequence of signs up to `BufSize`.  `Meant` says what
an assertion means in the numbers and strings themselves, without a conversion,
and `InRange` for which arguments the two can be expected to agree.  Wide strings
are compared as the others are, and so not told apart.

### ClarReports, ClarReportsInv, ClarReportsProofs, ClarOutputProofs

`ClarReports` extends `ClarRun` and `ClarAssert`: every step of the driver is one of
`ClarRun`, conjoined with what it prints.  `Starts`, `PrintsSuite`, `PrintsTest`,
`Aborts`, `FsCleanupAborts` and `Shutdown` are the steps that may print, `Quietly` the
others; `CheckFails` and `AssertionFails` make a step of `cl_check` or `cl_assert`
out of an assertion that does not hold.  `out` is the list of lines that were
printed, each a record of what it says; `clar_print_clap_ontest` and the others give
the lines of each format.  While `pc = "summary"` the loop of
`clar_summary_shutdown` runs write by write, `writer` being its point; a write may
fail, which the code notices but in two places (`WriteUnchecked`), and a failed
`fclose` leads to a second one.

`ClarReportsProofs` proves that this driver implements that of `ClarRun`, and what the
assertions decide and show.  `ClarReportsInv` is the inductive invariant of the output
and of the summary, and `ClarOutputProofs` proves it; see "What is proved".

### FixtureCalls, ClarFs, ClarFsProofs

`ClarFs` is `fs.h` system call by system call.  The recursion of the helpers is
`stack`, a sequence of frames; `op` of the last one is the system call that comes
next, and a failed assertion empties the stack, as the `longjmp` does.  `build` is
one of the three ways to compile `fs.h`: `sendfile`, the read/write loop, Windows.
`read`, `write` and `sendfile` take any part of what they are given.  `readdir` may
or may not return a name that came or went since `opendir`.  On Windows a path that
somebody holds is deleted when it is released, and `fs_rm_wait` retries.  The
callers are `cl_fixture_sandbox`, `cl_fixture_cleanup` and, at last, the removal of
the sandbox.  Beside the driver the test itself edits its sandbox between calls,
and other processes make or remove files and links in it (`Interferes`), hold and
release paths (`Holds`, `Releases`).

A symbolic link is a node with the path it leads to.  `lstat` and `unlink` see the
link, `open` follows it (`Follow`): a link in the fixture is copied as the file it
leads to, and where one stands in the place of the copy, the file it leads to is
written.  Links of the fixture lead to files outside the sandbox; those that the test
or another process makes, to the files of `LinkTargets`, which are there or can be
made, also files of the fixture itself.

`FixtureCalls` is what the calls promise to a test: one step from the tree that was
found to the tree that is left, where everything of the fixture is in its place and
nothing else has changed, or everything below a path is gone.  The place of a file is
where a link leads that stands there (`Place`), and only there does a copy change
anything outside the sandbox; of a copy that such a link leads over a file to be
copied (`OverItself`) nothing more is said.  `ClarFs` implements it: `KeepsFixtures`,
with `before`, the tree that the call found, standing for the tree until the call
returns.  It does not ask for an empty directory of the fixture in whose place
something else stands (`Unmade`): on POSIX the call returns without it.

### Mixer, MixerInv, MixerProofs

One run of `generate.py` is split at each system call where something else can
come in between: `Start` (the walk of the directory and the cache), for each
file the stat (`StatFails`, `StatKnown`, `StatNew`) and the read (`ReadFile`),
`Disable`, and for each output the decision (`Keep...`), the open that truncates
it (`Open...`) and the write (`Write...`).  `Edit` and `Remove` may come between
any two of them, and `Crash` kills the run and leaves the disk as it is.  A text
is the set of functions it defines; two texts with the same set are the same.
A file cut short in the middle of a write is treated as truncated: it exists and
differs from what is to be written, which is all the code looks at.

A cache that is truncated raises `EOFError`, which `load_cache` does not catch:
`Start` then waits for `-f`.

`MixerInv` is the inductive invariant and `MixerProofs` its proof; see "What is proved".

### ClarArgs, ClarArgsInv, ClarArgsProofs

The words of the command line are read one by one: an action for each option that
is understood, and `Plain`, `NameIsMissing`, `FlagIsMisused`, `NoSuch` and `List`
for the ways to exit.  Strings are sequences of characters where the code compares
them.  The loop over the suites stops at the first name that the argument is, or goes
on from; `Found` says which suites it reaches.  `clar_test_init` chooses the name
of the summary.  `Schedule` is then what `clar_test_run` makes of the list of `-s`
and the `enabled` marks: a sequence of suites with the tests their filter keeps.  Its
entries and marks are what `ClarRun` has as `Entries` and `Selections`.

The properties speak of `asked`, the options a user had in mind, of which `argv` is
a spelling, and of `Means`, which says what a name stands for without the loop.
Names with more than two colons in a row, which the code reads as if there were
two, are not in the instance, and `NamesApart` leaves them out.

Strings are sequences over `Characters`, any set that holds the letters of the options
and the four signs the code looks for.  `Spelled` says which words an option may be
written as: it is about the input, as `asked` is, and is an assumption on `Options`
(`ArgsAssumption`), so that the proofs hold for every name and every spelling.
`ClarArgsInv` is the inductive invariant and `ClarArgsProofs` its proof; see "What is
proved".

### SelftestExec, SelftestProofs

One test of `test/selftest.c`: parent and child are two processes that share a pipe
of `Capacity` bytes.  The parent creates it, forks, closes its write end, reads to
the end of the file, waits, and compares status and output.  The child sets up its
files, becomes the suite under test, which is a `Program` (what it writes and its
status), and exits, which closes its files a step before `waitpid` sees it.  A child
that cannot set up its files, or become the suite, leaves by `exit(1)`, not `_exit`:
it writes what the driver's stdout had buffered at `fork` (`buffer`, one of `Buffers`)
into the pipe, if its stdout already is the pipe.  What the child writes and exits with
is `running`.  The output is compared as `strcmp` does, up to the first NUL (`Text`).
`faults` is chosen at the start from `FaultSets`; `"signal"` lets the child be killed,
`"wait"` lets `waitpid` fail and `"file"` the reading of the expected output.  A failed
assertion ends the model with the verdict `FAILURE`; that the read end of the pipe, and
perhaps a child, is then left behind has no effect on the next test, which has a pipe of
its own.  The child has assertions too, on the number of its arguments and the length of
its path (`selftest.c:215, 227-241`), which would jump into the driver's frame in the
child: they only depend on how the test is built, and are not modelled.

## The runs

| run | instance | what it shows |
|---|---|---|
| driver | four suites, of which one is disabled and one is empty, or all are disabled; three tests, with and without callbacks; every call, 3 each time code of a suite runs, 2 errors per test, helpers 2 deep; every fault | the inductive invariant; verdicts final, errors at home, local cleanups own, status 0 clean, `-Q`; no shared sandbox, every longjmp to the running test but for paths that are too long; the refinement of `TestSession` |
| live | three suites of which one or all are disabled, all calls, all faults but failing removals, `TempPath = "dot"`, fairness | `Terminates`; the refinement of `TestSession`; errors at home, shown at the test, and status 0 clean even when sandboxes fail and a jump precedes `setjmp` |
| skipped | one test, `cl_check` and `cl_skip` | finding: a failed check followed by a skip is listed nowhere |
| stale | two tests without calls, `TempPath = "dot"` | finding: the assertion of `clar_sandbox_create` fails |
| reports | three tests in three calls of `clar_run_suite`, two of one suite; some 2500 assertions, each as the first call of the first test; up to two calls per test; both formats, four verbosities, with and without a summary, each write of which may fail | output and exit status tell the same; the summary is whole; assertions fail exactly when they should, and show what differs; the inductive invariant of output and summary |
| fs | a fixture that is a file, a link, an empty directory, or a directory with a link and a file in a directory; links to a file that is there, is copied, or is not there; two calls, one edit, one intrusion; the three builds; fairness | copies whole, removals complete, failures for a reason, nothing outside the sandbox but through links, every call ends |
| linked | one copy of a link, or of a directory with a link in it, by `sendfile` | finding: a file reached by a link is cut to the length of the link |
| worlds | three files, two of them with the same module name, three edits; either kills at any step, or files that shrink and `-x` options that change | every test listed by the next complete run, excluded modules disabled; the inductive invariant |
| args | three suites, one of them disabled; up to three options of 33, with and without `CLAR_SUMMARY` | the tests that run are those asked for; exits only for a reason; the summary's name; the inductive invariant |
| nested | suites `b` and `b::c`, one `-x` | finding: `-xb::c` disables `b` and not `b::c` |
| selftest | outputs of 0 to 5 bytes, NUL among them, an empty buffer of stdout or one with text, a pipe of 2, reads of up to 2, with and without faults, fairness | no deadlock of parent and child, no output lost, verdicts right |
| ghost | two files, one removed | finding: its tests go on being listed |

Bounds.  `MaxCalls` limits the calls that are made each time the driver calls code of a
suite, so that a driver that called a cleanup again and again would not be stopped by
it; `MaxErrors` limits the errors of a test, and `MaxDepth` the helpers.
Three tests in two suites are enough for everything that can leak from a test to
the next of the same suite and to the next of another suite; a disabled suite and
an empty one cover the ways a suite can be without tests.  Three calls let one test
set a cleanup, enter a helper and fail hard, or fail softly before; two errors are one of
each kind.  What `driver`
checks is also proved without bounds.  In `Mixer` each edit has a new mtime up to
`MaxTime`, so that two edits in one tick of the clock, which the mixer cannot see,
are left out; with three edits a file can be written, changed between the stat and
the read of a run, and changed again or emptied before the next.  Two files let a
modified module stand beside one that is not, which matters because
`maybe_generate` asks whether any is, and a third shares its module name.

In `ClarArgs` three options are enough for a suite to be selected, excluded and
included again, and for a word to be taken as a name between two others; the
suites' names begin alike (`ab`, `abc`) and one has two parts (`b::c`).  In
`SelftestExec` the output is longer than what the pipe and one read hold together,
so that the child has to wait for the parent, twice.

In `ClarReports` every assertion is made once, as the first thing the first test does,
because an assertion looks at its arguments only; the widths are small (`IntBits = 3`,
`MaxBits = 4`, `BufSize = 12`) so that arguments beyond every range, negative
precisions and descriptions that are cut all occur.  Two of the entries are of one
suite, as with two `-s`, so that a suite's element spans reports, and a third is of
another.  A write that fails writes nothing.

In `ClarFs` a call meets one change by another process (`MaxIntrusions`), which is
enough to come between any two of its system calls, and one edit of the test
(`MaxEdits`) before or between two calls (`MaxCalls`), which lets a copy find an
earlier one, a file in its way or a directory that is gone.  Edits use two names
(`EditNames`): that of the fixture and one of a file in it.  `RetryCount` is the
code's own 5.  Files have up to two bytes, so that there is a part of one that is
not the whole.  Other processes are kept away from the tree while the data of a file
is copied: what a copy of a file that changes should hold, nothing says.
One path to which links lead (`LinkTargets`) is enough, because the trees differ in what
it is: a file that a link of the fixture leads to, or nothing yet.  The system calls that
fail for reasons of their own are one of each kind: one whose result is not looked at
(`mkdir`), one in the middle of a copy (`open`) and one in the middle of a removal
(`unlink`).

Fairness.  `FairSpec` of `ClarRun` is weak fairness of the whole next-state
relation: the process is one thread, and the system goes on scheduling it.  It
also says that the code of the tests returns, which the bound on their calls
makes true: a test that never returns hangs the driver, which has no timeout.
`FairSpec` of
`ClarFs` is weak fairness of `Driver`, the steps of `fs.h`: they too are of one
thread, and nobody else is bound to do anything, not even to release a path.
The properties of `Mixer`, `ClarArgs` and `ClarReports` are safety only.  `FairSpec` of
`SelftestExec` is weak fairness of each of the two processes, which the system
schedules; it also says that the suite under test ends.

## What is proved

In `ClarRunProofs`, for every schedule `Entries`, all
`Selections`, every `Api`, `Faults`, `TempPath` and every bound, from `SandboxAssumption` and
`RunAssumption`, which only give the constants their types.

- `Invariance`: `Spec => []IInv`.  From it, one step each: `TypeCorrect`,
  `VerdictsAreFinal`, `ErrorsAreAtHome`, `CleanupsAreOwn`, `ZeroIsClean`,
  `SandboxesAreOwn`, and the action properties `QuitStops` and
  `JumpsAreHome`.
- `HelpersAreTransparent`: `InvokeShowsTheTest` where `MaxDepth <= 1`, from `IInv`
  and `HelperInv` (in every helper there is an invoke point, at a line of the test).
- `Implements`: `Spec => KeepsSession`, however the tempdir is named.

The argument.  None of the properties is inductive: that an error is shown at
home, say, needs that the invoke point belongs to the running test, which needs
that it is cleared at every point from which the next test can be reached.
`IInv` says what holds at each `pc`, in one part per concern:

- `CountInv`: how the number of reports, `tests_ran`, `printed` and `at` agree;
- `JumpInv`: the trampoline is on exactly from the head of `clar_run_test` to
  `landed`, and `trampoline` is the running test's from `setjmp` on;
- `InvokeInv`, `CleanupInv`: where an invoke point or a local cleanup can be set;
- `VerdictInv`, `NotRunInv`: what the statuses say of the errors;
- `SandboxInv`: where the process is, and which sandboxes are on disk, for each
  spelling of the tempdir;
- `ScheduleInv`, `ExitInv`: the tests before the place reached have been begun
  unless -Q stops the run, and status 0 is only reached at its end;
- `EventInv`: the last event at each point, needed for the refinement.

The proof tells the steps apart by what they do to the list of reports: those that
record an error (`Fails`), `cl_skip`, `Landed`, `BeginTest`, and the others, which
leave it alone (`Quiet`).  A lemma per part of `IInv` then goes through them.  The
refinement proof maps every action of `ClarRun` to one of `TestSession` or to a
stutter.

In `ClarReportsProofs`, for all constants of `ClarRun` and `ClarAssert`, every
`SuiteNames`, `Verbosities` and every set of `Assertions`:

- `ImplementsRun`: `ReportsSpec => Spec`, so that all that is proved of `ClarRun` holds of
  the driver that prints and writes its summary; `ReportsInvariance` says so of `IInv`.
- `VerdictsAreRight`: `VerdictIsRight` for all strings, all numbers and every width, with
  the lemmas `AllAlike` and `PrefixAlike` on what `strcmp` and `strncmp` find, and
  `HoldsAsMeant`, which relates `Holds` to `Meant`.  That the report of the test says
  `FAILURE` then rests on `IInv`: there is a report when an assertion is made.
- `DifferencesAreShown`: `DifferenceIsShown`.  A description that is not cut ends with the
  two arguments between quotes, and two of them are the same text only where the arguments
  are; numbers are shown as they are because `Pow2` grows (`MaxBits` is any number of bits).

In `ClarOutputProofs`, for the same constants, and so for any number of suites, tests,
calls and errors, any write that fails and any fault of `ClarRun`:

- `ReportsTypeCorrect`: the output consists of lines and the summary of elements.
- `OutputIsOfReports`, and from it `ReadersAgree`: `ReaderAgrees`.  Every step gives up
  aloud, goes on, ends a test, or ends the run (`StepSays`), and for each of these a lemma
  says which kinds of lines it may add.  The invariant `OutputInv` then relates lines to
  reports: an error that is counted is in a report (`CountedInv`), the lines for tests and
  the verdicts given are the same, numbered in order (`VerdictLinesInv`), whoever stops
  without a word has come to the end (`EndingInv`), and what an abort says decides the
  status (`AbortInv`).
- `ReportsInvariantHolds`, and from it `SummariesAgree`: `SummaryAgrees`.  The reports no
  longer change while the summary is written, so its elements can be compared with them
  write by write, one lemma for each.  `PlaceInv` says where the loop stands in the list of
  reports; `EndsInv`, `OrderInv` and `NestingInv` speak of all the elements written,
  `SuiteInv` of the suite that is open, `CompleteCase` of each report that has been passed,
  and `CurrentCase` of the one at which the loop is.

What `Listed`, `Pow2` and the depth of an element are for every argument is shown by
the lemmas of `Induction`, `LeastNumber`, `Inductive` and `Recursion`: a set of numbers
that is not empty has a least element, and from it follow induction over a set and the
existence of a function defined by recursion.

In `ClarFsProofs`, for every tree, fixture and sandbox apart from each other, every
build, every `RetryCount`, and all faults and bounds (`FsAssumption`; links lead to files
outside the sandbox): `FsInvariance`, and from it `StaysInSandbox` and `RemovedIsGone`.
`StaysInside` needs to know that the path of each frame is below the sandbox
(`FramesInside`), and that in a removal every frame is at a point of `fs_rm`, which
opens no file for writing; `GoneOnReturn`, that the first frame of a removal is about
what the call was for (both in `CallsRooted`); what others may release must be in the
sandbox too (`HeldInside`).  The proof does not go through the actions for each of
these: it shows once that an action is a `DiskStep` (at most one path changes, in the
sandbox or, in a copy, where a link in it leads) and a `StackStep` (a frame is replaced, entered or
left, or all are), and that these keep the invariant.

In `MixerProofs`, for all files, names of modules, texts, worlds and times, any number of
edits and runs (`MixerAssumption`):

- `MixerTypeCorrect` and `ExclusionsAreObeyed`: `TypeOK` and `ObeysExcludes`, from `BaseInv`.
- `MixerInvariantHolds`, and from it `EverythingIsListed`: `AllListed`, where a world whose
  runs may be killed keeps the tests of its files and its `-x` options (`KillsAlone`, which
  both worlds of the run `worlds` satisfy).

The argument.  A run writes an output only if a module is marked as modified, so the
invariant must say why a run that marks none has nothing to write.  `BaseInv` says that
what a table knows under the mtime of a file is the text of that file (`Fitting`), even
while a file that may have changed since its stat is being read (`Reading`), that a run
undisturbed by edits has seen every file (`LookedAt`), and that an excluded module is
marked (`Excluding`).  Where no run is killed, `FinishingInv`: what the cache holds is in
both outputs, and each module that was loaded is in the outputs or is marked.  Where
runs are killed the outputs may be anything between two runs, and `KilledInv` says the
converse: an output that differs from what the cache knows will be written again,
because the cache is `Stale`, so that the next run marks a module (`WillMark`).  Without
`KillsAlone` the property is false, as TLC shows on an instance: a kill leaves
`clar.suite` truncated, and when the file whose change made the run write loses its tests,
or the `-x` that did is not given again, no module is marked and the file stays as it is.

In `ClarArgsProofs`, for every table of suites, all options however they are spelled, any
number of them and any `CLAR_SUMMARY` (`ArgsAssumption`):

- `ArgsInvariantHolds`, and from it `SummaryIsWhereAsked` and `ExitsHaveReasons`:
  `SummaryGoesWhereAsked` and `ExitsForAReason`.
- `SelectionHolds`: `SelectionIsObeyed` where the names are apart (`NamesApart`).

The argument.  The invariant says that the words that were read are those of the first
`n` options (`Read`), none of which ends the process (`Passed`), and that the marks, the
list and the summary are what these `n` ask for (`EnabledInv`, `ExplicitInv`,
`SummaryInv`).  To see that a step goes from `n` to `n + 1` the proof needs that the
words of one option follow those of the others (`FlattenIs`, `Reads`), and that what the
code reads from them is what was asked, for each of the spellings and each of the ways
to exit (`NameIsTaken`, `KindIsRead`).  All this is of the suites that the loop finds; that
it finds none exactly where a name means none holds for every table (`FoundWhereMeant`).
That it finds those that are meant (`FoundIsMeant`), and that the filter keeps the tests
that are meant (`KeepsIs`), takes a table whose names are apart: none goes on from
another with `::`, one that begins another comes first, and none ends with a colon or
has a `$`.  The run `nested` shows that it is false otherwise.  The mixer does not
promise it: it sorts the names, so that one that begins another does come first, but not
the variants of one suite, which are in the order of their initializers.  TLC checks that
the table of `args` is such a table and that of `nested` is not (`ApartAssumption`).

In `SelftestProofs`, for all `Programs`, `Capacity`, `BufferSize`, `Buffers` and `FaultSets`
(`ExecAssumption` gives them their types): `SelftestInvariance`, and from it
`SelftestTypeCorrect`, `OutputIsWhole`, `OkIsEarned` and `FailureIsEarned`.  The
verdict is right because at the comparison the data is what the child wrote
(`NothingIsLost`, with an empty pipe), what the child wrote is the suite's or, if it did
not become the suite, what was buffered (`RunInv`), and the status says how far the child
came (`StatInv`); that the pipe is empty there, and the child gone, is `PipeInv`.

## What is only model-checked

- `Terminates`, `Finishes` and `CallsEnd`: liveness under fairness is out of the prover's reach here.
- `KeepsFixtures` and `FailsForAReason` of `ClarFs`: they speak of whole trees, and an
  invariant for them would have to say of every frame how far its copy has come.
- `SelectionIsObeyed` for tables whose names are not apart, where it is false: `nested` has
  an instance.
- The violated properties of the findings, which TLC refutes on an instance.

## What is not modelled

Wording, layout and escapes of messages and outputs; the regular expressions of the mixer
(its `Text` begins after them) and the C compiler that reads its output; memory
that cannot be allocated; a test that calls `exit`, is killed, or corrupts the
driver's memory; a second `clar_test` in one process.  Of Windows only `fs.h` is
modelled: the sandbox's own branches and the self test's are not.  In `fs.h`,
`fcopyfile` is one call of the system, and permissions, the assembling of paths,
links to directories or to other links, and links made on Windows are left out.  The build files have
no behaviour; the example's `main` is the action `Return`.

Some behaviours are in the models but outside the stated properties, because they
are what the code does and nothing says otherwise; the hazards in `PROJECT.json`
note each:

- 256 errors exit with status 0, and nested `cl_invoke` shows helpers;
- a test whose sandbox cannot be made runs in the directory of the process, although
  the comment at `sandbox.h:7-8` says otherwise, and `cl_fs_cleanup` always ends
  the process;
- a kill followed by a shrinking file or a changed `-x` leaves `clar.suite` truncated
  (which is why the world of kills and that of shrinking files are kept apart), and
  one of two files with the same module name is not listed;
- `cl_assert_equal_i` compares `UINTMAX_MAX` and -1 as equal, and the length of
  `cl_assert_equal_strn` becomes an `int`: one that turns negative compares all, one
  that turns small compares a part; `InRange` leaves out where that matters;
- a test case or a `skipped` that cannot be written is missing from a summary that is
  said to be written (`lost`), and after a failed `fclose` the file is closed again;
- an empty directory of a fixture is missing from the copy if `mkdir` fails, because
  something else is in its place (`Unmade`) or for a reason of its own
  (`MkdirFailsUnseen`);
- a copy writes through a link that stands in the sandbox, also over the fixture itself;
- a path of a sandbox that is too long makes the first test jump before `setjmp`, and a
  relative tempdir stays on disk after the run.

## Plan

Done: all components but the build files and the example are modelled and checked, and
all of their modules have proofs.  What is left:

1. `FailsForAReason` of `ClarFs`, and `KeepsFixtures` without intruders, from an
   invariant on the frames of a copy.
2. A run for tests without a sandbox, against `sandbox.h:7-8`.
