------------------------------ MODULE SelftestExec ------------------------------
(***************************************************************************)
(* One test of clar's own suite: assert_output, execute and read_full of   *)
(* test/selftest.c.  The parent, that is the driver of the self test, forks *)
(* a child that becomes the suite under test and writes into a pipe; the    *)
(* parent reads the pipe to its end, waits for the child, and compares its  *)
(* status and output with those expected.  A child that cannot become the   *)
(* suite leaves by exit, which writes the driver's own buffered output into *)
(* the pipe.  A failed assertion leaves the test by longjmp (module         *)
(* ClarRun): here the verdict is then "FAILURE".                            *)
(***************************************************************************)
EXTENDS Integers, Sequences

CONSTANTS
  Programs,   (* What a suite writes, and the status it then exits with.      *)
  Capacity,   (* How much a pipe holds.                                       *)
  BufferSize, (* How much one read takes at most.                             *)
  Buffers,    (* What the stdout of the driver may have buffered at fork:     *)
              (* clar_print_clap_init and onsuite do not flush it.            *)
  FaultSets   (* The calls that may fail in one world or another; "signal":   *)
              (* the child may be killed.                                     *)

Bytes   == 0..255
Status  == 0..255
Program == [output: Seq(Bytes), status: Status]
Calls   == {"pipe", "fork", "read", "wait", "file", "setup", "exec", "signal"}

ASSUME ExecAssumption ==
  /\ Programs \subseteq Program
  /\ Capacity \in Nat \ {0} /\ BufferSize \in Nat \ {0}
  /\ Buffers \subseteq Seq(Bytes)
  /\ FaultSets \subseteq SUBSET Calls

VARIABLES
  program, expected,  (* The suite under test; what the test expects of it.   *)
  buffer,             (* What is in the buffer of stdout at fork.             *)
  faults,             (* What may fail in this world.                         *)
  parent, child,      (* The point each process has reached.                  *)
  writers,            (* The processes that can write into the pipe.          *)
  pipe,               (* What is in it.                                       *)
  running,            (* What the child writes, and the status it exits with. *)
  wrote,              (* How much of that it has written.                     *)
  data,               (* What read_full has read.                             *)
  stat,               (* What the child left for waitpid.                     *)
  verdict

script == <<program, expected, buffer, faults>>
vars   == <<script, parent, child, writers, pipe, running, wrote, data, stat, verdict>>

None     == -1
Signaled == -2
Processes == {"parent", "child"}

TypeOK ==
  /\ program \in Programs /\ expected \in Programs
  /\ buffer \in Buffers /\ faults \in FaultSets
  /\ parent \in {"pipe", "fork", "close", "read", "wait", "status", "compare", "done"}
  /\ child \in {"none", "setup", "exec", "run", "ending", "exited", "reaped"}
  /\ writers \subseteq Processes
  /\ pipe \in Seq(Bytes) /\ Len(pipe) <= Capacity
  /\ running \in Program /\ wrote \in 0..Len(running.output)
  /\ data \in Seq(Bytes)
  /\ stat \in Status \cup {None, Signaled}
  /\ verdict \in {"NOTRUN", "OK", "FAILURE"}
  /\ stat = None <=> child \notin {"ending", "exited", "reaped"}
  /\ parent \in {"status", "compare"} => child = "reaped"

Init ==
  /\ program \in Programs /\ expected \in Programs
  /\ buffer \in Buffers /\ faults \in FaultSets
  /\ parent = "pipe" /\ child = "none"
  /\ writers = {}
  /\ running = program
  /\ pipe = <<>> /\ wrote = 0 /\ data = <<>>
  /\ stat = None /\ verdict = "NOTRUN"
--------------------------------------------------------------------------------
(* The parent. *)

\* An assertion of the test fails: it is left where it is, and its files stay open.
Fail == parent' = "done" /\ verdict' = "FAILURE"

CreatePipe ==
  /\ parent = "pipe"
  /\ parent' = "fork"
  /\ writers' = {"parent"}
  /\ UNCHANGED <<script, child, pipe, running, wrote, data, stat, verdict>>

PipeFails ==
  /\ "pipe" \in faults /\ parent = "pipe"
  /\ Fail
  /\ UNCHANGED <<script, child, writers, pipe, running, wrote, data, stat>>

\* Both processes have the write end.
Fork ==
  /\ parent = "fork"
  /\ parent' = "close" /\ child' = "setup"
  /\ writers' = Processes
  /\ UNCHANGED <<script, pipe, running, wrote, data, stat, verdict>>

ForkFails ==
  /\ "fork" \in faults /\ parent = "fork"
  /\ Fail
  /\ UNCHANGED <<script, child, writers, pipe, running, wrote, data, stat>>

\* Mutant of CloseWriteEnd: the parent keeps the end it does not use.
KeepWriteEnd ==
  /\ parent = "close"
  /\ parent' = "read"
  /\ UNCHANGED <<script, child, writers, pipe, running, wrote, data, stat, verdict>>

CloseWriteEnd ==
  /\ parent = "close"
  /\ parent' = "read"
  /\ writers' = writers \ {"parent"}
  /\ UNCHANGED <<script, child, pipe, running, wrote, data, stat, verdict>>

\* Mutant of Read: each read starts at the beginning of the data again.
ReadOver ==
  /\ parent = "read"
  /\ \E n \in 1..BufferSize :
       /\ n <= Len(pipe)
       /\ data' = SubSeq(pipe, 1, n)
       /\ pipe' = SubSeq(pipe, n + 1, Len(pipe))
  /\ UNCHANGED <<script, parent, child, writers, running, wrote, stat, verdict>>

\* A read takes some of what is there; it waits while nothing is.  One that is
\* interrupted is tried again and changes nothing.
Read ==
  /\ parent = "read"
  /\ \E n \in 1..BufferSize :
       /\ n <= Len(pipe)
       /\ data' = data \o SubSeq(pipe, 1, n)
       /\ pipe' = SubSeq(pipe, n + 1, Len(pipe))
  /\ UNCHANGED <<script, parent, child, writers, running, wrote, stat, verdict>>

ReadFails ==
  /\ "read" \in faults /\ parent = "read"
  /\ Fail
  /\ UNCHANGED <<script, child, writers, pipe, running, wrote, data, stat>>

\* Mutant of EndOfFile: nothing to read is taken for the end.
EndOfFileEarly ==
  /\ parent = "read"
  /\ pipe = <<>>
  /\ parent' = "wait"
  /\ UNCHANGED <<script, child, writers, pipe, running, wrote, data, stat, verdict>>

\* The end of the file is seen when nobody can write any more.
EndOfFile ==
  /\ parent = "read"
  /\ pipe = <<>> /\ writers = {}
  /\ parent' = "wait"
  /\ UNCHANGED <<script, child, writers, pipe, running, wrote, data, stat, verdict>>

\* Mutant of Wait: waitpid with WNOHANG.
WaitNot ==
  /\ parent = "wait"
  /\ parent' = "status"
  /\ child' = IF child = "exited" THEN "reaped" ELSE child
  /\ UNCHANGED <<script, writers, pipe, running, wrote, data, stat, verdict>>

Wait ==
  /\ parent = "wait"
  /\ child = "exited"
  /\ parent' = "status" /\ child' = "reaped"
  /\ UNCHANGED <<script, writers, pipe, running, wrote, data, stat, verdict>>

WaitFails ==
  /\ "wait" \in faults /\ parent = "wait"
  /\ Fail
  /\ UNCHANGED <<script, child, writers, pipe, running, wrote, data, stat>>

\* Mutant of CheckStatus: WIFEXITED is not looked at, and WEXITSTATUS of a process
\* that was killed is 0.
CheckStatusBits ==
  /\ parent = "status"
  /\ IF (IF stat = Signaled THEN 0 ELSE stat) = expected.status
     THEN parent' = "compare" /\ UNCHANGED verdict
     ELSE Fail
  /\ UNCHANGED <<script, child, writers, pipe, running, wrote, data, stat>>

CheckStatus ==
  /\ parent = "status"
  /\ IF stat = expected.status
     THEN parent' = "compare" /\ UNCHANGED verdict
     ELSE Fail
  /\ UNCHANGED <<script, child, writers, pipe, running, wrote, data, stat>>

\* The file with the expected output cannot be opened, read or closed.
ReadFileFails ==
  /\ "file" \in faults /\ parent = "compare"
  /\ Fail
  /\ UNCHANGED <<script, child, writers, pipe, running, wrote, data, stat>>

\* What strcmp sees of a buffer: it stops at the first NUL.
IsEnd(s, k) == s[k] = 0 /\ \A j \in 1..(k - 1) : s[j] # 0
Text(s) == IF \E k \in DOMAIN s : s[k] = 0
             THEN SubSeq(s, 1, (CHOOSE k \in DOMAIN s : IsEnd(s, k)) - 1)
             ELSE s

Compare ==
  /\ parent = "compare"
  /\ IF Text(data) = Text(expected.output)
     THEN parent' = "done" /\ verdict' = "OK"
     ELSE Fail
  /\ UNCHANGED <<script, child, writers, pipe, running, wrote, data, stat>>
--------------------------------------------------------------------------------
(* The child. *)

\* Exiting closes the files; waitpid sees the process only after that.
End(status) ==
  /\ child' = "ending" /\ stat' = status
  /\ writers' = writers \ {"child"}
  /\ UNCHANGED <<script, parent, pipe, running, wrote, data, verdict>>

\* Its stdout and stderr are now the write end.
SetUp ==
  /\ child = "setup"
  /\ child' = "exec"
  /\ UNCHANGED <<script, parent, writers, pipe, running, wrote, data, stat, verdict>>

\* exit(1): it flushes what stdout has buffered before the files are closed.
ExitWith(text) ==
  /\ child' = "run" /\ running' = [output |-> text, status |-> 1]
  /\ UNCHANGED <<script, parent, writers, pipe, wrote, data, stat, verdict>>

\* If the dup2 for stdout has not been made, that is not into the pipe.
SetUpFails ==
  /\ "setup" \in faults /\ child = "setup"
  /\ \E text \in {<<>>, buffer} : ExitWith(text)

Exec ==
  /\ child = "exec"
  /\ child' = "run"
  /\ UNCHANGED <<script, parent, writers, pipe, running, wrote, data, stat, verdict>>

ExecFails == "exec" \in faults /\ child = "exec" /\ ExitWith(buffer)

\* A write waits while the pipe is full.
Write ==
  /\ child = "run"
  /\ wrote < Len(running.output) /\ Len(pipe) < Capacity
  /\ wrote' = wrote + 1
  /\ pipe' = Append(pipe, running.output[wrote'])
  /\ UNCHANGED <<script, parent, child, writers, running, data, stat, verdict>>

Finish == child = "run" /\ wrote = Len(running.output) /\ End(running.status)

Ended ==
  /\ child = "ending"
  /\ child' = "exited"
  /\ UNCHANGED <<script, parent, writers, pipe, running, wrote, data, stat, verdict>>

Kill == "signal" \in faults /\ child \in {"setup", "exec", "run"} /\ End(Signaled)
--------------------------------------------------------------------------------
Parent ==
  \/ CreatePipe \/ PipeFails \/ Fork \/ ForkFails \/ CloseWriteEnd
  \/ Read \/ ReadFails \/ EndOfFile \/ Wait \/ WaitFails \/ CheckStatus
  \/ ReadFileFails \/ Compare

Child == SetUp \/ SetUpFails \/ Exec \/ ExecFails \/ Write \/ Finish \/ Ended \/ Kill

Next == Parent \/ Child
Spec == Init /\ [][Next]_vars

\* Two processes that the system schedules; the suite under test ends.
FairSpec == Spec /\ WF_vars(Parent) /\ WF_vars(Child)
--------------------------------------------------------------------------------
\* What the parent has read and what is in the pipe is what the child has written,
\* nothing lost, repeated or reordered by the loop of read_full.
NothingIsLost == data \o pipe = SubSeq(running.output, 1, wrote)

\* What a test can see of a suite.
Seen(p) == [output |-> Text(p.output), status |-> p.status]

\* A test passes only if the suite does what is expected, up to a NUL in its output;
\* or if a child that cannot become the suite happens to do it, with status 1 and
\* what the driver had buffered, or nothing.
OkMeansAsExpected ==
  verdict = "OK" =>
    \/ Seen(program) = Seen(expected)
    \/ /\ faults \cap {"setup", "exec"} # {}
       /\ expected.status = 1 /\ Text(expected.output) \in {<<>>, Text(buffer)}

\* A test whose suite does as expected fails only if something outside it did.
FailsForAReason ==
  verdict = "FAILURE" /\ faults = {} => Seen(program) # Seen(expected)

\* Parent and child do not wait on each other: whatever the child writes, however
\* much of it, the test comes to a verdict.
Finishes == <>(parent = "done")
================================================================================
