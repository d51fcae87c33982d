----------------------------- MODULE SelftestProofs -----------------------------
(***************************************************************************)
(* What SelftestExec promises, proved for every set of suites, every size   *)
(* of the pipe and of the reads, and every combination of faults.           *)
(***************************************************************************)
EXTENDS SelftestExec, SequenceTheorems, TLAPS

\* The child can write exactly while it lives, the parent until it has closed its
\* end; the pipe is empty once the end of the file was seen.
PipeInv ==
  /\ "child" \in writers <=> child \in {"setup", "exec", "run"}
  /\ parent \in {"read", "wait", "status", "compare"} => "parent" \notin writers
  /\ parent \in {"wait", "status", "compare"} => pipe = <<>> /\ "child" \notin writers
  /\ parent \notin {"pipe", "fork", "done"} => child # "none"
  /\ parent \in {"pipe", "fork"} => child = "none"

\* The child runs the suite, or leaves as one that could not become it.
RunInv ==
  \/ running = program
  \/ /\ faults \cap {"setup", "exec"} # {}
     /\ running.status = 1 /\ running.output \in {<<>>, buffer}

\* What the child has left says how far it came.
StatInv ==
  /\ child \in {"none", "setup", "exec"} => wrote = 0 /\ running = program
  /\ child \in {"ending", "exited", "reaped"} =>
       \/ stat = running.status /\ wrote = Len(running.output)
       \/ stat = Signaled /\ faults # {}
  /\ parent = "compare" => stat = expected.status

IInv ==
  /\ TypeOK /\ PipeInv /\ RunInv /\ StatInv
  /\ NothingIsLost /\ OkMeansAsExpected /\ FailsForAReason
--------------------------------------------------------------------------------
LEMMA Programming ==
  ASSUME program \in Programs, expected \in Programs, buffer \in Buffers
  PROVE  /\ program \in Program /\ expected \in Program
         /\ program.output \in Seq(Bytes) /\ expected.output \in Seq(Bytes)
         /\ Len(program.output) \in Nat
         /\ buffer \in Seq(Bytes)
  BY ExecAssumption DEF ExecAssumption, Program

\* What a child that leaves by exit runs is a program too.
LEMMA ExitPrograms ==
  ASSUME NEW text \in Seq(Bytes)
  PROVE  /\ [output |-> text, status |-> 1] \in Program
         /\ <<>> \in Seq(Bytes)
         /\ Len(text) \in Nat
BY DEF Program, Status

LEMMA Associates ==
  ASSUME NEW s \in Seq(Bytes), NEW t \in Seq(Bytes), NEW u \in Seq(Bytes)
  PROVE  (s \o t) \o u = s \o (t \o u)
<1>1. /\ s \o t \in Seq(Bytes) /\ Len(s \o t) = Len(s) + Len(t)
      /\ t \o u \in Seq(Bytes) /\ Len(t \o u) = Len(t) + Len(u)
  BY ConcatProperties
<1>2. Len(s) \in Nat /\ Len(t) \in Nat /\ Len(u) \in Nat BY LenProperties
<1>3. /\ (s \o t) \o u \in Seq(Bytes) /\ s \o (t \o u) \in Seq(Bytes)
      /\ Len((s \o t) \o u) = Len(s \o (t \o u))
  BY <1>1, <1>2, ConcatProperties
<1>4. ASSUME NEW k \in 1..Len((s \o t) \o u)
      PROVE  ((s \o t) \o u)[k] = (s \o (t \o u))[k]
  BY <1>1, <1>2, ConcatProperties
<1> QED BY <1>3, <1>4, SeqEqual

LEMMA NoStatus == None \notin Status /\ Signaled \notin Status /\ 1 \in Status /\ None # Signaled
BY DEF None, Signaled, Status

\* What a read moves from the pipe to the data stays where it is in their sequence.
LEMMA Moving ==
  ASSUME NEW s \in Seq(Bytes), NEW t \in Seq(Bytes), NEW n \in 1..Len(t)
  PROVE  /\ SubSeq(t, 1, n) \in Seq(Bytes) /\ SubSeq(t, n + 1, Len(t)) \in Seq(Bytes)
         /\ Len(SubSeq(t, n + 1, Len(t))) <= Len(t)
         /\ (s \o SubSeq(t, 1, n)) \o SubSeq(t, n + 1, Len(t)) = s \o t
<1>0. Len(t) \in Nat BY LenProperties
<1>1. \A k \in 1..Len(t) : t[k] \in Bytes BY ElementOfSeq
<1>2. SubSeq(t, 1, n) \in Seq(Bytes)
  BY <1>0, <1>1, SubSeqProperties, SMT
<1>3. SubSeq(t, n + 1, Len(t)) \in Seq(Bytes) /\ Len(SubSeq(t, n + 1, Len(t))) <= Len(t)
  BY <1>0, <1>1, SubSeqProperties, SMT
<1>4. SubSeq(t, 1, n) \o SubSeq(t, n + 1, Len(t)) = t
  <2>1. 1 \in 1..(Len(t) + 1) /\ n \in (1 - 1)..Len(t) /\ Len(t) \in n..Len(t) BY <1>0
  <2>2. SubSeq(t, 1, n) \o SubSeq(t, n + 1, Len(t)) = SubSeq(t, 1, Len(t))
    BY <2>1, ConcatAdjacentSubSeq
  <2> QED BY <2>2, SubSeqFull
<1>5. (s \o SubSeq(t, 1, n)) \o SubSeq(t, n + 1, Len(t))
        = s \o (SubSeq(t, 1, n) \o SubSeq(t, n + 1, Len(t)))
  BY <1>2, <1>3, Associates, Zenon
<1> QED BY <1>2, <1>3, <1>4, <1>5, Zenon

\* One more byte of the output is the next one.
LEMMA Writing ==
  ASSUME NEW out \in Seq(Bytes), NEW n \in Nat, n < Len(out),
         NEW s \in Seq(Bytes), NEW t \in Seq(Bytes), s \o t = SubSeq(out, 1, n)
  PROVE  /\ Append(t, out[n + 1]) \in Seq(Bytes)
         /\ Len(Append(t, out[n + 1])) = Len(t) + 1
         /\ s \o Append(t, out[n + 1]) = SubSeq(out, 1, n + 1)
<1>0. Len(out) \in Nat BY LenProperties
<1>1. n + 1 \in 1..Len(out) /\ 1 \in 1..Len(out) /\ n + 1 \in 1..Len(out) BY <1>0
<1>2. out[n + 1] \in Bytes BY <1>1, ElementOfSeq
<1>3. SubSeq(out, 1, n + 1) = SubSeq(out, 1, n + 1 - 1) \o <<out[n + 1]>>
  BY <1>1, SubSeqRecursiveSecond
<1>4. n + 1 - 1 = n OBVIOUS
<1>5. Append(t, out[n + 1]) = t \o <<out[n + 1]>> BY <1>2, AppendIsConcat
<1>6. <<out[n + 1]>> \in Seq(Bytes) BY <1>2
<1>7. (s \o t) \o <<out[n + 1]>> = s \o (t \o <<out[n + 1]>>) BY <1>6, Associates
<1> QED BY <1>2, <1>3, <1>4, <1>5, <1>7, AppendProperties

LEMMA InitHolds == Init => IInv
<1> SUFFICES ASSUME Init PROVE IInv OBVIOUS
<1> USE DEF Init
<1>0. program \in Program BY Programming
<1>1. SubSeq(program.output, 1, 0) = <<>> BY SubSeqEmpty
<1>2. NothingIsLost BY <1>1 DEF NothingIsLost
<1>3. TypeOK BY <1>0, ExecAssumption, Programming
  DEF TypeOK, ExecAssumption, None, Signaled, Status, Processes, Bytes
<1> QED BY <1>2, <1>3 DEF IInv, PipeInv, RunInv, StatInv, OkMeansAsExpected, FailsForAReason

\* The type invariant.
LEMMA TypeStep == IInv /\ [Next]_vars => TypeOK'
<1> SUFFICES ASSUME IInv, [Next]_vars PROVE TypeOK' OBVIOUS
<1> USE DEF IInv, TypeOK, Processes, script
<1>p. /\ running.output \in Seq(Bytes) /\ Len(running.output) \in Nat
      /\ running.status \in Status
      /\ buffer \in Seq(Bytes) /\ <<>> \in Seq(Bytes)
  BY Programming DEF Program
<1>1. CASE CreatePipe BY <1>1, <1>p DEF CreatePipe
<1>2. CASE PipeFails BY <1>2, <1>p DEF PipeFails, Fail
<1>3. CASE Fork BY <1>3, <1>p DEF Fork, PipeInv
<1>4. CASE ForkFails BY <1>4, <1>p DEF ForkFails, Fail
<1>5. CASE CloseWriteEnd BY <1>5, <1>p DEF CloseWriteEnd
<1>6. CASE Read
  <2>1. PICK n \in 1..BufferSize : n <= Len(pipe) /\ data' = data \o SubSeq(pipe, 1, n)
                                   /\ pipe' = SubSeq(pipe, n + 1, Len(pipe))
    BY <1>6 DEF Read
  <2>2. Len(pipe) \in Nat /\ n \in 1..Len(pipe) BY <2>1, ExecAssumption, LenProperties DEF ExecAssumption
  <2>3. /\ SubSeq(pipe, 1, n) \in Seq(Bytes)
        /\ pipe' \in Seq(Bytes) /\ Len(pipe') <= Len(pipe)
    BY <2>1, <2>2, Moving
  <2>4. data' \in Seq(Bytes) BY <2>1, <2>3, ConcatProperties
  <2>5. Len(pipe') <= Capacity BY <2>2, <2>3, LenProperties, ExecAssumption DEF ExecAssumption
  <2> QED BY <1>6, <1>p, <2>3, <2>4, <2>5 DEF Read
<1>7. CASE ReadFails BY <1>7, <1>p DEF ReadFails, Fail
<1>8. CASE EndOfFile BY <1>8, <1>p DEF EndOfFile
<1>9. CASE Wait BY <1>9, <1>p DEF Wait
<1>10. CASE CheckStatus BY <1>10, <1>p DEF CheckStatus, Fail
<1>11. CASE Compare BY <1>11, <1>p DEF Compare, Fail
<1>12. CASE SetUp BY <1>12, <1>p DEF SetUp
<1>13. CASE SetUpFails
  <2>1. PICK text \in {<<>>, buffer} : ExitWith(text) BY <1>13 DEF SetUpFails
  <2>2. text \in Seq(Bytes) BY <1>p
  <2>3. running' \in Program /\ running'.output = text /\ wrote = 0
    BY <1>13, <2>1, <2>2, ExitPrograms DEF ExitWith, StatInv, SetUpFails
  <2> QED BY <1>13, <2>1, <2>2, <2>3, ExitPrograms DEF SetUpFails, ExitWith
<1>14. CASE Exec BY <1>14, <1>p DEF Exec
<1>15. CASE ExecFails
  <2>1. running' \in Program /\ running'.output = buffer /\ wrote = 0
    BY <1>15, <1>p, ExitPrograms DEF ExecFails, ExitWith, StatInv
  <2> QED BY <1>15, <1>p, <2>1, ExitPrograms DEF ExecFails, ExitWith
<1>16. CASE Write
  <2>1. /\ wrote \in Nat /\ wrote < Len(running.output) /\ Len(pipe) < Capacity
        /\ pipe' = Append(pipe, running.output[wrote + 1]) /\ wrote' = wrote + 1
    BY <1>16, <1>p DEF Write
  <2>2. pipe' \in Seq(Bytes) /\ Len(pipe') = Len(pipe) + 1
    BY <2>1, <1>p, Writing DEF NothingIsLost
  <2>3. Len(pipe') <= Capacity /\ wrote' \in 0..Len(running.output)
    BY <2>1, <2>2, <1>p, LenProperties, ExecAssumption DEF ExecAssumption
  <2> QED BY <1>16, <1>p, <2>2, <2>3 DEF Write
<1>17. CASE Finish BY <1>17, <1>p, NoStatus DEF Finish, End
<1>18. CASE Kill BY <1>18, <1>p, NoStatus DEF Kill, End
<1>19. CASE Ended BY <1>19 DEF Ended
<1>20. CASE UNCHANGED vars BY <1>20 DEF vars
<1>21. CASE WaitFails BY <1>21, <1>p DEF WaitFails, Fail
<1>22. CASE ReadFileFails BY <1>22, <1>p DEF ReadFileFails, Fail
<1> QED BY <1>1, <1>2, <1>3, <1>4, <1>5, <1>6, <1>7, <1>8, <1>9, <1>10, <1>11, <1>12,
           <1>13, <1>14, <1>15, <1>16, <1>17, <1>18, <1>19, <1>20, <1>21, <1>22
       DEF Next, Parent, Child

\* Who can write, and how far each process is.
LEMMA PipeStep == IInv /\ [Next]_vars => PipeInv'
<1> SUFFICES ASSUME IInv, [Next]_vars PROVE PipeInv' OBVIOUS
<1> USE DEF IInv, PipeInv, Processes
<1>t. TypeOK BY DEF IInv
<1>1. CASE CreatePipe BY <1>1 DEF CreatePipe
<1>2. CASE PipeFails BY <1>2 DEF PipeFails, Fail
<1>3. CASE Fork BY <1>3 DEF Fork
<1>4. CASE ForkFails BY <1>4 DEF ForkFails, Fail
<1>5. CASE CloseWriteEnd BY <1>5 DEF CloseWriteEnd
<1>6. CASE Read BY <1>6 DEF Read
<1>7. CASE ReadFails BY <1>7 DEF ReadFails, Fail
<1>8. CASE EndOfFile BY <1>8 DEF EndOfFile
<1>9. CASE Wait BY <1>9 DEF Wait
<1>10. CASE CheckStatus BY <1>10 DEF CheckStatus, Fail
<1>11. CASE Compare BY <1>11 DEF Compare, Fail
<1>12. CASE SetUp BY <1>12 DEF SetUp
<1>13. CASE SetUpFails BY <1>13 DEF SetUpFails, ExitWith
<1>14. CASE Exec BY <1>14 DEF Exec
<1>15. CASE ExecFails BY <1>15 DEF ExecFails, ExitWith
<1>16. CASE Write BY <1>16 DEF Write
<1>17. CASE Finish BY <1>17 DEF Finish, End
<1>18. CASE Kill BY <1>18 DEF Kill, End
<1>19. CASE Ended BY <1>19 DEF Ended
<1>20. CASE UNCHANGED vars BY <1>20 DEF vars
<1>21. CASE WaitFails BY <1>21 DEF WaitFails, Fail
<1>22. CASE ReadFileFails BY <1>22 DEF ReadFileFails, Fail
<1> QED BY <1>1, <1>2, <1>3, <1>4, <1>5, <1>6, <1>7, <1>8, <1>9, <1>10, <1>11, <1>12,
           <1>13, <1>14, <1>15, <1>16, <1>17, <1>18, <1>19, <1>20, <1>21, <1>22
       DEF Next, Parent, Child

\* What the child runs.
LEMMA RunStep == IInv /\ [Next]_vars => RunInv'
<1> SUFFICES ASSUME IInv, [Next]_vars PROVE RunInv' OBVIOUS
<1> USE DEF IInv, RunInv, script
<1>1. CASE SetUpFails
  <2>1. PICK text \in {<<>>, buffer} : ExitWith(text) BY <1>1 DEF SetUpFails
  <2> QED BY <1>1, <2>1 DEF SetUpFails, ExitWith
<1>2. CASE ExecFails BY <1>2 DEF ExecFails, ExitWith
<1>3. CASE UNCHANGED <<script, running>> BY <1>3
<1> QED BY <1>1, <1>2, <1>3 DEF Next, Parent, Child, vars, CreatePipe, PipeFails, Fork,
       ForkFails, CloseWriteEnd, Read, ReadFails, EndOfFile, Wait, WaitFails, CheckStatus,
       ReadFileFails, Compare, SetUp, Exec, Write, Finish, Ended, Kill, End

\* What the child has left.
LEMMA StatStep == IInv /\ [Next]_vars => StatInv'
<1> SUFFICES ASSUME IInv, [Next]_vars PROVE StatInv' OBVIOUS
<1> USE DEF IInv, StatInv, script
<1>1. CASE CreatePipe BY <1>1 DEF CreatePipe
<1>2. CASE PipeFails BY <1>2 DEF PipeFails, Fail
<1>3. CASE Fork BY <1>3 DEF Fork, PipeInv
<1>4. CASE ForkFails BY <1>4 DEF ForkFails, Fail
<1>5. CASE CloseWriteEnd BY <1>5 DEF CloseWriteEnd
<1>6. CASE Read BY <1>6 DEF Read
<1>7. CASE ReadFails BY <1>7 DEF ReadFails, Fail
<1>8. CASE EndOfFile BY <1>8 DEF EndOfFile
<1>9. CASE Wait BY <1>9 DEF Wait
<1>10. CASE CheckStatus BY <1>10 DEF CheckStatus, Fail
<1>11. CASE Compare BY <1>11 DEF Compare, Fail
<1>12. CASE SetUp BY <1>12 DEF SetUp
<1>13. CASE SetUpFails BY <1>13 DEF SetUpFails, ExitWith
<1>14. CASE Exec BY <1>14 DEF Exec
<1>15. CASE ExecFails BY <1>15 DEF ExecFails, ExitWith
<1>16. CASE Write BY <1>16 DEF Write, TypeOK
<1>17. CASE Finish BY <1>17 DEF Finish, End, TypeOK
<1>18. CASE Kill BY <1>18 DEF Kill, End, TypeOK
<1>19. CASE Ended BY <1>19 DEF Ended
<1>20. CASE UNCHANGED vars BY <1>20 DEF vars
<1>21. CASE WaitFails BY <1>21 DEF WaitFails, Fail
<1>22. CASE ReadFileFails BY <1>22 DEF ReadFileFails, Fail
<1> QED BY <1>1, <1>2, <1>3, <1>4, <1>5, <1>6, <1>7, <1>8, <1>9, <1>10, <1>11, <1>12,
           <1>13, <1>14, <1>15, <1>16, <1>17, <1>18, <1>19, <1>20, <1>21, <1>22
       DEF Next, Parent, Child

\* The data: only Read and Write touch it.
LEMMA DataStep == IInv /\ [Next]_vars => NothingIsLost'
<1> SUFFICES ASSUME IInv, [Next]_vars PROVE NothingIsLost' OBVIOUS
<1> USE DEF IInv, NothingIsLost, script
<1>p. /\ running.output \in Seq(Bytes) /\ Len(running.output) \in Nat
      /\ data \in Seq(Bytes) /\ pipe \in Seq(Bytes) /\ wrote \in Nat
  BY DEF TypeOK, Program
<1>1. CASE Read
  <2>1. PICK n \in 1..BufferSize : n <= Len(pipe) /\ data' = data \o SubSeq(pipe, 1, n)
                                   /\ pipe' = SubSeq(pipe, n + 1, Len(pipe))
    BY <1>1 DEF Read
  <2>2. n \in 1..Len(pipe) BY <1>p, <2>1, ExecAssumption, LenProperties DEF ExecAssumption
  <2>3. data' \o pipe' = data \o pipe BY <1>p, <2>1, <2>2, Moving
  <2> QED BY <1>1, <2>3 DEF Read
<1>2. CASE Write
  <2>1. /\ wrote < Len(running.output) /\ wrote' = wrote + 1
        /\ pipe' = Append(pipe, running.output[wrote + 1])
    BY <1>2 DEF Write
  <2>2. data \o pipe' = SubSeq(running.output, 1, wrote + 1) BY <1>p, <2>1, Writing
  <2> QED BY <1>2, <2>1, <2>2 DEF Write
<1>3. CASE SetUpFails \/ ExecFails
  <2>1. wrote = 0 /\ UNCHANGED <<pipe, wrote, data>>
    BY <1>3 DEF SetUpFails, ExecFails, ExitWith, StatInv
  <2>2. SubSeq(running.output, 1, 0) = <<>> /\ SubSeq(running'.output, 1, 0) = <<>>
    BY SubSeqEmpty
  <2> QED BY <2>1, <2>2
<1>4. CASE UNCHANGED <<script, pipe, running, wrote, data>> BY <1>4
<1> QED BY <1>1, <1>2, <1>3, <1>4 DEF Next, Parent, Child, vars, CreatePipe, PipeFails, Fork,
       ForkFails, CloseWriteEnd, ReadFails, EndOfFile, Wait, WaitFails, CheckStatus,
       ReadFileFails, Compare, SetUp, Exec, Finish, Ended, Kill, End

\* The verdict: it is only given by the parent.
LEMMA VerdictStep == IInv /\ [Next]_vars => OkMeansAsExpected' /\ FailsForAReason'
<1> SUFFICES ASSUME IInv, [Next]_vars PROVE OkMeansAsExpected' /\ FailsForAReason' OBVIOUS
<1> USE DEF IInv, OkMeansAsExpected, FailsForAReason, script
<1>p. program \in Program /\ expected \in Program BY Programming DEF TypeOK
<1>1. CASE PipeFails BY <1>1 DEF PipeFails, Fail
<1>2. CASE ForkFails BY <1>2 DEF ForkFails, Fail
<1>3. CASE ReadFails BY <1>3 DEF ReadFails, Fail
<1>4. CASE WaitFails BY <1>4 DEF WaitFails, Fail
<1>5. CASE ReadFileFails BY <1>5 DEF ReadFileFails, Fail
<1>6. CASE CheckStatus
  <2>1. child = "reaped" BY <1>6 DEF CheckStatus, TypeOK
  <2>2. faults = {} => stat = program.status BY <2>1 DEF StatInv, RunInv
  <2>3. Seen(program) = Seen(expected) => program.status = expected.status BY DEF Seen
  <2> QED BY <1>6, <2>2, <2>3 DEF CheckStatus, Fail
<1>7. CASE Compare
  <2>1. /\ child = "reaped" /\ pipe = <<>> /\ stat = expected.status
        /\ data \in Seq(Bytes) /\ UNCHANGED <<script, faults>>
    BY <1>7 DEF Compare, TypeOK, PipeInv, StatInv
  <2>2. data = SubSeq(running.output, 1, wrote)
    BY <2>1, ConcatEmptySeq DEF NothingIsLost
  <2>3. expected.status \in Status /\ running.output \in Seq(Bytes)
    BY <1>p DEF Program, TypeOK
  <2>4. stat # Signaled BY <2>1, <2>3, NoStatus, Zenon
  <2>5. stat = running.status /\ wrote = Len(running.output) BY <2>1, <2>4 DEF StatInv
  <2>6. data = running.output BY <2>2, <2>3, <2>5, SubSeqFull
  <2>7. verdict' = "OK" <=> Text(running.output) = Text(expected.output)
    BY <1>7, <2>6 DEF Compare, Fail
  <2>8. CASE running = program
    <3>1. Seen(program) = Seen(expected) <=> Text(running.output) = Text(expected.output)
      BY <2>1, <2>5, <2>8 DEF Seen
    <3> QED BY <1>7, <2>1, <2>7, <3>1 DEF Seen
  <2>9. CASE /\ faults \cap {"setup", "exec"} # {}
             /\ running.status = 1 /\ running.output \in {<<>>, buffer}
    <3>1. Text(<<>>) = <<>> BY DEF Text
    <3>2. Text(running.output) \in {<<>>, Text(buffer)} BY <2>9, <3>1
    <3>3. expected.status = 1 BY <2>1, <2>5, <2>9
    <3> QED BY <2>1, <2>7, <2>9, <3>2, <3>3
  <2> QED BY <2>8, <2>9 DEF RunInv
<1>8. CASE UNCHANGED <<script, verdict>> BY <1>8 DEF Seen
<1> QED BY <1>1, <1>2, <1>3, <1>4, <1>5, <1>6, <1>7, <1>8 DEF Next, Parent, Child, vars,
       CreatePipe, Fork, CloseWriteEnd, Read, EndOfFile, Wait, SetUp, SetUpFails, ExitWith,
       Exec, ExecFails, Write, Finish, Ended, Kill, End
--------------------------------------------------------------------------------
\* The inductive invariant: what is needed of the two processes, and what is promised.
THEOREM SelftestInvariance == Spec => []IInv
<1>1. IInv /\ [Next]_vars => IInv'
  BY TypeStep, PipeStep, RunStep, StatStep, DataStep, VerdictStep DEF IInv
<1> QED BY InitHolds, <1>1, PTL DEF Spec

\* Every variable of the self test keeps its type.
THEOREM SelftestTypeCorrect == Spec => []TypeOK
<1>1. IInv => TypeOK BY DEF IInv
<1> QED BY SelftestInvariance, <1>1, PTL

\* read_full loses, repeats and reorders nothing of what the child writes.
THEOREM OutputIsWhole == Spec => []NothingIsLost
<1>1. IInv => NothingIsLost BY DEF IInv
<1> QED BY SelftestInvariance, <1>1, PTL

\* A test that passes has seen the suite do as expected, up to a NUL, or a child that
\* could not become the suite leave what was expected of it.
THEOREM OkIsEarned == Spec => []OkMeansAsExpected
<1>1. IInv => OkMeansAsExpected BY DEF IInv
<1> QED BY SelftestInvariance, <1>1, PTL

\* Without faults, a test fails only if the suite does not do as expected.
THEOREM FailureIsEarned == Spec => []FailsForAReason
<1>1. IInv => FailsForAReason BY DEF IInv
<1> QED BY SelftestInvariance, <1>1, PTL
================================================================================
