------------------------------ MODULE MCSelftestExec ------------------------------
(* Small instances of SelftestExec for TLC. *)
EXTENDS SelftestExec

\* Outputs shorter and longer than the pipe, that end or begin alike; two
\* differ after a NUL only.
Outputs  == {<<>>, <<1, 2>>, <<1, 2, 3, 4, 5>>, <<1, 2, 3, 4, 6>>, <<1, 0, 2>>, <<1, 0, 3>>,
             <<1, 2, 3>>}
Suites   == [output: Outputs, status: {0, 1}]
AnyFault == {{}, Calls}

\* Nothing, or more than the pipe holds: the child then waits for the parent to read.
Buffered == {<<>>, <<1, 2, 3>>}
================================================================================
