------------------------------ MODULE ClarArgsInv ------------------------------
(***************************************************************************)
(* The inductive invariant of the command line: the words that are read    *)
(* are those of the first options, and all is as these options ask.  It    *)
(* speaks of the suites that the loop finds; what these are in names, is   *)
(* a matter of the table of suites (ClarArgsProofs).                       *)
(***************************************************************************)
EXTENDS ClarArgs

\* The words of the first n options have been read.
Read(n) == i = Len(FlattenSeq([m \in 1..n |-> asked[m].words])) + 1

\* None of them ends the process.
Passed(n) == \A m \in 1..n : ~Ends(asked[m])

\* A suite is enabled as the last of them that found it says.
Finding(j, n) ==
  {m \in 1..n : asked[m].letter \in NameLetters /\ j \in Found(asked[m].name)}
EnabledInv(n) ==
  \A j \in Index :
    j \in enabled <=> IF Finding(j, n) = {} THEN Suites[j].enabled
                      ELSE asked[Max(Finding(j, n))].letter # "x"

\* The list of -s holds what the -s among them found.
ExplicitInv(n) ==
  /\ \A k \in DOMAIN explicit : \E m \in 1..n :
       /\ asked[m].letter = "s" /\ explicit[k].filter = asked[m].name
       /\ explicit[k].suite \in Found(asked[m].name)
  /\ \A m \in 1..n : asked[m].letter = "s" =>
       \A j \in Found(asked[m].name) :
         \E k \in DOMAIN explicit : explicit[k] = [suite |-> j, filter |-> asked[m].name]

\* The last -r among them names the summary, or leaves it without a name.
SummaryInv(n) ==
  LET reporting == {m \in 1..n : asked[m].letter = "r"}
  IN IF reporting = {} THEN ~write_summary /\ summary_filename = NoFile
     ELSE /\ write_summary
          /\ summary_filename = LET name == asked[Max(reporting)].name
                                IN IF name = <<>> THEN NoFile ELSE name

InputInv ==
  /\ argv = FlattenSeq([m \in DOMAIN asked |-> asked[m].words])
  /\ \A m \in DOMAIN asked : asked[m].letter = "unfinished" => m = Len(asked)

ParseInv ==
  pc = "parse" =>
    /\ exit = Running
    /\ \E n \in 0..Len(asked) :
         Read(n) /\ Passed(n) /\ EnabledInv(n) /\ ExplicitInv(n) /\ SummaryInv(n)

RunInv ==
  pc = "run" =>
    /\ exit = Running
    /\ Passed(Len(asked)) /\ EnabledInv(Len(asked)) /\ ExplicitInv(Len(asked))
    /\ SummaryGoesWhereAsked

ExitInv ==
  pc = "exited" =>
    \E n \in DOMAIN asked :
      Ends(asked[n]) /\ Passed(n - 1) /\ exit = StatusOf(asked[n].letter)

ArgsInvariant == TypeOK /\ InputInv /\ ParseInv /\ RunInv /\ ExitInv
--------------------------------------------------------------------------------
\* The table and the options leave no doubt what a name is of.  A suite whose name
\* begins another's comes first, and the other's does not go on with "::" there; no
\* name of a suite ends with a colon or has a '$'; and where an option goes on from
\* the name of a suite, it does so with two colons, not three.  The mixer sorts the
\* names, but it orders the variants of one suite as the file does, and it makes
\* names that go on from others: of those this is the assumption, no promise of it.
NamesApart ==
  /\ \A j, k \in Index :
       IsPrefix(Suites[j].name, Suites[k].name) =>
         j <= k /\ ~IsPrefix(Suites[j].name \o <<":", ":">>, Suites[k].name)
  /\ \A j \in Index :
       LET name == Suites[j].name
       IN (name # <<>> => Last(name) # ":") /\ \A m \in DOMAIN name : name[m] # "$"
  /\ \A j \in Index, option \in Options :
       ~IsPrefix(Suites[j].name \o <<":", ":", ":">>, option.name)
================================================================================
