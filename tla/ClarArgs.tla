-------------------------------- MODULE ClarArgs --------------------------------
(***************************************************************************)
(* The command line of a test program: clar_parse_args and clar_test_init  *)
(* of clar.c, and what they make of the table of suites, that is which     *)
(* tests clar_test_run gives to clar_run_test, and in which order.  ClarRun *)
(* takes that schedule as its constant Entries.                            *)
(*                                                                         *)
(* A string is a sequence of characters where the code compares or cuts it; *)
(* the name of a file is a single token.                                   *)
(***************************************************************************)
EXTENDS Integers, SequencesExt

CONSTANTS
  Characters,  (* What strings are made of.                                   *)
  Suites,      (* The table _clar_suites of the mixer.                        *)
  Options,     (* What a user may ask for, with the words that say so.        *)
  MaxOptions,  (* Bound: options on one command line.                         *)
  Environments (* The values of CLAR_SUMMARY; NoFile where it is not set.     *)

String == Seq(Characters)
Index  == DOMAIN Suites
NoFile == <<"NULL">>         \* The pointer NULL, no string.

NameLetters == {"s", "i", "x"}
FlagLetters == {"q", "Q", "t", "l", "v"}
Letters     == NameLetters \cup FlagLetters \cup {"r"}
Option      == [letter: Letters \cup {"misuse", "unfinished"}, name: String, words: Seq(String)]

\* The letter of a word, if the word is an option at all.
LetterOf(w) == IF w # <<>> /\ w[1] = "-" /\ Len(w) > 1 THEN w[2] ELSE "none"

\* The words say what the option asks for.  "misuse" is a word that is no option, or
\* a flag with more letters; "unfinished" a letter whose name is missing.
Spelled(option) ==
  LET l == option.letter  name == option.name  words == option.words
      Alone(w) == <<w>>
  IN \/ /\ l \in NameLetters
        /\ \/ name # <<>> /\ name[1] # "=" /\ words = Alone(<<"-", l>> \o name)
           \/ name # <<>> /\ words = Alone(<<"-", l, "=">> \o name)
           \/ words = << <<"-", l>>, name >>
           \/ words = << <<"-", l, "=">>, name >>
     \/ l \in FlagLetters /\ words = Alone(<<"-", l>>)
     \/ l = "r" /\ words = Alone(<<"-", "r">> \o name)
     \/ /\ l = "misuse" /\ Len(words) = 1
        /\ \/ LetterOf(words[1]) \notin Letters
           \/ LetterOf(words[1]) \in FlagLetters /\ Len(words[1]) # 2
     \/ /\ l = "unfinished"
        /\ \E k \in NameLetters : words \in {Alone(<<"-", k>>), Alone(<<"-", k, "=">>)}

ASSUME ArgsAssumption ==
  /\ Letters \cup {"-", "=", ":", "$", "summary.xml"} \subseteq Characters
  /\ "NULL" \notin Characters
  /\ Suites \in Seq([name: String, tests: Seq(String), enabled: BOOLEAN])
  /\ Options \subseteq Option /\ \A option \in Options : Spelled(option)
  /\ MaxOptions \in Nat
  /\ Environments \subseteq String \cup {NoFile}

VARIABLES
  asked,    (* The options of this command line: no variable of the code.     *)
  env,      (* The environment variable CLAR_SUMMARY.                         *)
  argv, i,  (* The words after the name of the program; the next to be read.  *)
  pc,       (* "parse", "run" once clar_test_init is done, or "exited".       *)
  exit,     (* The exit status; Running until then.                           *)
  enabled,  (* The suites of the table that are enabled.                      *)
  explicit, (* The list of the -s options.                                    *)
  verbosity, output_format, exit_on_error,
  write_summary, summary_filename

input    == <<asked, env, argv>>
printing == <<verbosity, output_format, exit_on_error>>
summary  == <<write_summary, summary_filename>>
vars == <<input, i, pc, exit, enabled, explicit, printing, summary>>

Running == -1

TypeOK ==
  /\ asked \in Seq(Options) /\ env \in Environments
  /\ argv \in Seq(String) /\ i \in 1..(Len(argv) + 1)
  /\ pc \in {"parse", "run", "exited"} /\ exit \in {Running, 0, 1, 255}
  /\ enabled \subseteq Index
  /\ explicit \in Seq([suite: Index, filter: String])
  /\ verbosity \in Int
  /\ output_format \in {"CLAP", "TAP"}
  /\ exit_on_error \in BOOLEAN /\ write_summary \in BOOLEAN
  /\ summary_filename \in String \cup {NoFile}

Init ==
  /\ asked \in BoundedSeq(Options, MaxOptions)
  /\ \A n \in DOMAIN asked : asked[n].letter = "unfinished" => n = Len(asked)
  /\ env \in Environments
  /\ argv = FlattenSeq([n \in DOMAIN asked |-> asked[n].words]) /\ i = 1
  /\ pc = "parse" /\ exit = Running
  /\ enabled = {j \in Index : Suites[j].enabled} /\ explicit = <<>>
  /\ verbosity = 0 /\ output_format = "CLAP" /\ exit_on_error = FALSE
  /\ write_summary = FALSE /\ summary_filename = NoFile
--------------------------------------------------------------------------------
(* Names of suites and tests. *)

\* What a loop over a sequence picks: its elements at these places, in their order.
Picked(s, places) ==
  LET picked[n \in 0..Len(s)] == IF n = 0 THEN <<>>
                                 ELSE IF n \in places THEN Append(picked[n - 1], s[n])
                                 ELSE picked[n - 1]
  IN picked[Len(s)]

\* strncmp over the length of the shorter of the two strings.
Agree(s, t) == IsPrefix(s, t) \/ IsPrefix(t, s)
Rest(s, n)  == SubSeq(s, n + 1, Len(s))

\* Mutant of Hit: a name that merely begins like the argument is enough.
HitBySubstring(name, j) == Agree(name, Suites[j].name)

\* The name of suite j agrees with the argument, and where the argument is longer
\* it goes on with "::".
Hit(argument, j) ==
  LET name == Suites[j].name
  IN Agree(argument, name)
     /\ (Len(argument) > Len(name) => IsPrefix(<<":", ":">>, Rest(argument, Len(name))))

Exact(argument, j) == Len(argument) >= Len(Suites[j].name)

\* The suites an argument is applied to: the loop stops at the first exact one.
Found(argument) ==
  LET hits == {j \in Index : Hit(argument, j)}
  IN {j \in hits : \A k \in hits : Exact(argument, k) => j <= k}

\* The filter without the name of the suite and the colons that follow it.
TestFilter(j, filter) ==
  LET tail   == Rest(filter, Len(Suites[j].name))
      colons == {n \in 0..Len(tail) : \A m \in 1..n : tail[m] = ":"}
  IN Rest(tail, Max(colons))

\* The loop of clar_run_suite goes on to the next test, or runs this one.
Keeps(j, filter, test) ==
  LET rest  == TestFilter(j, filter)
      exact == rest # <<>> /\ Last(rest) = "$"
  IN \/ Len(filter) <= Len(Suites[j].name)
     \/ ~exact /\ IsPrefix(rest, test)
     \/ exact /\ test = Front(rest)

\* The tests of suite j that clar_run_suite runs under a filter, in their order.
Kept(j, filter) ==
  LET tests == Suites[j].tests
  IN Picked(tests, {m \in DOMAIN tests : Keeps(j, filter, tests[m])})

\* The calls of clar_run_suite that clar_test_run makes, with the tests they run.
Schedule ==
  LET Called(j, tests) == [suite |-> j, tests |-> IF j \in enabled THEN tests ELSE <<>>]
  IN IF explicit # <<>>
     THEN [n \in DOMAIN explicit |->
             Called(explicit[n].suite, Kept(explicit[n].suite, explicit[n].filter))]
     ELSE [j \in Index |-> Called(j, Suites[j].tests)]
--------------------------------------------------------------------------------
(* Reading the words. *)

word   == argv[i]
letter == LetterOf(word)

Parsing == pc = "parse" /\ i <= Len(argv)
Exit(status) ==
  pc' = "exited" /\ exit' = status /\ UNCHANGED <<input, i, enabled, explicit, printing, summary>>
clar_usage == Exit(1)

Plain ==
  /\ Parsing
  /\ letter \notin Letters
  /\ clar_usage

\* -s, -i and -x: the name is the rest of the word, perhaps after a '=', or the
\* next word.
Naming   == Parsing /\ letter \in NameLetters
Attached == IF Len(word) > 2 /\ word[3] = "=" THEN Rest(word, 3) ELSE Rest(word, 2)

NameIsMissing == Naming /\ Attached = <<>> /\ i = Len(argv) /\ clar_usage

argument == IF Attached # <<>> THEN Attached ELSE argv[i + 1]

\* Mutant of TakeName: the next word is used as the name and then read again.
TakeNameOnce ==
  /\ Naming /\ (Attached = <<>> => i < Len(argv))
  /\ i' = i + 1

TakeName ==
  /\ Naming /\ (Attached = <<>> => i < Len(argv))
  /\ i' = i + (IF Attached # <<>> THEN 1 ELSE 2)

Names(l) == TakeName /\ letter = l /\ Found(argument) # {}

Select ==
  /\ Names("s")
  /\ explicit' = explicit \o Picked([j \in Index |-> [suite |-> j, filter |-> argument]],
                                   Found(argument))
  /\ enabled' = enabled \cup Found(argument)
  /\ UNCHANGED <<input, pc, exit, printing, summary>>

Include ==
  /\ Names("i")
  /\ enabled' = enabled \cup Found(argument)
  /\ UNCHANGED <<input, pc, exit, explicit, printing, summary>>

Exclude ==
  /\ Names("x")
  /\ enabled' = enabled \ Found(argument)
  /\ UNCHANGED <<input, pc, exit, explicit, printing, summary>>

NoSuch == Naming /\ (Attached = <<>> => i < Len(argv)) /\ Found(argument) = {} /\ Exit(255)

\* The options of one letter.
Flag(l) == Parsing /\ letter = l

\* Mutant of Simple: it takes an argument, as -s does.
SimpleWithName(l) ==
  /\ Flag(l) /\ Len(word) = 2
  /\ i' = i + 2
  /\ UNCHANGED <<input, pc, exit, enabled, explicit, summary>>

Simple(l) ==
  /\ Flag(l) /\ Len(word) = 2
  /\ i' = i + 1
  /\ UNCHANGED <<input, pc, exit, enabled, explicit, summary>>

FlagIsMisused ==
  /\ \E l \in FlagLetters : Flag(l)
  /\ Len(word) # 2
  /\ clar_usage

Quiet   == Simple("q") /\ verbosity' = verbosity - 1 /\ UNCHANGED <<output_format, exit_on_error>>
Verbose == Simple("v") /\ verbosity' = verbosity + 1 /\ UNCHANGED <<output_format, exit_on_error>>
Tap     == Simple("t") /\ output_format' = "TAP" /\ UNCHANGED <<verbosity, exit_on_error>>
Quit    == Simple("Q") /\ exit_on_error' = TRUE /\ UNCHANGED <<verbosity, output_format>>
List    == Flag("l") /\ Len(word) = 2 /\ Exit(0)

Summary ==
  /\ Flag("r")
  /\ write_summary' = TRUE
  /\ summary_filename' = IF Len(word) > 2 THEN Rest(word, 2) ELSE NoFile
  /\ i' = i + 1
  /\ UNCHANGED <<input, pc, exit, enabled, explicit, printing>>
--------------------------------------------------------------------------------
(* clar_test_init, once the words are read. *)

Default == <<"summary.xml">>

\* Mutant of SummaryName: the environment wins over the option.
SummaryNameFromEnv ==
  IF env # NoFile THEN env
  ELSE IF summary_filename # NoFile \/ ~write_summary THEN summary_filename ELSE Default

SummaryName ==
  IF summary_filename # NoFile THEN summary_filename
  ELSE IF env # NoFile THEN env
  ELSE IF write_summary THEN Default ELSE NoFile

clar_test_init ==
  /\ pc = "parse" /\ i > Len(argv)
  /\ pc' = "run"
  /\ write_summary' = (write_summary \/ env # NoFile)
  /\ summary_filename' = SummaryName
  /\ UNCHANGED <<input, i, exit, enabled, explicit, printing>>

Next ==
  \/ Plain \/ NameIsMissing \/ Select \/ Include \/ Exclude \/ NoSuch
  \/ FlagIsMisused \/ Quiet \/ Verbose \/ Tap \/ Quit \/ List \/ Summary
  \/ clar_test_init

Spec == Init /\ [][Next]_vars
--------------------------------------------------------------------------------
(* What the options mean, said of the names alone (the help of clar.c:446-448). *)

\* A name is that of suite j, or of tests in it, or it is the beginning of the
\* names of several suites and of no suite itself.
Means(name, j) ==
  \/ name = Suites[j].name
  \/ IsPrefix(Suites[j].name \o <<":", ":">>, name)
  \/ IsPrefix(name, Suites[j].name) /\ \A k \in Index : name # Suites[k].name

MeansTest(name, j, test) ==
  LET full == Suites[j].name \o <<":", ":">> \o test
  IN Means(name, j) /\ IF name # <<>> /\ Last(name) = "$"
                       THEN full = Front(name) ELSE IsPrefix(name, full)

\* The last option about a suite decides.
On(j) ==
  LET about == {n \in DOMAIN asked :
                  asked[n].letter \in NameLetters /\ Means(asked[n].name, j)}
  IN IF about = {} THEN Suites[j].enabled ELSE asked[Max(about)].letter # "x"

Selecting == {n \in DOMAIN asked : asked[n].letter = "s"}
Wanted(j, test) ==
  On(j) /\ (Selecting = {} \/ \E n \in Selecting : MeansTest(asked[n].name, j, test))

Runs(j, test) ==
  \E n \in DOMAIN Schedule :
    Schedule[n].suite = j /\ \E m \in DOMAIN Schedule[n].tests : Schedule[n].tests[m] = test

\* The tests that are run are those the options ask for, however the options are
\* spelled and combined: the matching of names, the table of suites and the
\* filter inside a suite agree.
SelectionIsObeyed ==
  pc = "run" =>
    \A j \in Index : \A m \in DOMAIN Suites[j].tests :
      Runs(j, Suites[j].tests[m]) <=> Wanted(j, Suites[j].tests[m])

Ends(option) ==
  \/ option.letter \in {"misuse", "unfinished", "l"}
  \/ option.letter \in NameLetters /\ \A j \in Index : ~Means(option.name, j)

StatusOf(l) == CASE l = "l" -> 0 [] l \in {"misuse", "unfinished"} -> 1 [] OTHER -> 255

\* The process exits at the first option that is -l, is misused, or names no
\* suite, with the status of that option, and otherwise goes on: no word is
\* skipped and none is read twice.
ExitsForAReason ==
  LET ending == {n \in DOMAIN asked : Ends(asked[n])}
  IN /\ pc = "run" => ending = {}
     /\ pc = "exited" => ending # {} /\ exit = StatusOf(asked[Min(ending)].letter)

Reporting == {n \in DOMAIN asked : asked[n].letter = "r"}

\* A summary is written if -r or CLAR_SUMMARY asks for it, and goes to the file the
\* last -r names, or else CLAR_SUMMARY, or else summary.xml.
SummaryGoesWhereAsked ==
  pc = "run" =>
    LET named == Reporting # {} /\ asked[Max(Reporting)].name # <<>>
    IN /\ write_summary <=> Reporting # {} \/ env # NoFile
       /\ write_summary => summary_filename =
            IF named THEN asked[Max(Reporting)].name
            ELSE IF env # NoFile THEN env ELSE Default

\* "-xname  Exclude the suite with `name`" (clar.c:448): a suite whose name is given
\* to -x is not run, unless a later option asks for a suite again.
ExcludedNeverRun ==
  pc = "run" =>
    \A n \in DOMAIN asked, j \in Index :
      /\ asked[n].letter = "x" /\ asked[n].name = Suites[j].name
      /\ \A m \in DOMAIN asked : m > n => asked[m].letter \notin {"s", "i"}
      => \A m \in DOMAIN Suites[j].tests : ~Runs(j, Suites[j].tests[m])
================================================================================
