\* Every spelling of the options, three to a line, on a table whose names do not
\* go on from one another.
SPECIFICATION Spec
CONSTANTS
  Characters <- Alphabet
  Suites <- Table
  Options <- AllOptions
  MaxOptions = 3
  Environments <- WithAndWithout
INVARIANTS
  SelectionIsObeyed
  ExitsForAReason
  SummaryGoesWhereAsked
  ArgsInvariant
\* The model ends where clar_test_run starts, or where the process exits.
CHECK_DEADLOCK FALSE
