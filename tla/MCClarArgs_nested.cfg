\* Two suites, the name of one going on from the other's.
SPECIFICATION Spec
CONSTANTS
  Characters <- Alphabet
  Suites <- Nested
  Options <- Exclusions
  MaxOptions = 1
  Environments <- WithAndWithout
INVARIANT
  ExcludedNeverRun
CHECK_DEADLOCK FALSE
