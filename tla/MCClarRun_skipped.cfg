\* A failed cl_check followed by cl_skip.
SPECIFICATION Spec
CONSTANTS
  TempPath = "absolute"
  Faults = {}
  Entries <- OneTest
  Selections <- TheFirst
  Api <- ChecksSkips
  MaxCalls = 2
  MaxErrors = 2
  MaxDepth = 0
  ExitModulus = 256
INVARIANTS
  LoggedFailuresAreListed
