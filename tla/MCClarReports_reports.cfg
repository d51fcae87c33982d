\* Three tests; every assertion in the first, both formats, the summary and its faults.
SPECIFICATION ReportsSpec
CONSTANTS
  TempPath = "absolute"
  Faults = {"mkdtemp", "length", "rm", "summary"}
  Entries <- ThreeEntries
  Selections <- AllOrNone
  Api <- TestCalls
  MaxCalls = 2
  MaxErrors = 3
  MaxDepth = 0
  ExitModulus = 256
  NULL = NULL
  IntBits = 3
  MaxBits = 4
  BufSize = 12
  SuiteNames <- TwoNames
  Verbosities <- SomeVerbosities
  Assertions <- AllAssertions
INVARIANTS
  ReportsTypeOK
  ReaderAgrees
  SummaryAgrees
  VerdictIsRight
  DifferenceIsShown
  ReportsInvariant
