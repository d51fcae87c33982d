\* Three tests in two suites; every call and every failure, in a directory named by
\* an absolute path.
SPECIFICATION Spec
CONSTANTS
  TempPath = "absolute"
  Faults = {"mkdtemp", "length", "mkdir", "enter", "rm", "summary"}
  Entries <- FourSuites
  Selections <- OrNone
  Api <- AllCalls
  MaxCalls = 3
  MaxErrors = 2
  MaxDepth = 2
  ExitModulus = 256
INVARIANTS
  TypeOK
  PrintedIsFinal
  ErrorsStayHome
  LocalCleanupIsOwn
  ZeroMeansClean
  IInv
  NoPollution
PROPERTIES
  KeepsSession
  QuitsOnError
  JumpsHome
