\* Every run ends, also with a tempdir named by a relative path: sandboxes are not
\* made, and not left.
SPECIFICATION FairSpec
CONSTANTS
  TempPath = "dot"
  Faults = {"mkdtemp", "length", "mkdir", "enter", "summary"}
  Entries <- ThreeSuites
  Selections <- OrNone
  Api <- AllCalls
  MaxCalls = 3
  MaxErrors = 3
  MaxDepth = 1
  ExitModulus = 256
INVARIANTS
  ErrorsStayHome
  InvokeShowsTheTest
  ZeroMeansClean
PROPERTIES
  KeepsSession
  Terminates
