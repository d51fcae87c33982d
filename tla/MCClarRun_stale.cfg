\* Two tests that do nothing, without realpath(3).
SPECIFICATION Spec
CONSTANTS
  TempPath = "dot"
  Faults = {}
  Entries <- TwoTests
  Selections <- TheFirst
  Api <- NoCalls
  MaxCalls = 0
  MaxErrors = 0
  MaxDepth = 0
  ExitModulus = 256
INVARIANTS
  NoSandboxLeft
