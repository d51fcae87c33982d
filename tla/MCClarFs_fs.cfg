\* Two calls, one edit, one intrusion, in each of the three builds.
SPECIFICATION FairSpec
CONSTANTS
  Names <- AllNames
  Fixture <- TheFixture
  Sandbox <- TheSandbox
  Trees <- AllTrees
  LinkTargets <- Targets
  Builds = {"sendfile", "loop", "windows"}
  Faults = {"mkdir", "open", "unlink"}
  RetryCount = 5
  EditNames <- EditedNames
  MaxEdits = 1
  MaxIntrusions = 1
  MaxCalls = 2
INVARIANTS
  FsInv
PROPERTIES
  KeepsFixtures
  FailsForAReason
  StaysInside
  GoneOnReturn
  CallsEnd
