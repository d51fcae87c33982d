\* A file is removed.
SPECIFICATION Spec
CONSTANTS
  Files <- TwoFiles
  Names <- TwoNames
  NameOf <- Apart
  Functions <- OneTest
  Tests <- OneTest
  Worlds <- OneWorld
  MaxTime = 2
INVARIANTS
  OnlyRealTests
