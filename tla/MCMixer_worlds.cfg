\* Three files, two of them with the same module name, their edits, and runs that
\* are killed or see files shrink.
SPECIFICATION Spec
CONSTANTS
  Files <- ThreeFiles
  Names <- TwoNames
  NameOf <- Clashing
  Functions <- TestAndSetup
  Tests <- OneTest
  Worlds <- BothWorlds
  MaxTime = 3
INVARIANTS
  TypeOK
  AllListed
  ObeysExcludes
  MixerInvariant
