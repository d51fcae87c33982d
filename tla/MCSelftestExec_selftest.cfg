\* A pipe of two bytes, reads of up to two, outputs of up to five.
SPECIFICATION FairSpec
CONSTANTS
  Programs <- Suites
  Capacity = 2
  BufferSize = 2
  Buffers <- Buffered
  FaultSets <- AnyFault
INVARIANTS
  TypeOK
  NothingIsLost
  OkMeansAsExpected
  FailsForAReason
PROPERTY
  Finishes
\* The model ends with the verdict.
CHECK_DEADLOCK FALSE
