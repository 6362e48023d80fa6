SPECIFICATION FairSpec

CONSTANTS
  BlockBuffer = 1
  SegmentBuffer = 2
  SegsPerBlock = 2
  LineKinds <- ProgressLines
  RtInputs <- ProgressInputs
  MaxLines = 2
  MaxInputs = 3

INVARIANTS
  NoLostRestore

PROPERTIES
  ResetServed
  HoldCompletes
  CycleEnds
