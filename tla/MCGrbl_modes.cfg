SPECIFICATION Spec

CONSTANTS
  BlockBuffer = 1
  SegmentBuffer = 2
  SegsPerBlock = 2
  LineKinds <- ModeLines
  RtInputs <- ModeInputs
  MaxLines = 2
  MaxInputs = 3

INVARIANTS
  TypeOK
  IInv
  HoldCompleteMeansStopped
  JogContained

PROPERTIES
  ResetStopsMotion
  AlarmLatched
