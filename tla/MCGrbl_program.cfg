SPECIFICATION Spec

CONSTANTS
  BlockBuffer = 1
  SegmentBuffer = 1
  SegsPerBlock = 2
  LineKinds <- ProgramLines
  RtInputs <- ProgramInputs
  MaxLines = 2
  MaxInputs = 3

INVARIANTS
  DeenergisedWhileStopped
  CycleStopMeansStopped
  ProbeMotionContained

PROPERTIES
  ResumedByUser
