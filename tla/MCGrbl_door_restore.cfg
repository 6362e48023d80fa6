SPECIFICATION Spec

CONSTANTS
  BlockBuffer = 1
  SegmentBuffer = 1
  SegsPerBlock = 2
  LineKinds <- DoorLines
  RtInputs <- DoorInputs
  MaxLines = 2
  MaxInputs = 6

PROPERTIES
  RestartedOnResume
