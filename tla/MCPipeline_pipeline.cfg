SPECIFICATION Spec

CONSTANTS
  BLOCK_BUFFER_SIZE = 4
  SEGMENT_BUFFER_SIZE = 4
  Lines <- MixedLines
  Overrides <- TwoSpeeds
  DEFAULT_OVERRIDE = 1
  MaxMotions = 3

INVARIANTS
  TypeOK
  CountersMatch
  SlotsAgree
  PlanOptimal
  ExitMatchesPlan
  PlannedInQueue

PROPERTIES
  MotionsInOrder
  MotionContinuous
