SPECIFICATION FairSpec

CONSTANTS
  Cycles <- TwoAxes
  homing_dir_mask = {"y"}
  Travel = 3
  Pulloff = 2
  SEARCH_TRAVEL = 4
  LOCATE_SCALAR = 2
  N_HOMING_LOCATE_CYCLE = 1
  HardStop = 1
  Commands = {"$H", "$X", "motion"}
  Inputs = {"reset", "door", "hold"}
  MaxLines = 2
  MaxInputs = 2

INVARIANTS
  HomedPosition
  FailedHomingLocks

PROPERTY
  HomingEnds

CHECK_DEADLOCK FALSE
