SPECIFICATION Spec

CONSTANTS
  Cycles <- TwoAxes
  homing_dir_mask = {"y"}
  Travel = 3
  Pulloff = 2
  SEARCH_TRAVEL = 4
  LOCATE_SCALAR = 2
  N_HOMING_LOCATE_CYCLE = 1
  HardStop = 1
  Commands = {"$H", "$X", "motion"}
  Inputs = {}
  MaxLines = 3
  MaxInputs = 0

INVARIANT
  HomingFromEmptyBuffer

CHECK_DEADLOCK FALSE
