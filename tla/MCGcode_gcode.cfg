SPECIFICATION Spec

CONSTANTS
  Words <- ParserWords
  MM_PER_INCH = 2
  MAX_LINE_NUMBER = 10000000
  N_COORDINATE_SYSTEM = 2
  PowerUpData <- Data
  PowerUpIntact <- Sound
  UninitialisedBits = {1, 12}
  MaxInputs = 5

INVARIANTS
  TypeOK
  OffsetsStored
  OutputsFollowModes
  PositionPlanned

PROPERTY
  WorkPositionAsProgrammed
