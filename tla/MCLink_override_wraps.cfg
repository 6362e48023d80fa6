SPECIFICATION Spec

CONSTANTS
  RX_BUFFER_SIZE = 5
  TX_BUFFER_SIZE = 2
  LINE_BUFFER_SIZE = 3
  Lines <- StreamedLines
  Commands <- FeedCommands
  MaxLines = 0
  MaxResets = 0
  MaxRealtime = 6
  OverrideBits = 5
  DEFAULT_FEED_OVERRIDE = 10
  MAX_FEED_RATE_OVERRIDE = 20
  MIN_FEED_RATE_OVERRIDE = 2
  COARSE_INCREMENT = 2
  FINE_INCREMENT = 1
  DEFAULT_RAPID_OVERRIDE = 4
  RAPID_OVERRIDE_MEDIUM = 2
  RAPID_OVERRIDE_LOW = 1

PROPERTY
  SlowerIsSlower
