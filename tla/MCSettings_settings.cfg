SPECIFICATION Spec

CONSTANTS
  ByteBits = 2
  EepromSize = 17
  SETTINGS_VERSION <- Version
  PULSE_MIN = 1
  defaults <- Defaults
  BIT_HOMING_ENABLE = 0
  BIT_SOFT_LIMIT_ENABLE = 1
  N_AXIS = 2
  SETTING_INDEX_NCOORD = 1
  N_STARTUP_LINE = 2
  LINE_BUFFER_SIZE = 2
  EEPROM_ADDR_GLOBAL = 1
  EEPROM_ADDR_PARAMETERS = 5
  EEPROM_ADDR_STARTUP_BLOCK = 11
  EEPROM_ADDR_BUILD_INFO = 12
  Commands <- NumberCommands
  MaxCommands = 3
  MaxLosses = 2

INVARIANTS
  TypeOK
  SoftLimitsNeedHoming
  InUseIsStored
  NumbersRecalled

CHECK_DEADLOCK FALSE
