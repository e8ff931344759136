CONSTANTS
  ByteOrder = "big"
  SensorModels = {"MS5837_30"}
  Tasks = {t1}
  Boot = boot
  RegisterOsr = 512
  OsrArgs = {256, 100}
  Genuine <- GenuineProm
  GlitchMasks = {1, 32768}
  ConvTime <- DatasheetConvTime
  MaxFaults = 0
  MaxGlitches = 0
  ReloadWords = {0}
  Undef = Undef
  NoConv = NoConv
  NoMeas = NoMeas
  CONFIG_DEBUG_SENSORS = FALSE
SPECIFICATION Spec
INVARIANT CalibrationGenuine
