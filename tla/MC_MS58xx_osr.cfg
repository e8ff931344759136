CONSTANTS
  ByteOrder = "big"
  SensorModels = {"MS5803_07"}
  Tasks = {t1}
  Boot = boot
  RegisterOsr = 512
  OsrArgs = {1024}
  Genuine <- GenuineProm
  GlitchMasks = {1, 32768}
  ConvTime <- DatasheetConvTime
  MaxFaults = 0
  MaxGlitches = 0
  ReloadWords = {}
  Undef = Undef
  NoConv = NoConv
  NoMeas = NoMeas
  CONFIG_DEBUG_SENSORS = FALSE
SPECIFICATION Spec
INVARIANT OsrDelayConsistent
