CONSTANTS
  ByteOrder = "big"
  SensorModels = {"MS5837_30"}
  Tasks = {t1}
  Boot = boot
  RegisterOsr = 512
  OsrArgs = {256}
  Genuine <- GenuineProm
  GlitchMasks = {1, 32768}
  ConvTime <- DatasheetConvTime
  MaxFaults = 1
  MaxGlitches = 0
  ReloadWords = {}
  Undef = Undef
  NoConv = NoConv
  NoMeas = NoMeas
  CONFIG_DEBUG_SENSORS = FALSE
SPECIFICATION Spec
INVARIANT MeasurementFresh
