CONSTANTS
  ByteOrder = "big"
  SensorModels = {"MS5803_07", "MS5806_02", "MS5837_30"}
  Tasks = {t1}
  Boot = boot
  RegisterOsr = 512
  OsrArgs = {256, 100}
  Genuine <- GenuineProm
  GlitchMasks = {1, 32768}
  ConvTime <- DatasheetConvTime
  MaxFaults = 1
  MaxGlitches = 1
  ReloadWords = {}
  Undef = Undef
  NoConv = NoConv
  NoMeas = NoMeas
  CONFIG_DEBUG_SENSORS = FALSE
SPECIFICATION Spec
INVARIANT TypeOK
INVARIANT CalibrationGenuine
INVARIANT OsrDelayConsistent
INVARIANT MeasurementSettled
