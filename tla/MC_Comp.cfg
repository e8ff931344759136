CONSTANTS
  ByteOrder = "big"
  CompModels = {"MS5803_02"}
  RawPress = {6465444}
  RawTemp = {8077636}
  CONFIG_MS58XX_VDD = 30
SPECIFICATION Spec
INVARIANT TempMatchesDatasheet
