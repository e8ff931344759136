CONSTANTS
  ByteOrder = "big"
  CompModels = {"MS5803_02", "MS5803_05", "MS5803_07", "MS5803_14",
                "MS5803_30", "MS5805_02", "MS5806_02", "MS5837_30"}
  RawPress = {0, 1, 8388608, 16777215}
  RawTemp = {0, 1, 8388608, 16777215}
  CONFIG_MS58XX_VDD = 22
SPECIFICATION Spec
INVARIANT CompensationExact
