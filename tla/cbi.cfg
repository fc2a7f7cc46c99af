SPECIFICATION HostSpec
CONSTANTS
  FlashWords = 16
  SramSize = 6
  MaxSteps = 15
  IoPorts <- OnePort
  Words <- ClearBitWords
  Programs <- ClearBitPrograms
PROPERTY CbiClearsOneBit
