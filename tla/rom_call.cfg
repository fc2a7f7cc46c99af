SPECIFICATION HostSpec
CONSTANTS
  FlashWords = 16
  SramSize = 6
  MaxSteps = 15
  IoPorts <- OnePort
  Words <- RomCallWords
  Programs <- RomCallPrograms
PROPERTY HostCallReportsIndex
