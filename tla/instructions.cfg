SPECIFICATION HostSpec
CONSTANTS
  FlashWords = 16
  SramSize = 6
  MaxSteps = 15
  IoPorts <- OnePort
  Words <- CoverWords
  Programs <- CoverPrograms
INVARIANT HostTypeOK
PROPERTY ImplementsISA
