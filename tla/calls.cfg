SPECIFICATION TraceSpec
CONSTANTS
  FlashWords = 5
  SramSize = 7
  MaxSteps = 9
  IoPorts <- NoPorts
  Words <- CallWords
  Programs <- CallPrograms
INVARIANT FramesIntact
PROPERTY ReturnsToCaller
