SPECIFICATION CallSpec
CONSTANTS
  FlashWords = 1
  SramSize = 40
  IoPorts <- NoPorts
  Words <- NoCode
  Programs <- NoPrograms
  Signatures <- MixedSignatures
  ArgumentByte <- DistinctByte
  ReturnValues <- SomeValues
INVARIANT ArgsArrive
PROPERTY ReturnArrives
