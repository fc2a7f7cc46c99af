SPECIFICATION FairHostSpec
CONSTANTS
  FlashWords = 11
  SramSize = 2
  MaxSteps = 1100
  IoPorts <- NoPorts
  Words <- ArithmeticWords
  Programs <- ArithmeticPrograms
INVARIANTS WideSum WideCompare WideUnary WideProduct CountsExactly
PROPERTY Terminates
