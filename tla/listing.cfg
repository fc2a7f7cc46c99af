SPECIFICATION ListingSpec
CONSTANTS
  FlashWords = 6
  SramSize = 20
  MaxSteps = 10
  IoPorts <- NoPorts
  Words <- UsedWords
  Programs <- ListingPrograms
INVARIANTS OnListedLine SurprisesNoted
PROPERTY GoesWhereListed
