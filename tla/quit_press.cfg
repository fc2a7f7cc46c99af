SPECIFICATION FairHelloSpec
CONSTANTS
  FlashWords = 11
  SramSize = 2
  IoPorts <- KeyPort
  Words <- SilentWords
  Programs <- SilentScripts
  Keys <- QAndX
PROPERTY QuitsOnPress
