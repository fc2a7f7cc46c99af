SPECIFICATION FairHelloSpec
CONSTANTS
  FlashWords = 116
  SramSize = 32
  IoPorts <- KeyPort
  Words <- ScriptWords
  Programs <- OneScript
  Keys <- BothQsAndX
PROPERTIES OutputInOrder QuitsWhenHeld
