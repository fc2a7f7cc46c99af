SPECIFICATION GenSpec
CONSTANTS
  Width = 5
  MaxEdits = 1
  MaxCrashes = 1
  ByteValues = 4
  OpLists <- SmallLists
INVARIANTS LookupIsFirstMatch SharedSafely RightUnlessStale
PROPERTY Heals
