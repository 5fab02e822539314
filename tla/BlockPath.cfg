SPECIFICATION Spec
CONSTANTS
  Files <- MCFiles
  BlockSize = 5
  SymbolSize = 2
  RepairNum = 1
  RepairDen = 1
  FieldLimit = 255
  KeyBlock = 2
  TagSize = 1
  Keystream <- MCKeystream
  Tag <- MCTag
INVARIANT TypeOK
INVARIANT AnyKIfExact
INVARIANT EliminationSound
PROPERTY DeliverySpec
INVARIANT FileRestored
CHECK_DEADLOCK FALSE
