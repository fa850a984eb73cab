CONSTANTS
  MaxAddr = 3
  Sizes = {1, 3}
  Ranges <- MCRanges
  MaxWrites = 3
  MaxOps = 2
  MaxLayers = 2
  Writable = TRUE
  ReallocNull = TRUE
  NoItv = NoItv
  Freed = Freed
SPECIFICATION CarefulSpec
INVARIANTS TypeOK TreeSound
PROPERTIES UndoRestores ImplementsLayers InvalidationsExact
CHECK_DEADLOCK FALSE
