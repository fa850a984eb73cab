CONSTANTS
  MaxAddr = 4
  Sizes = {1, 4}
  Ranges = {}
  MaxWrites = 3
  MaxOps = 0
  MaxLayers = 1
  Writable = TRUE
  ReallocNull = TRUE
  NoItv = NoItv
  Freed = Freed
SPECIFICATION WriteSpec
PROPERTY WriteShows
CHECK_DEADLOCK FALSE
