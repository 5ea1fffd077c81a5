SPECIFICATION Spec
CONSTANTS
  b1 = b1
  b2 = b2
  b3 = b3
  Buffers <- MCBuffers
  Sizes <- MCSizes
  PageSize = 4096
  HeapBytes = 16000
INVARIANTS
  HeapIsSound
  NoForeignSurface
  BusyChunksOwned
PROPERTIES
  BestFitOrRefusal
  PoolSpec
CHECK_DEADLOCK FALSE
