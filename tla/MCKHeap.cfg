CONSTANTS
  Start = 8
  HeapSize = 160
  BLOCK_HEADER_SIZE = 24
  WORD = 1024
  Requests = {0, 1, 17, 512, 1020}
SPECIFICATION Spec
INVARIANTS Tiled Coalesced
PROPERTIES FailsOnlyWhenFull ImplementsHeap
