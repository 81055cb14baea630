CONSTANTS
  HEAP_ADDRESS = 4
  HEAP_SIZE_BYTES = 12
  HEAP_BLOCK_SIZE = 2
  WORD = 16
  Sizes <- MCSizes
SPECIFICATION Spec
INVARIANTS TypeOK NoOverlap TableExact ChainsExact LoopsExact
