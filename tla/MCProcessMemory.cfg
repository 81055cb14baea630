CONSTANTS
  HEAP_ADDRESS = 4
  HEAP_SIZE_BYTES = 8
  HEAP_BLOCK_SIZE = 2
  WORD = 16
  p1 = p1
  p2 = p2
  Processes <- MCProcesses
  MAX_PROGRAM_ALLOCATIONS = 2
  Sizes <- MCSizes
  UserSizes <- MCUserSizes
  KernelSizes <- MCKernelSizes
  Pointers <- MCPointers
SYMMETRY MCSymmetry
SPECIFICATION MemorySpec
INVARIANTS MemoryTypeOK HoldersDisjoint SlotsMatchHoldings
PROPERTIES FreesOnlyOwn HeapUsedProperly
