CONSTANTS
  PAGING_PAGE_SIZE = 2
  WORD = 32
  ENTRIES = 4
  TABLES = 4
  HeapPages = {7, 8, 9, 10, 11, 12, 13}
  t1 = t1
  t2 = t2
  Tasks <- MCTasks
  Programs <- MCPrograms
  PROGRAM_VIRTUAL_ADDRESS = 8
  STACK_VIRTUAL_END = 2
  STACK_SIZE = 2
  None = None
SYMMETRY MCSymmetry
SPECIFICATION Spec
INVARIANTS TypeOK WritesOwnOnly CopyRestores SegmentsInPlace ElfRange
\* With the heap full, loading and copying return -ENOMEM and change nothing here.
CHECK_DEADLOCK FALSE
