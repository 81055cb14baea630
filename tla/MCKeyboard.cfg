CONSTANTS
  Processes = {"p1", "p2"}
  Chars = {"a", "b"}
  NUL = "nul"
  BUFFER_SIZE = 3
  COUNTER = 6
  ScanSet <- MCScanSet
  SCAN_SIZE = 3
  KEY_RELEASED = 5
SPECIFICATION Spec
INVARIANTS TypeOK SlotsExact
PROPERTIES ImplementsFifo KeysAreRead
