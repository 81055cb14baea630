CONSTANTS
  SECTOR_SIZE = 2
  Streams <- MCStreams
  Disks <- MCDisks
  Digits <- MCDigits
  MAX_PATH = 8
  Items <- MCItems
  Stray = {3, 10}
  NUL = "NUL"
  SPACE = " "
  DELETED = "e5"
  DIRECTORY = "dir"
  LowerCase <- MCLowerCase
  Paths <- MCPaths
  Modes = {"r", "w"}
  Sizes = {1, 4, 5}
  Counts = {1, 2}
SPECIFICATION Fat16Spec
INVARIANTS TypeOK FlatRead PathParsed OpensNamed ReadsTheFile
PROPERTY CallsReturn
