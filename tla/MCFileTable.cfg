CONSTANTS
  d1 = d1
  d2 = d2
  d3 = d3
  x1 = x1
  x2 = x2
  x3 = x3
  x4 = x4
  f1 = f1
  f2 = f2
  NULL = NULL
  Files <- MCFiles
  FileSize <- MCFileSize
  MAX_FILE_DESCRIPTORS = 3
  Descs <- MCDescs
  Privates <- MCPrivates
  MaxPos = 3
SYMMETRY MCSymmetry
SPECIFICATION Spec
INVARIANTS TypeOK NoDanglingDescriptor
PROPERTY ImplementsOpenFiles
