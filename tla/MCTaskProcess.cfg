CONSTANTS
  p1 = p1
  p2 = p2
  p3 = p3
  p4 = p4
  t1 = t1
  t2 = t2
  t3 = t3
  t4 = t4
  NULL = NULL
  ProcessIds <- MCProcessIds
  TaskIds <- MCTaskIds
  MAX_PROCESSES = 3
  EISTKN = 2
SYMMETRY MCSymmetry
SPECIFICATION Spec
INVARIANTS TypeOK ListWellFormed TasksMatchProcesses
PROPERTY FailedLoadRollsBack
CHECK_DEADLOCK FALSE
