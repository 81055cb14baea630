CONSTANTS
  Tasks = {"t1", "t2"}
  task_head = "t1"
  Vals = {0, 1}
  Zero = 0
  KernelStack = 2
SPECIFICATION Spec
INVARIANTS TypeOK UserContext KernelContext SavedRegistersCurrent
PROPERTIES RegistersPreserved Acknowledged
