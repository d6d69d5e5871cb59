SPECIFICATION Spec
CONSTANTS
  Jobs = {j1, j2}
  Workers = {w1, w2}
  Readers = {}
  MaxRows = 1
  MaxTasks = 2
  NoJob = NoJob
INVARIANTS VerdictInv
PROPERTY ImplementsTaskQueue
CHECK_DEADLOCK FALSE
