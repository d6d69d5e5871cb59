SPECIFICATION Spec
CONSTANTS
  Jobs = {j1}
  Workers = {w1, w2}
  Readers = {}
  MaxRows = 2
  MaxTasks = 2
  NoJob = NoJob
INVARIANT DeletedStaysDeleted
CHECK_DEADLOCK FALSE
