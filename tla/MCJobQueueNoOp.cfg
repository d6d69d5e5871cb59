SPECIFICATION Spec
CONSTANTS
  Jobs = {j1}
  Workers = {w1, w2}
  Readers = {}
  MaxRows = 2
  MaxTasks = 2
  NoJob = NoJob
PROPERTY FinalizeIsNoOpWhileUnfinished
CHECK_DEADLOCK FALSE
