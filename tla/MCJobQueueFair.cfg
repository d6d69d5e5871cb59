SPECIFICATION FairSpec
CONSTANTS
  Jobs = {j1}
  Workers = {w1, w2}
  Readers = {}
  MaxRows = 2
  MaxTasks = 2
  NoJob = NoJob
PROPERTIES EveryJobSettles CompletionIsAnnounced
CHECK_DEADLOCK FALSE
