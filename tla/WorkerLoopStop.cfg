SPECIFICATION Spec
CONSTANTS
  Widths = {2}
  MaxWidth = 2
  MaxJobs = 2
  MaxTasks = 3
  MaxLegacy = 2
  MaxFaults = 0
PROPERTY StopBeginsNoJob
CHECK_DEADLOCK FALSE
