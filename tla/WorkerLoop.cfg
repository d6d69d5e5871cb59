SPECIFICATION Spec
CONSTANTS
  Widths = {0, 1, 2, 3}
  MaxWidth = 2
  MaxJobs = 2
  MaxTasks = 3
  MaxLegacy = 2
  MaxFaults = 2
INVARIANTS TypeOK DrainsBeforeExit StopBoundsTheWork
PROPERTIES TasksAreTaken LegacyIsRun StopEndsTheWorker
CHECK_DEADLOCK FALSE
