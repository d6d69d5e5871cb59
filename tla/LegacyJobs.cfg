SPECIFICATION Spec
CONSTANTS
  MaxJobs = 2
  Procs = {p1, p2}
  NoJob = NoJob
  MaxFaults = 1
INVARIANTS TypeOK RunsOnce AnnouncementIsTrue
PROPERTIES JobsSettle ImplementsTaskQueue
CHECK_DEADLOCK FALSE
