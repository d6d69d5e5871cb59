SPECIFICATION Spec
CONSTANTS
  Jobs = {j1}
  Workers = {w1, w2}
  Readers = {r1}
  MaxRows = 2
  MaxTasks = 2
  NoJob = NoJob
SYMMETRY Symmetry
INVARIANTS ExclusiveClaim RowsMatchTasks FinalizerSeesAll VerdictFitsTasks
PROPERTIES VerdictIsFinal ImplementsJobLife
CHECK_DEADLOCK FALSE
