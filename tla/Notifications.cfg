SPECIFICATION Spec
CONSTANTS
  MaxRows = 3
  Limit = 2
INVARIANTS TypeOK ShownOnce SkippedOnlyByLimit
PROPERTIES OldIsNotShown NewIsShown
