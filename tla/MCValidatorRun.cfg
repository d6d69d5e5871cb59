SPECIFICATION Spec
CONSTANTS
  Indexes <- MCIndexes
  Requests <- MCRequests
  MaxPersonas = 3
  KLow = 1
  KHigh = 3
  KDefault = 2
  ScanCap = 3
  Page = 1
  Modes <- MCModes
  Answers <- MCAnswers
  MockScores <- MCMockScores
  Retries = 1
  MinPerBucket = 1
  BatchSize = 2
  MaxItems = 3
INVARIANTS TypeOK RetrievedAsAsked Balanced DistrictIsFound EveryPersonaCounted WinnerIsDefensible QuotesAreTheStrongest ReportIsOfThisRun
PROPERTY RunEnds
