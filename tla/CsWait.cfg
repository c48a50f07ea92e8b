SPECIFICATION FairSpec
CONSTANTS
  r1 = r1
  r2 = r2
  Results <- MCResults
  ResultIds <- MCResultIds
  BucketSize = 2
  Parallelism = 2
  RetryLimit = 1
  MaxFaults = 2
INVARIANTS
  AbortReportConsistent
  RetriesExhausted
  NothingMissed
PROPERTIES
  CancelEnds
  ImplementsResultWait
  Terminates
CHECK_DEADLOCK FALSE
