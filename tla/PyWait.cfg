SPECIFICATION FairSpec
CONSTANTS
  r1 = r1
  r2 = r2
  Results <- MCResults
  ResultIds <- MCResultIds
  BucketSize = 1
  Parallelism = 2
  MaxErrors = 1
  MaxEnds = 1
INVARIANT NothingMissed
PROPERTIES AbortStopsTheRest ImplementsResultWait Terminates
CHECK_DEADLOCK FALSE
