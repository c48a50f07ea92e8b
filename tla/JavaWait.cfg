SPECIFICATION FairSpec
CONSTANTS
  r1 = r1
  r2 = r2
  Results <- MCResults
  ResultIds <- MCResultIds
  BucketSize = 1
  Parallelism = 2
  MaxFaults = 1
INVARIANTS NoLostWakeup OneStreamAtATime NothingMissed
PROPERTIES Terminates ImplementsResultWait
CHECK_DEADLOCK FALSE
