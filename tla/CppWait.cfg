SPECIFICATION FairSpec
CONSTANTS
  Results = {r1, r2, r3}
  Awaited = {r1, r2}
  MayEnd = TRUE
INVARIANTS EarlyReturnNeedsBreak NothingMissed
PROPERTY Terminates
CHECK_DEADLOCK FALSE
