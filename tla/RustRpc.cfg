SPECIFICATION Spec
CONSTANTS
  c1 = c1
  c2 = c2
  Calls <- MCCalls
  Scenarios <- MCScenarios
  MaxItems = 2
  MaxLosses = 1
INVARIANT NoSilentTruncation
INVARIANT NothingLost
PROPERTY ImplementsRemoteCall
PROPERTY Answered
CHECK_DEADLOCK FALSE
