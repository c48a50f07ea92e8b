SPECIFICATION Spec
CONSTANTS
  MaxHops = 2
INVARIANT SentAsMeantOtherwise
INVARIANT Echo
INVARIANT RelayFaithful
CHECK_DEADLOCK FALSE
