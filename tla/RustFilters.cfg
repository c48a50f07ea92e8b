SPECIFICATION Spec
CONSTANTS
  MaxHops = 2
CHECK_DEADLOCK FALSE
INVARIANT FilterSentAsMeant
