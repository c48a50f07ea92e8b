SPECIFICATION Spec
CONSTANT MaxSet = 1
INVARIANT UnsafeOnlyIfAllowed
CHECK_DEADLOCK FALSE
