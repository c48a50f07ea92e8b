SPECIFICATION Spec
CONSTANT MaxSet = 1
INVARIANT ValidHostIsServerName
CHECK_DEADLOCK FALSE
