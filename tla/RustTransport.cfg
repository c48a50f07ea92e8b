SPECIFICATION Spec
CONSTANT MaxSet = 3
INVARIANT NoPanicInConnect
INVARIANT ConnectedAsConfigured
CHECK_DEADLOCK FALSE
