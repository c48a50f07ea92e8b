SPECIFICATION Spec
CONSTANT MaxSet = 1
INVARIANT ConnectTimeoutIsOptional
CHECK_DEADLOCK FALSE
