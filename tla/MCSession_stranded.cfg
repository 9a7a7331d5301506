CONSTANT MaxQueue = 3
SPECIFICATION Spec
INVARIANT NeverStranded
CHECK_DEADLOCK FALSE
