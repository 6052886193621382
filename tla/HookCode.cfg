SPECIFICATION Spec
INVARIANT RegisterJumpReaches
CHECK_DEADLOCK FALSE
