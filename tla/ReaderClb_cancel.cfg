CONSTANTS
    N = 4
SPECIFICATION Spec
CHECK_DEADLOCK FALSE
INVARIANT
    CancelBounded
