CONSTANTS
    Names = 2
    Vals = {0, 1}
    MaxLen = 1
SPECIFICATION Spec
INVARIANT NoOverflow
CHECK_DEADLOCK FALSE
