CONSTANTS
    Writers = {"w1", "w2"}
    Input <- MCInput
    TimePoints = {1, 2, 3}
    MIN_TIME = 0
    MAX_TIME = 4
    NO_DATA = NO_DATA
SPECIFICATION Spec
INVARIANTS
    TypeOK
