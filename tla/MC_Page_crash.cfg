CONSTANTS
    CPS = 3
    Modes = {"MULTIPLE"}
    Chunks <- MCChunks
    Queries <- MCQueries
    Readers = {r1}
    MaxTime = 4
SPECIFICATION SpecCrash
INVARIANT
    BodiesInRegion
