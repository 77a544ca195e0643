CONSTANTS
    CPS = 3
    Modes = {"SINGLE"}
    Chunks <- MCChunks
    Queries <- MCQueries
    Readers = {r1}
    MaxTime = 4
SPECIFICATION Spec
INVARIANT ChunkMatchesIndex
