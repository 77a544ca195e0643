CONSTANTS
    CPS = 3
    Modes = {"SINGLE", "MULTIPLE"}
    Chunks <- MCChunks
    Queries <- MCQueries
    Readers = {r1}
    MaxTime = 4
SPECIFICATION Spec
INVARIANTS
    TypeOK
    AcceptedChunksIntact
    BodiesInRegion
    HeaderCoversIndex
    ReaderCountExact
    HandsOutOnce
