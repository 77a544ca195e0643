CONSTANTS
    t1 = t1
    t2 = t2
    qa = qa
    qb = qb
    Threads <- MCThreads
    Queries <- MCQueries
    Calls = 2
    NoThread = NoThread
    Empty = Empty
SPECIFICATION Spec
INVARIANT
    NoMapRace
CHECK_DEADLOCK FALSE
