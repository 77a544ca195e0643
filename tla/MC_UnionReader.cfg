CONSTANTS
    Queries <- MCQueries
SPECIFICATION Spec
\* every read finishes (or its handle crashes): the readers are then idle
CHECK_DEADLOCK FALSE
INVARIANTS
    TypeOK
    ReadAllDelivers
PROPERTIES
    ReadAllEnds
