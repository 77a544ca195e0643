CONSTANTS
    Args <- MCArgs
    Words <- MCWords
SPECIFICATION Spec
\* main() ends: every run stops in "exited"
CHECK_DEADLOCK FALSE
INVARIANTS
    SetStoresNamed
