CONSTANTS
    Keys = {1, 2, 3, 4, 5}
    Limits = {1, 2, 3}

SPECIFICATION Spec
CHECK_DEADLOCK FALSE

INVARIANT StayingRowsShown
INVARIANT ShownOnce
