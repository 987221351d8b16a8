CONSTANTS
    MaxPages = 9
    Requests = {1, 2, 3, 4, 8, 9, 10}
SPECIFICATION Spec
INVARIANTS FirstFit
CHECK_DEADLOCK FALSE
