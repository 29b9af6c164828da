SPECIFICATION Spec
CONSTANTS
    MAX_PROCESS = 4
    TER_NUM = 3
    PIT_MAX = 3
    UINT_MAX = 15
    NULL = NULL
INVARIANT
    ChildSharesTerminal
CHECK_DEADLOCK FALSE
