SPECIFICATION ErasingSpec
CONSTANTS
    MAX_PROCESS = 6
    TER_NUM = 3
    PIT_MAX = 3
    UINT_MAX = 15
    NULL = NULL
INVARIANT
    NoBleed
