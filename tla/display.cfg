SPECIFICATION OrderlySpec
CONSTANTS
    TER_NUM = 2
    KEYBOARD_BUFFER_SIZE = 3
    NUM_COLS = 2
    NUM_ROWS = 2
    Char = {a, b}
    SPACE = sp
    NL = nl
    Drawing = {1}
    PRINT_MAX = 3
INVARIANTS OnScreen TypeOK LineVisible
PROPERTY ImplementsTerminals
CHECK_DEADLOCK FALSE
