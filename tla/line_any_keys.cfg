SPECIFICATION Spec
CONSTANTS
    TER_NUM = 1
    KEYBOARD_BUFFER_SIZE = 4
    CURSOR_MAX = 6
    Char = {a}
    SPACE = SPACE
    NL = NL
    NUL = NUL
    Readers = {0}
    Lengths = {0, 2, 9}
INVARIANTS
    TypeOK
    ReadNeedsEnter
