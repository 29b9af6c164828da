SPECIFICATION PlainSpec
CONSTANTS
    TER_NUM = 2
    KEYBOARD_BUFFER_SIZE = 6
    CURSOR_MAX = 8
    Char = {a}
    SPACE = SPACE
    NL = NL
    NUL = NUL
    Readers = {0, 1}
    Lengths = {0, 3, 9}
INVARIANT
    LineEntered
