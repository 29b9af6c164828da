SPECIFICATION FairOrderlySpec
CONSTANTS
    TER_NUM = 2
    KEYBOARD_BUFFER_SIZE = 6
    CURSOR_MAX = 8
    Char = {a}
    SPACE = SPACE
    NL = NL
    NUL = NUL
    Lengths = {0, 3, 9}
    Readers = {0}
INVARIANTS
    LineShape
    WholeLine
PROPERTIES
    KeysStayOnDisplay
    ImplementsLineEditor
    LinesTaken
