SPECIFICATION CallSpec
CONSTANTS
    Procs = {p, q}
    MAX_FILE = 4
    BLOCK_SIZE = 2
    DIR_IDX_MAX = 4
    dentry_addr <- MCDentries
    inode <- MCInodes
    data_block <- MCBlocks
    Byte = {"a", "b", "x", "E", "L", "F"}
    DIR <- MCDir
    Sizes = {3, 4}
    NAME_LEN = 2
    ARG_BUF_SIZE = 6
    INODE_NUM = 5
    ELF <- MCElf
    NUL = NUL
    SPACE = SPACE
    NL = NL
    WORD = 256
    BUFSIZE = 3
    MEMORY = 9
    LINE_MAX = 5
    TEXT_MAX = 7
    Letter = {"a", "b", "."}
    Stacks <- MCStacks
    CODES_MAX = 5
    FRAME_MAX = 3
    SLOTS = 3
    NEST_MAX = 3
    SCREEN = 4
    Blinkers <- MCBlinkers
INVARIANTS
    TypeOK
    ListingUndisturbed
    ReadsFromStart
    MemoryCopied
    NumbersPrinted
    CommandsUnderstood
    GrepPrintsLines
    KeysMean
    BlinkersKept
    BlinkersShown
    FramesBlink
    InterruptsHeard
PROPERTIES
    DescriptorKept
    OpenReturns
