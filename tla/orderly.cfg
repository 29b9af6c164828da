SPECIFICATION FairOrderlySpec
CONSTANTS
    MAX_PROCESS = 6
    TER_NUM = 3
    PIT_MAX = 3
    UINT_MAX = 15
    NULL = NULL
INVARIANTS
    NoFault
    PidAccounting
    OneChainPerTerminal
    ChildExists
    LiveDescriptors
    NoBleed
PROPERTIES
    EveryTerminalRuns
    ImplementsJobControl
