SPECIFICATION FairSpec
CONSTANTS
    TER_NUM = 3
    RTC_FREQ_MAX = 32
    RTC_FREQ_MIN = 2
    TICK_MAX = 3
    SLICE_MIN = 2
    SLICE_MAX = 3
    Readers = {0, 1}
    Requests = {1, 3, 4, 8, 32, 64}
INVARIANTS
    TypeOK
    OneReadPerTick
PROPERTY
    ReadReturns
