SPECIFICATION FairSpec
CONSTANTS
    ReadTimeout = 2
    GlobalTimeout = 7
    MaxCalls = 2
    MaxLines = 3
INVARIANTS TypeOK FrameFitsAck SucceedsWhenQuiet WithinTimeout Inv
PROPERTY Terminates
CHECK_DEADLOCK FALSE
