SPECIFICATION FairSpec
CONSTANT MaxLines = 3
INVARIANTS TypeOK NoTornRead HandoverHolds Inv
PROPERTIES
    ImplementsMailbox ReturnsNewest
    ReadReturns LaterReadFreesThread CloseReturnsUnlessMutexLost
CHECK_DEADLOCK FALSE
