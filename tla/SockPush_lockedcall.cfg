SPECIFICATION FairSpec
CONSTANT MaxLines = 2
PROPERTY LockedCallReturns
CHECK_DEADLOCK FALSE
