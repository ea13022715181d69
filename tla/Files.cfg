SPECIFICATION Spec
CONSTANTS
  Devs = {"d1", "d2"}
  Ids = {0, 1}
  Bytes = {0, 1}
  MaxAlloc = 2
  DstMax = 3
  HexMax = 1
  PushMax = 1
  Steps = 3
  Data <- MCData
  Contents <- MCContents
  DbImages <- MCDb
  NodeImages <- MCNode
INVARIANTS TypeOK SyncedIsEqual
PROPERTIES ReadReturnsSlice 
CHECK_DEADLOCK FALSE
