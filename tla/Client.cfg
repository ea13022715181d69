SPECIFICATION Spec
CONSTANTS
  Kinds = {"c", "py"}
  RxSize = 3
  MaxReply = 4
  CReads = 2
  PyReads = 2
  MaxCalls = 3
INVARIANTS TypeOK RepliesBelong
PROPERTY CallsEnd
CHECK_DEADLOCK FALSE
