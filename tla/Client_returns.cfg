SPECIFICATION Spec
CONSTANTS
  Kinds = {"c", "py"}
  RxSize = 3
  MaxReply = 4
  CReads = 2
  PyReads = 2
  MaxCalls = 3
PROPERTY CallReturns
CHECK_DEADLOCK FALSE
