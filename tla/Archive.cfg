SPECIFICATION Spec
CONSTANTS
  Devs = {"d1", "d2"}
  LongIds = {}
  Files = {"id", "s", "h"}
  Structs = {"id", "s"}
  IdFile = "id"
  Paths = {"p1", "p2"}
  Values = {"v1"}
  MaxOps = 4
  Images <- MCImages
INVARIANT TypeOK
PROPERTY RoundTrip
CHECK_DEADLOCK FALSE
