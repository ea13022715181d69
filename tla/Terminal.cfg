SPECIFICATION Spec
CONSTANTS
  HistSize = 4
  Chars = {"a", "b"}
  LineSize = 3
  MaxKeys = 10
  Names <- MCNames
  Scripts <- MCScripts
INVARIANTS TypeOK PromptHoldsMutex OneStaleChar
CHECK_DEADLOCK FALSE
