SPECIFICATION Spec
CONSTANTS
  MaxOut = 2
  MaxIn = 1
  MaxChunk = 1
  MaxFails = 1
CHECK_DEADLOCK FALSE
INVARIANTS NoEmbrace
