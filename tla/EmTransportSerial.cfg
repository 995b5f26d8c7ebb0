SPECIFICATION FairSpec
CONSTANTS
  MaxOut = 3
  MaxIn = 2
  MaxChunk = 2
  MaxFails = 1
CHECK_DEADLOCK FALSE
INVARIANTS TypeOK ThreadsWithinPort
PROPERTIES OutgoingSpec IncomingSpec CallsReturn
