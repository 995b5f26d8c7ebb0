SPECIFICATION Spec
CONSTANTS
  MaxEvents = 4
  kMaxRange = 2
  MaxErrors = 2
  NestedLocks = FALSE
  Devices = {{}}
CHECK_DEADLOCK FALSE
INVARIANTS LocksFree
