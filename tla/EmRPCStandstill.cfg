SPECIFICATION Spec
CONSTANTS
  MaxSockets = 3
  MaxHangUps = 1
  Faults = {}
INVARIANT NoStandstill
CHECK_DEADLOCK FALSE
