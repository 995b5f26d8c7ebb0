SPECIFICATION Spec
CONSTANTS
  MaxSockets = 3
  MaxHangUps = 1
  Faults = {"cutFooter"}
INVARIANT WaitersForgotten
CHECK_DEADLOCK FALSE
