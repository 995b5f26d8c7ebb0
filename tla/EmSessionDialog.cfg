SPECIFICATION FairSpec
CONSTANTS
  MaxHolds = 2
  MaxNest = 2
  MaxDebugger = 2
  MaxExternal = 1
  StopMethods = {"kStopNow", "kStopOnSysCall"}
  DeviceEvents = {"reset", "breakpoint", "error", "signal"}
  UIEvents = {"reset"}
INVARIANTS BlockedAsserts
PROPERTIES DialogEnds
