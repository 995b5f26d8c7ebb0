SPECIFICATION Spec
CONSTANTS
  MaxHolds = 2
  MaxNest = 2
  MaxDebugger = 2
  MaxExternal = 1
  StopMethods = {"kStopOnSysCall"}
  DeviceEvents = {"sysCall", "nestedError"}
  UIEvents = {"romCall"}
INVARIANTS NestLevelCounts
