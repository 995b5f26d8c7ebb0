SPECIFICATION FairSpec
CONSTANTS
  MaxHolds = 2
  MaxNest = 3
  MaxDebugger = 2
  MaxExternal = 1
  StopMethods = {"kStopNow", "kStopOnSysCall"}
  DeviceEvents = {"romCall", "sysCall", "reset", "breakpoint", "signal"}
  UIEvents = {"romCall", "packet", "reset", "close", "hostResume"}
INVARIANTS TypeOK OneEmulator StateTellsTruth RequestsConserved
PROPERTIES GateSpec StaysSuspended Asserts EverySuspendReturns ResumedRuns CloseEnds
