SPECIFICATION Spec
CONSTANTS
  MaxSockets = 3
  MaxHangUps = 1
  Faults = {"acceptFails", "openFails", "hangUp", "cutFooter", "cutInside", "notStopped", "exception"}
INVARIANTS TypeOK AnsweredOnce WaitersConnected OneListener SuspendedForScript
PROPERTIES Answered DeviceResumes
CHECK_DEADLOCK FALSE
