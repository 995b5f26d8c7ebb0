SPECIFICATION FairSpec
CONSTANTS
  MaxEvents = 5
  kMaxRange = 2
  MaxErrors = 2
  NestedLocks = TRUE
  Devices = {{}, {"polls"}, {"erratic", "burst", "polls"}, {"erratic", "sleeps", "resets"}}
CHECK_DEADLOCK FALSE
INVARIANTS TypeOK LevelsCover StillFails Minimal PenUpsFollowDowns
PROPERTIES Ends
