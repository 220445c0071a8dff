SPECIFICATION FairSpec
CONSTANTS
  WritePeriod = 2
  Safety = 0
  CameraPeriod = 2
  MaxCameraLag = 2
  MaxTime = 4
INVARIANTS
  LeashHolds
  PauseHolds
  CloudsAreFresh
PROPERTIES
  TimePasses
  ProcessEnds
CHECK_DEADLOCK FALSE
