SPECIFICATION FairSpec
CONSTANTS
  WritePeriod = 2
  Safety = 0
  CameraPeriod = 2
  MaxCameraLag = 2
  MaxTime = 3
PROPERTY ClockStarts
CHECK_DEADLOCK FALSE
