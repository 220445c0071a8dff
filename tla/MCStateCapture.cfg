SPECIFICATION FairSpec
CONSTANTS
  Capacity = 2
  TimeStep = 2
  Period = 3
  MaxSteps = 3
  MaxResets = 1
INVARIANTS
  ScheduleNear
PROPERTIES
  ImplementsCaptureLog
  CleanupEnds
CHECK_DEADLOCK FALSE
