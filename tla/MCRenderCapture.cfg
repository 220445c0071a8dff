SPECIFICATION RenderSpec
CONSTANTS
  FramePeriod = 2
  LastSeconds = {0, 2}
  MaxFrames = {0, 1}
  MaxRows = 3
  MaxTime = 4
INVARIANTS
  RenderTypeOK
  FramesLatest
  IntervalCovered
  RefusedForCause
  CleanedUp
CHECK_DEADLOCK FALSE
