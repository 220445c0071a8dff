SPECIFICATION Spec
CONSTANTS
  MaxBetween = 2
  MaxSpeed = 4
  MaxSteps = 6
INVARIANTS
  StaysPut
  OneLateWrite
CHECK_DEADLOCK FALSE
