SPECIFICATION Spec
CONSTANTS
  N = 4
  Cameras = {"left", "back", "front"}
  SeenBy <- MCSeenBy
  Labels = {0, 1}
  MinFood = 2
  MaxShown = 1
  MaxChecked = 2
  MaxGrasps = 2
  MaxGoals = 2
INVARIANTS
  RequestsAgree
  FoodPublishedFirst
PROPERTIES
  GraspsHonest
CHECK_DEADLOCK FALSE
