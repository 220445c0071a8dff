SPECIFICATION FairSpec
CONSTANTS
  Goals = {g1, g2}
  Nobody = Nobody
  Topics = {left}
  MaxCandidates = 2
  MaxScene = 2
INVARIANTS
  PhysicsRunsAgain
PROPERTIES
  CloudsAreNew
  ChecksMakeWay
  EveryGoalEnds
CHECK_DEADLOCK FALSE
