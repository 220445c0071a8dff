SPECIFICATION FairSpec
CONSTANTS
  Goals = {g1, g2}
  Nobody = Nobody
  KindsSent = {"pose", "lift", "check"}
INVARIANTS
  SimulationResumes
  ScopesRestored
  FullBudget
PROPERTIES
  ImplementsArmService
  PayloadFixedInMotion
  EveryGoalEnds
