SPECIFICATION FairSpec
CONSTANTS
  MaxParking = 4
  RequestNumbers <- MCRequestNumbers
INVARIANTS
  AnswersReachTheirState
  GraspPoseStaysValid
  DrivesUnpinned
  ArmMovesInTrueScene
PROPERTIES
  ReleasedAboveItsHole
  ImplementsFoodService
