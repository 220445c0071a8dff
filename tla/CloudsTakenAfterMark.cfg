SPECIFICATION Spec
CONSTANTS
  Goals = {g1}
  Nobody = Nobody
  Topics = {left, back}
  MaxCandidates = 1
  MaxScene = 2
PROPERTIES
  CloudsTakenAfterMark
CHECK_DEADLOCK FALSE
