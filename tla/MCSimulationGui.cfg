SPECIFICATION FairSpec
CONSTANTS
  Commands <- MCCommands
  Updates = {1, 2}
  Steps = {1}
  MaxEvents = 1
  MaxFaults = 1
INVARIANTS
  OneUpdateInFlight
PROPERTIES
  QuietAfterStop
  CommandsHonest
  PanelConverges
  CommandsReported
  ClosingEnds
CHECK_DEADLOCK FALSE
