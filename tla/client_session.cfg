SPECIFICATION FairSpec
CONSTANTS
  Branches <- MCBranches
  Main <- MCMain
  MaxPackets = 2
  MaxCalls = 2
  MaxOthers = 1
  MaxEvents = 3
INVARIANTS
  ClientTypeOK
  CommittedAsSeen
  EventsInUserOrder
PROPERTIES
  ViewCatchesUp
CHECK_DEADLOCK FALSE
