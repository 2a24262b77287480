SPECIFICATION FairSpec
CONSTANTS
  None = None
  MaxAttempts = 2
  MaxChoices = 2
  MaxEvents = 1
INVARIANTS
  TypeOK
  DisconnectHolds
  WantedIsServed
PROPERTIES
  DisconnectEnds
CHECK_DEADLOCK FALSE
