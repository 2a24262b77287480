SPECIFICATION Spec
CONSTANTS
  None = None
  MaxAttempts = 2
  MaxChoices = 1
  MaxEvents = 0
INVARIANTS
  IntentKept
CHECK_DEADLOCK FALSE
