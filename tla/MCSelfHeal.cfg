SPECIFICATION Spec
CONSTANTS
  Resources = {r1}
  Runners = {p1, p2}
  NoOne = NoOne
  Limit = 2
  Window = 2
  Slack = 1
  MaxClock = 2
  MaxSteps = 1
  MaxFaults = 2
INVARIANTS
  TypeOK
  RestartsLimited
  RestartsRemembered
