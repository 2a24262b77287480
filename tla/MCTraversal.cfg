SPECIFICATION FairSpec
CONSTANTS
  Devices = {d1}
  Sessions = {s1, s2}
  Addresses = {x}
  NoAddress = NoAddress
  Ttl = 2
  Window = 2
  Limit = 1
  Punches = 1
  MaxTime = 3
INVARIANTS
  TypeOK
  SuccessIsFresh
  NoProbeLeft
PROPERTIES
  AttemptsEnd
