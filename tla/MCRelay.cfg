SPECIFICATION Spec
CONSTANTS
  Devices = {d1, d2}
  Sessions = {s1, s2, s3}
  Addresses = {a1}
  Threads = {t1, t2}
  Monitors = {m1}
  Syncers = {}
  None = None
  Main = Main
  MaxSessions = 2
  Idle = 0
  Waiting = 0
  Lifetime = 1
  PollAttempts = 1
  MaxClock = 1
  MaxAsks = 3
  MaxUpsets = 0
INVARIANTS
  TypeOK
  WithinCapacity
  OneSessionPerDevice
  ActiveNotShadowed
  ToldTheTruth
SYMMETRY Symm
