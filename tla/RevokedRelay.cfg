SPECIFICATION Spec
CONSTANTS
  Devices = {d1}
  Sessions = {s1}
  Addresses = {a1}
  Threads = {t1}
  Monitors = {m1}
  Syncers = {x1, x2}
  None = None
  Main = Main
  MaxSessions = 2
  Idle = 1
  Waiting = 2
  Lifetime = 3
  PollAttempts = 1
  MaxClock = 1
  MaxAsks = 2
  MaxUpsets = 1
PROPERTIES
  RevokedStaysOut
