SPECIFICATION FairSpec
CONSTANTS
  Devices = {d1}
  Sessions = {s1}
  Addresses = {a1, a2}
  Threads = {t1}
  Monitors = {m1}
  Syncers = {x1}
  None = None
  Main = Main
  MaxSessions = 2
  Idle = 1
  Waiting = 2
  Lifetime = 3
  PollAttempts = 1
  MaxClock = 4
  MaxAsks = 1
  MaxUpsets = 2
PROPERTIES
  ImplementsRendezvous
  ExpiredIsReclaimed
