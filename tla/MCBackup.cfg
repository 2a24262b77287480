SPECIFICATION Spec
CONSTANTS
  Workers = {w1, w2}
  Resources = {r1}
  NoFile = NoFile
  Keep = 1
  Day = 2
  MaxTime = 1
  MaxOps = 3
  MaxEdits = 1
SYMMETRY Symm
INVARIANTS
  TypeOK
  RestoredWhole
  Recoverable
  RetentionKept
  DailyOnce
CHECK_DEADLOCK FALSE
