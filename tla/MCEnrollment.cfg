SPECIFICATION Spec
CONSTANTS
  Invites = {e1, e2}
  Names = {n1, n2}
  Groups = {g1}
  Handlers = {h1, h2}
  Inviters = {i1}
  Admins = {a1}
  NoOne = NoOne
  None = None
  TTLs = {1}
  Retention = 0
  LastHost = 4
  MaxClock = 1
  MaxArrivals = 2
  MaxCrashes = 1
  MaxEdits = 1
INVARIANTS
  TypeOK
  OneGrant
  AddressesUnique
  MembersRegistered
  NoOrphanDevice
PROPERTIES
  TerminalIsFinal
  ImplementsLedger
SYMMETRY Symm
