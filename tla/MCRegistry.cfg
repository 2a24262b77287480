SPECIFICATION Spec
CONSTANTS
  Admins = {a1, a2}
  Devices = {d1, d2}
  d1 = d1
  d2 = d2
  n1 = n1
  n2 = n2
  Names = {n1, n2, n3}
  FirstName <- FirstNames
  Resources = {r1}
  Groups = {g1}
  Nil = Nil
  Empty = Empty
  Mixed = Mixed
  MaxOps = 3
  MaxMixed = 2
INVARIANTS
  TypeOK
  ProxyEnforces
  PeersEnforced
  FilesAgree
  OverridesMeant
