SPECIFICATION FairSpec
CONSTANTS
  Updaters = {u1, u2}
  NoOne = NoOne
  Files = {1, 2, 3}
  InitFile = 2
  Releases = {1, 2, 3}
  FilesOf <- PackageFiles
  First = 1
  Nothing <- NoRelease
  Services = {1, 2}
INVARIANTS
  TypeOK
  Undoable
PROPERTIES
  ImplementsSwitch
  UpdateEnds
