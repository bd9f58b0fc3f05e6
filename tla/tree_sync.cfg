SPECIFICATION Spec
CONSTANTS
  Dirs = {d, e}
  NoDir = NoDir
  Names = {x}
  UserOps = {"write", "delete", "mkdir", "rmtree", "rename"}
  MaxVersion = 3
  MaxOps = 5
  MaxCrashes = 1
  Hurry = {}
INVARIANTS
  TypeOK
  NothingLost
  Converged
  StaysDead
PROPERTIES
  Settles
CHECK_DEADLOCK FALSE
