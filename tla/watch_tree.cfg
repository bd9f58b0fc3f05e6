SPECIFICATION Spec
CONSTANTS
  Paths <- Tree
  FileNames <- Files
  MaxInodes = 6
  MaxWatches = 4
  MaxWd = 9
  MaxOps = 4
  Hurry = {"again", "late", "moves", "stop"}
INVARIANTS
  TypeOK
  Registry
  Watched
  Announced

  
CHECK_DEADLOCK FALSE
