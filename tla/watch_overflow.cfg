SPECIFICATION Spec
CONSTANTS
  Paths <- Tree
  FileNames <- Files
  MaxInodes = 6
  MaxWatches = 6
  MaxWd = 9
  MaxOps = 3
  Hurry = {"again", "moves", "overflow"}
INVARIANTS
  Announced
CHECK_DEADLOCK FALSE
