SPECIFICATION Spec
CONSTANTS
  Free = Free
  NoSlot = NoSlot
  Sides = {A}
  Paths = {p, q}
  Kinds = {"CREATE", "DELETE"}
  Moves = TRUE
  OutCap = 1
  MaxPush = 3
  FatalClose = FALSE
INVARIANTS
  TypeOK
  NoSendOnClosed
  NoEventDropped
PROPERTIES
  CloseReturns
  Delivered
  IsMailbox
