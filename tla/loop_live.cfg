SPECIFICATION Spec
CONSTANTS
  NoEvent = NoEvent
  Paths <- TwoPaths
  Workers = {"w1", "w2"}
  Partition <- OnePerPath
  Moves = FALSE
  QueueCap = 1
  FailedCap = 2
  RetryMax = 2
  ResyncFails = FALSE
  FatalExit = TRUE
  MaxEvents = 2
  MaxFailures = 3
  MaxRequests = 0
INVARIANTS
  NothingForgotten
PROPERTIES
  CancelReturns
  FatalReturns
  EventuallyApplied
