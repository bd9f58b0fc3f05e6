SPECIFICATION Spec
CONSTANTS
  NoEvent = NoEvent
  Paths <- SomePaths
  Workers = {"w1", "w2"}
  Partition <- TwoWorkers
  Moves = TRUE
  QueueCap = 1
  FailedCap = 2
  RetryMax = 2
  ResyncFails = FALSE
  FatalExit = FALSE
  MaxEvents = 3
  MaxFailures = 1
  MaxRequests = 1
INVARIANTS
  TypeOK
  BarrierExclusive
PROPERTIES
  InOrder
