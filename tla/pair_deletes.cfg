SPECIFICATION Spec
CONSTANTS
  Policies = {"preserve"}
  SyncPolicy = "union"
  RetryMax = 2
  UserOps = {"write", "delete", "touch"}
  Writers = {"A"}
  MaxClock = 4
  Pace = "apart"
  EchoNew <- ExactNew
  EchoUpdate <- ExactUpdate
  Expiry = FALSE
  FaultKinds = {}
  MaxFaults = 0
INVARIANTS
  Converged
PROPERTIES
  NoSilentLoss
