SPECIFICATION Spec
CONSTANTS
  Policies = {"preserve", "newer-wins", "manual"}
  SyncPolicy = "union"
  RetryMax = 2
  UserOps = {"write"}
  Writers = {"A"}
  MaxClock = 3
  Pace = "racing"
  EchoNew <- ClaimedNew
  EchoUpdate <- ClaimedUpdate
  Expiry = FALSE
  FaultKinds = {"crash", "overflow"}
  MaxFaults = 1
INVARIANTS
  Converged
  BaselineTrue
