SPECIFICATION Spec
CONSTANTS
  Policies = {"preserve"}
  SyncPolicy = "union"
  RetryMax = 2
  UserOps = {"write"}
  Writers = {"A", "B"}
  MaxClock = 3
  Pace = "stepwise"
  EchoNew <- RsyncNew
  EchoUpdate <- RsyncUpdate
  Expiry = FALSE
  FaultKinds = {}
  MaxFaults = 0
INVARIANTS
  Converged
