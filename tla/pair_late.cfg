SPECIFICATION Spec
CONSTANTS
  Policies = {"preserve"}
  SyncPolicy = "union"
  RetryMax = 2
  UserOps = {"write"}
  Writers = {"A", "B"}
  MaxClock = 2
  Pace = "apart"
  EchoNew <- RsyncNew
  EchoUpdate <- RsyncUpdate
  Expiry = TRUE
  FaultKinds = {"io"}
  MaxFaults = 1
INVARIANTS
  Converged
PROPERTIES
  NoSilentLoss
  Settles
