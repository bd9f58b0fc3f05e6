SPECIFICATION Spec
CONSTANTS
  Policies = {"preserve", "newer-wins", "manual"}
  SyncPolicy = "union"
  RetryMax = 2
  UserOps = {"write"}
  Writers = {"A", "B"}
  MaxClock = 3
  Pace = "apart"
  EchoNew <- RsyncNew
  EchoUpdate <- RsyncUpdate
  Expiry = FALSE
  FaultKinds = {"crash", "overflow"}
  MaxFaults = 1
INVARIANTS
  TypeOK
  Converged
  BaselineTrue
  LastWriteWins
PROPERTIES
  NoSilentLoss
