SPECIFICATION Spec
CONSTANTS
    Clis = {c1, c2}
    Daemon = daemon
    Wants = {"a", "b", "both"}
    Starts <- Mixed
    UsersWait = TRUE
    MaxClock = 3
    MaxBeside = 2
    MaxFaults = 1
INVARIANTS TypeOK Stands
PROPERTIES NothingLost Answered
