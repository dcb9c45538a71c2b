SPECIFICATION Spec
CONSTANTS
    Bots = {b1, b2}
    MaxUpdates = 2
    MaxAlerts = 1
    MaxFailures = 2
    MaxFaults = 2
    MaxRestarts = 1
INVARIANTS
    TypeOK
    NoneSkipped
    LastCommandWins
PROPERTY
    Drained
CHECK_DEADLOCK FALSE
