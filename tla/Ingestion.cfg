SPECIFICATION Spec
CONSTANTS
    Symbols = {1, 2}
    Universe = {2}
    LastDay = 3
    FirstDay = 1
    FallbackDays = 0
    BatchSize = 1
    Runs = {r1, r2}
    MaxFaults = 1
    MaxEdits = 2
INVARIANTS
    TypeOK
    NoBarGaps
    DeepTechnicals
PROPERTY
    CatchesUp
CHECK_DEADLOCK FALSE
