SPECIFICATION Spec
CONSTANTS
    Null = Null
    Symbols = {1, 2}
    Universe = {2}
    MaxId = 2
    Runs = {r1, r2}
    Clients = {d1, d2}
    MaxEdits = 2
    MaxRuns = 2
    MaxFaults = 1
    Profile <- MCProfile
    Readings <- MCReadings
    Bodies <- MCBodies
INVARIANTS TypeOK BestOfSector NoStrayResults PassedOnData
SYMMETRY ClientSymmetry
CHECK_DEADLOCK FALSE
