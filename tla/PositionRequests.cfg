\* Two threads whose requests about one position may or may not overlap; rowids of
\* both tables are reused.
CONSTANTS
    Clients = {c1, c2}
    PosId = {1, 2}
    LegId = {1, 2, 3, 4}
    Overlaps = {TRUE, FALSE}
    MaxOpened = 3
SPECIFICATION RequestsSpec
SYMMETRY ClientSymmetry
INVARIANTS
    RequestsTypeOK
    LegsMatchInTurn
PROPERTIES
    SettledOnce
    FollowsWheel
CHECK_DEADLOCK FALSE
