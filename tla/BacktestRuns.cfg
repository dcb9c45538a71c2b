\* Three runs on two rowids, so that tasks contend for the lock and an id comes back;
\* windows of up to two days, so that a run can fail between its days.
CONSTANTS
    RunId = {1, 2}
    Tasks = {1, 2, 3}
    Days = {1, 2}
    Windows = {{}, {1, 2}}
    MaxCrashes = 1
    None = None
SPECIFICATION Spec
INVARIANTS
    TypeOK
    AllOrNothing
    ResultsMatchStatus
PROPERTIES
    TaskEnds
CHECK_DEADLOCK FALSE
