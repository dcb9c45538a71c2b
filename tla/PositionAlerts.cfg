\* The scheduled run and manual ones, a restart, alerts lost to the lock.  One symbol
\* is in the daily bars and one is not, so passes run with and without the lock.
CONSTANTS
    PosId = {1, 2}
    Rules = {"dte"}
    Passes = {scheduler, manual}
    Quoted = {1}
    MaxCycles = 1
    MaxRuns = 3
    MaxCrashes = 1
    None = None
SPECIFICATION Spec
INVARIANTS
    TypeOK
    OnceUnlessOverlapped
    PaperworkFirst
PROPERTIES
    PassEnds
CHECK_DEADLOCK FALSE
