SPECIFICATION DaySpec
CONSTANTS
    LastDay = 3
    Weekdays = {1, 2}
    Sessions = {1, 2}
    Schedule <- MCSchedule
    Rth = {1, 2, 3}
    Closed = {4, 5, 6, 7}
    UtcTomorrow = {4, 5, 6, 7}
    Symbols = {s1}
    MaxAgeDays = 4
    Threads = {t1, t2}
    MaxManual = 1
    MaxFaults = 1
INVARIANT DayTypeOK
PROPERTIES AlertOnce ScreenedOnClose
CHECK_DEADLOCK FALSE
