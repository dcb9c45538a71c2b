SPECIFICATION DaySpec
CONSTANTS
    LastDay = 1
    Weekdays = {1, 4, 5}
    Sessions = {1, 4, 5}
    Schedule <- MCSchedule
    Rth = {1, 2, 3}
    Closed = {4, 5, 6, 7}
    UtcTomorrow = {4, 5, 6, 7}
    Symbols = {s1}
    MaxAgeDays = 4
    Threads = {t1, t2}
    MaxManual = 0
    MaxFaults = 0
PROPERTY BarsInPlace
CHECK_DEADLOCK FALSE
