SPECIFICATION MCSpec
CONSTANTS
    OneOffs = {"task"}
    Habits = {"habit"}
    SliceDays = 1
    ReadMargin = 2
    Trailing = 2
    Week = 2
    Period = 3
    Opportunities = 1
    Skew = 2
    LastDay = 4
    MaxMade = 2
    Absent = Absent
    MaxRuns = 2
    MaxFaults = 1
    MaxMaps = 1
INVARIANTS
    StoredOnce
    GapsHaveACause
    RewriteIsWhole
PROPERTY AdherenceMatchesTheList
CHECK_DEADLOCK FALSE
