SPECIFICATION MCPageSpec
CONSTANTS
    NoDate = NoDate
    WeekLength = 3
    WorkingWeekdays = {0, 1}
    Holidays = {3}
    SearchDays = 6
    DurationDays <- MCDuration
    Concurrent = 3
    Areas <- MCAreas
    Weights <- MCWeights
    DaysPerYear = 2
    WindowDays = 2
    DefaultMinutes = 2
    ClampMin <- MCClampMin
    ClampMax <- MCClampMax
    OverrideDays = 3
    OverrideValue = 3
    SizeForNow = 2
    MaxNow = 2
    MaxNowPerArea = 1
    Initial <- MCInitial
    Statuses = {"later", "next", "now", "done"}
    Starts = {NoDate, 1, 4}
    Deadlines = {NoDate, 2, 5, 4, 6}
    Projects = {"p"}
    Minutes = {NoDate, 5}
    LastDay = 2
    MaxEdits = 1
    None = None
CHECK_DEADLOCK FALSE
INVARIANT PreviewIsKept
