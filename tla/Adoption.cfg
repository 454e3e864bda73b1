SPECIFICATION MCSpec
CONSTANTS
    Absent = Absent
    AreaAt <- MCAreaAt
    LaneOf <- MCLaneOf
    AreaPage <- MCAreaPage
    SignalsLabel <- MCSignalsLabel
    MinimumSubtasks = 1
    MinimumSections = 1
    Likeness <- MCLikeness
    Same = 3
    Snapshot <- MCSnapshot
    Known <- MCKnown
    Roles = {"objectives_db", "takeaways_db"}
    RitualTasks <- MCRitualTasks
    CalendarPeriods <- MCPeriods
    MaxEntities = 5
    MaxAsked = 1
    LastDay = 2
    MaxScans = 1
    MaxAnswers = 2
    MaxEdits = 1
INVARIANTS
    RitualHonoursItsLink
PROPERTIES
    IgnoresWhatWasShown
    ProposalIsTheOnlyOne
    TakeawaysAreKept
CHECK_DEADLOCK FALSE
