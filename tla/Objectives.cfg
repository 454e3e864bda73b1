SPECIFICATION MCSpec
CONSTANTS
    Objectives = {1, 2}
    Pages = {a, b}
    Periods = {"early", "late"}
    Unwritten = "unwritten"
    StartsOn <- MCStartsOn
    EndsOn <- MCEndsOn
    JudgeBy <- MCJudgeBy
    Figures = {100}
    DateColumns = {first, second}
    SuccessColumns = {rate, share}
    LastDay = 2
    None = None
    MaxEdits = 2
    MaxFaults = 2
SYMMETRY Names
INVARIANT NextPassSettles
PROPERTIES
    JudgementStands
    ConflictHasACause
CHECK_DEADLOCK FALSE
