SPECIFICATION MCSpec
CONSTANTS
    Calls = {c1, c2}
    Callers = {a1, a2}
    Initiatives = {i1, i2}
    Statuses = {"next", "now"}
    Reviews = {v1}
    Decisions = {d1}
    Takeaways = {t1}
    Keys = {k1, k2}
    Absent = Absent
    Ttl = 1
    LastTick = 1
    MaxSubmitted = 3
SYMMETRY Symmetry
PROPERTIES
    ExecutesWhatWasShown
    ProposalIsExact
    ClosedIsHistory
CHECK_DEADLOCK FALSE
