SPECIFICATION MCFairSpec
CONSTANTS
  None = None
  Scalars <- MCScalars
  Values <- MCValues
  Lowest = "lowest"
  Places <- MCPlaces
  AreaOf <- MCAreaOf
  Claimed = {"near"}
  Children = {"c1"}
  Requests = {"now"}
  MaxEdits = 2
  MaxFaults = 1
INVARIANT ConflictIsAnEdit
PROPERTY EditsAreLogged HandSetKept Converges
