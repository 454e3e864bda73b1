SPECIFICATION MCSpec
CONSTANTS
  None = None
  Initiatives = {i1, i2}
  Tasks = {1, 2}
  Homeless = {}
  Unmapped = {}
  CreateThreshold = 1
  WriteEnabled = TRUE
  MaxEdits = 5
  MaxFaults = 1
SYMMETRY Rows
INVARIANT OneInitiativePerTask
