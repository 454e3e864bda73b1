SPECIFICATION MCFairSpec
CONSTANTS
  i1 = i1
  i2 = i2
  None = None
  Initiatives = {i1, i2}
  Tasks = {1, 2}
  Homeless = {}
  Unmapped = {2}
  CreateThreshold = 1
  WriteEnabled = TRUE
  MaxEdits = 4
  MaxFaults = 1
INVARIANT MadeIsAnchor CreatesWithinThreshold QuietPassSettles
PROPERTY AdoptedMakesNothing NoStealFromTheRead LinkHonoured ActiveIsAnchored
