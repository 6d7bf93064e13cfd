CONSTANTS
  s1 = s1
  p1 = p1
  None = None
  Sessions = {s1}
  Launches = {}
  Stops = {p1}
  MaxFaults = 0
  MaxCrashes = 0
SPECIFICATION Spec
SYMMETRY CommandSymmetry
INVARIANTS
  StopClosesRoom
