CONSTANTS
  s1 = s1
  l1 = l1
  None = None
  Sessions = {s1}
  Launches = {l1}
  Stops = {}
  MaxFaults = 1
  MaxCrashes = 0
SPECIFICATION Spec
SYMMETRY CommandSymmetry
INVARIANTS
  LaunchRollbackRestoresPlanning
