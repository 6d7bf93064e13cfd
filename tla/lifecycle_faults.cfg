CONSTANTS
  s1 = s1
  l1 = l1
  l2 = l2
  p1 = p1
  None = None
  Sessions = {s1}
  Launches = {l1, l2}
  Stops = {p1}
  MaxFaults = 2
  MaxCrashes = 1
SPECIFICATION Spec
SYMMETRY CommandSymmetry
INVARIANTS
  PreparedIsClean
  RunningHasLaunch
  OffAnnouncedOnce
  FailedStartLeavesNothing
PROPERTIES
  ImplementsRoom
