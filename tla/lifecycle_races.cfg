CONSTANTS
  s1 = s1
  s2 = s2
  l1 = l1
  l2 = l2
  p1 = p1
  None = None
  Sessions = {s1, s2}
  Launches = {l1, l2}
  Stops = {p1}
  MaxFaults = 0
  MaxCrashes = 0
SPECIFICATION Spec
SYMMETRY CommandSymmetry
INVARIANTS
  TypeOK
  AtMostOneActive
  AtMostOneWatching
  LaunchExclusive
  LaunchedKeepsRound
  SuccessClosesWatch
PROPERTIES
  DecidedIsFinal
