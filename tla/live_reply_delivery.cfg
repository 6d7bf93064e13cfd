CONSTANTS
  m1 = m1
  m2 = m2
  None = None
  Messages = {m1, m2}
  Copies = 2
  MaxRetries = 1
  MaxFaults = 2
SPECIFICATION FairSpec
INVARIANTS
  BoundedEffort
  CountMatchesMessages
PROPERTIES
  TaskEnds
