CONSTANTS
  m1 = m1
  m2 = m2
  m3 = m3
  None = None
  Messages = {m1, m2, m3}
  Copies = 1
  MaxRetries = 1
  MaxFaults = 3
SPECIFICATION Spec
SYMMETRY MessageSymmetry
INVARIANTS
  TypeOK
  SingleFlightUntilStopped
  TaskHasDriver
  RepliesInOrder
  StopDrainsOldTasks
  OneLateReply
