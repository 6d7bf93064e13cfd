CONSTANTS
  s1 = s1
  s2 = s2
  Sessions = {s1, s2}
  MaxEvents = 2
  BatchSize = 2
  MaxFaults = 2
  MaxCrashes = 1
SPECIFICATION FairSpec
INVARIANTS
  TypeOK
  NothingLost
  DuplicatesNeedFailure
  FirstDeliveriesInOrder
PROPERTIES
  PendingIsDispatched
