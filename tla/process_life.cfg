CONSTANTS
  m1 = m1
  m2 = m2
  RunnerCount = 3
  Messages = {m1, m2}
  Targets = {1, 2, 3}
  MaxRestarts = 2
SPECIFICATION ProcessFairSpec
INVARIANTS
  ProcessTypeOK
  StoppedStaysQuiet
  RepliesInHandFinish
  ServingSchema
  RowsSurvive
  EveryStartApplies
PROPERTIES
  ShutdownEnds
