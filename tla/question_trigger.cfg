CONSTANTS
  s1 = s1
  l1 = l1
  p1 = p1
  None = None
  Sessions = {s1}
  Launches = {l1}
  Stops = {p1}
  MaxFaults = 1
  MaxCrashes = 0
  MaxIntervals = 1
SPECIFICATION QuestionFairSpec
INVARIANTS
  QuestionTypeOK
  QuestionsArePaced
  OneLateQuestion
PROPERTIES
  QuestionIsAsked
  OverdueIsClosed
