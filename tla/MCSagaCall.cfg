\* One saga of either definition, two drains that overlap.
SPECIFICATION FairSpec
CONSTANTS
  s1 = s1
  s2 = s2
  w1 = w1
  w2 = w2
  manager = manager
  member = member
  Saga = {s1, s2}
  NoSaga = NoSaga
  Steps = 2
  Plan <- Registry
  Task <- StepTask
  User = {manager, member}
  Manager = {manager}
  Team = Team
  Worker = {w1, w2}
  MaxAttempts = 2
  MaxSagas = 1
  MaxLost = 1
INVARIANTS StepsInOrder
PROPERTIES EscalatedInTurn OverdueReachesTheTop EverySagaEnds
\* Every saga may have ended, every task be closed.
CHECK_DEADLOCK FALSE
