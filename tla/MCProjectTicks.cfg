SPECIFICATION FairSpec
CONSTANTS
  g1 = g1
  Ticks = {1, 2}
  Guards = {1, 2}
  Groups = {g1}
  TaskIds = {1, 2}
  NoOne = NoOne
  MaxOpenPRs = 2
  MaxActiveSessions = 1
  MaxAttempts = 1
  MaxOpenAttempts = 2
  DispatchLostAfter = 1
  JobGoneAfter = 1
  WrapUp = 1
  RunningTimeout = 2
  JobDeadline = 1
  MaxConsecutiveFailures = 1
  MaxFaults = 1
INVARIANTS TypeOK WorkWithinLimits GroupBudget OpenedPRIsTracked OneOpeningAtATime
PROPERTIES WorkingSessionNeverFails SessionsSettle
